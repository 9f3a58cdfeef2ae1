--------------------------- MODULE MultRing_proofs ---------------------------
(***************************************************************************)
(* Machine-checked facts about the share exchange, for every ring length   *)
(* and every number of rounds: the mailboxes of one query, the refinement  *)
(* of the round-by-round exchange, and what the ring promises for any      *)
(* number of queries at the same time and of failing calls.  Then what the *)
(* client gets when handlers throw and calls fail, on a ring of three      *)
(* servers, for any number of queries, exchanges, checks and faults: the   *)
(* sum of all shares or of none, and a ring that is empty between two      *)
(* queries.                                                                *)
(***************************************************************************)
EXTENDS QueryLifecycle, MultRingInv, FiniteSetTheorems, TLAPS

\* One query is in progress.
OneQuery == \E q : Queries = {q}

-----------------------------------------------------------------------------
(* The ring.                                                               *)

\* Every server has one predecessor, which is another server, and no two
\* servers share it: (serverID + 1) % NUM_SERVERS is a bijection.
LEMMA PredFacts ==
  ASSUME NEW s \in Server
  PROVE  /\ Pred(s) \in Server
         /\ Pred(s) # s
         /\ \A t \in Server : Pred(t) = Pred(s) => t = s
         /\ \E t \in Server : Pred(t) = s
<1>1. \E t \in Server : Pred(t) = s
  <2>1. CASE s = NumServers - 1
    BY <2>1, RingAssumption DEF Server, Pred
  <2>2. CASE s # NumServers - 1
    <3>1. s + 1 \in Server /\ Pred(s + 1) = s
      BY <2>2, RingAssumption DEF Server, Pred
    <3> QED
      BY <3>1
  <2> QED
    BY <2>1, <2>2
<1> QED
  BY <1>1, RingAssumption DEF Server, Pred

\* Notifying orderCV leaves a CQ state in every server.
LEMMA NotifyType ==
  ASSUME TypeOK, NEW s \in Server
  PROVE  NotifyOrderCV(s) \in [Server -> CQState]
  BY DEF TypeOK, NotifyOrderCV, CQState

\* Take finishes the query at server s ...
Ends(s, q) ==
  /\ round[s][q] = Rounds
  /\ pc' = [pc EXCEPT ![s][q] = "done"]
  /\ round' = round

\* ... or begins the next round there.
Continues(s, q) ==
  /\ round[s][q] # Rounds
  /\ round[s][q] + 1 \in Round
  /\ pc' = [pc EXCEPT ![s][q] = "compute"]
  /\ round' = [round EXCEPT ![s][q] = round[s][q] + 1]

\* What Take does to the worker itself.
LEMMA TakeStep ==
  ASSUME TypeOK, NEW s \in Server, NEW q \in Queries, Take(s, q)
  PROVE  Ends(s, q) \/ Continues(s, q)
<1>1. CASE round[s][q] = Rounds
  BY <1>1, Zenon DEF Take, Ends
<1>2. CASE round[s][q] # Rounds
  <2>1. pc' = [pc EXCEPT ![s][q] = "compute"]
    BY <1>2, Zenon DEF Take
  <2>2. round' = [round EXCEPT ![s][q] = round[s][q] + 1]
    BY <1>2, Zenon DEF Take
  <2>3. round[s][q] \in Round
    BY DEF TypeOK
  <2>4. round[s][q] + 1 \in Round
    BY <1>2, <2>3, RoundsAssumption DEF Round
  <2> QED
    BY <1>2, <2>1, <2>2, <2>4 DEF Continues
<1> QED
  BY <1>1, <1>2

-----------------------------------------------------------------------------
(* Every variable keeps its type, whatever the number of queries and       *)
(* failed calls.                                                           *)
THEOREM TypeCorrect == FaultySpec => []TypeOK
<1>1. Init => TypeOK
  BY RoundsAssumption, FailureAssumption
     DEF Init, TypeOK, WorkerState, CQState, Round
<1>2. TypeOK /\ [FaultyNext]_vars => TypeOK'
  <2> SUFFICES ASSUME TypeOK, [FaultyNext]_vars
               PROVE  TypeOK'
    OBVIOUS
  <2>1. ASSUME NEW s \in Server, NEW q \in Queries, Send(s, q)
        PROVE  TypeOK'
    <3>1. Outgoing(s, q) \in Msg
      BY DEF TypeOK, Outgoing, Msg
    <3>2. pc' \in [Server -> [Queries -> WorkerState]]
      BY <2>1 DEF Send, TypeOK, WorkerState
    <3>3. wire' \in [Server -> SUBSET Msg]
      BY <2>1, <3>1 DEF Send, TypeOK
    <3> QED
      BY <2>1, <3>2, <3>3 DEF Send, TypeOK
  <2>2. ASSUME NEW s \in Server, NEW q \in Queries, CallFails(s, q)
        PROVE  TypeOK'
    <3>1. pc' \in [Server -> [Queries -> WorkerState]]
      BY <2>2 DEF CallFails, TypeOK, WorkerState
    <3>2. wire' \in [Server -> SUBSET Msg]
      BY <2>2 DEF CallFails, TypeOK
    <3>3. failures' \in 0 .. MaxFailures
      BY <2>2, FailureAssumption DEF CallFails, TypeOK
    <3> QED
      BY <2>2, <3>1, <3>2, <3>3 DEF CallFails, TypeOK
  <2>3. ASSUME NEW s \in Server, NEW q \in Queries, Sleep(s, q)
        PROVE  TypeOK'
    <3>1. pc' \in [Server -> [Queries -> WorkerState]]
      BY <2>3 DEF Sleep, TypeOK, WorkerState
    <3>2. posted' \in [Server -> Nat]
      BY <2>3 DEF Sleep, TypeOK
    <3> QED
      BY <2>3, <3>1, <3>2 DEF Sleep, TypeOK
  <2>4. ASSUME NEW s \in Server, NEW q \in Queries, Take(s, q)
        PROVE  TypeOK'
    <3>0. Ends(s, q) \/ Continues(s, q)
      BY <2>4, TakeStep
    <3>1. pc' \in [Server -> [Queries -> WorkerState]]
      <4>1. CASE Ends(s, q)
        BY <4>1 DEF Ends, TypeOK, WorkerState
      <4>2. CASE Continues(s, q)
        BY <4>2 DEF Continues, TypeOK, WorkerState
      <4> QED
        BY <3>0, <4>1, <4>2
    <3>2. round' \in [Server -> [Queries -> Round]]
      <4>1. CASE Ends(s, q)
        BY <4>1 DEF Ends, TypeOK
      <4>2. CASE Continues(s, q)
        BY <4>2 DEF Continues, TypeOK
      <4> QED
        BY <3>0, <4>1, <4>2
    <3>3. got' \in [Server -> [Queries -> [Round -> Msg \cup {NoMsg}]]]
      BY <2>4 DEF Take, TypeOK
    <3>4. slot' \in [Server -> Msg \cup {NoMsg}] /\ cqState' \in [Server -> CQState]
      BY <2>4, NotifyType DEF Take, TypeOK
    <3> QED
      BY <2>4, <3>1, <3>2, <3>3, <3>4 DEF Take, TypeOK
  <2>5. ASSUME NEW s \in Server, Accept(s)
        PROVE  TypeOK'
    <3>1. wire' \in [Server -> SUBSET Msg] /\ cqMsg' \in [Server -> Msg \cup {NoMsg}]
      BY <2>5, PredFacts DEF Accept, TypeOK
    <3>2. posted' \in [Server -> Nat] /\ cqState' \in [Server -> CQState]
      BY <2>5 DEF Accept, TypeOK, CQState
    <3> QED
      BY <2>5, <3>1, <3>2 DEF Accept, TypeOK
  <2>6. ASSUME NEW s \in Server, HandOver(s)
        PROVE  TypeOK'
    <3>1. pc' \in [Server -> [Queries -> WorkerState]]
      BY <2>6 DEF HandOver, TypeOK, WorkerState
    <3>2. slot' \in [Server -> Msg \cup {NoMsg}] /\ cqMsg' \in [Server -> Msg \cup {NoMsg}]
      BY <2>6 DEF HandOver, TypeOK
    <3>3. posted' \in [Server -> Nat] /\ cqState' \in [Server -> CQState]
      BY <2>6 DEF HandOver, TypeOK, CQState
    <3> QED
      BY <2>6, <3>1, <3>2, <3>3 DEF HandOver, TypeOK
  <2>7. ASSUME NEW s \in Server, Block(s)
        PROVE  TypeOK'
    BY <2>7 DEF Block, TypeOK, CQState
  <2>8. CASE UNCHANGED vars
    BY <2>8 DEF vars, TypeOK
  <2> QED
    BY <2>1, <2>2, <2>3, <2>4, <2>5, <2>6, <2>7, <2>8
       DEF FaultyNext, Next, Worker, CQThread, Answered
<1> QED
  BY <1>1, <1>2, PTL DEF FaultySpec

\* Whatever holds with failing calls holds without.
LEMMA FaultsNotNeeded == Spec => FaultySpec
<1>1. [Next]_vars => [FaultyNext]_vars
  BY DEF FaultyNext
<1> QED
  BY <1>1, PTL DEF Spec, FaultySpec

-----------------------------------------------------------------------------
(* Each action preserves the inductive invariant.                          *)

\* A query starts with empty mailboxes and nothing in flight.
LEMMA InitInv ==
  ASSUME Init
  PROVE  IInv
<1> SUFFICES ASSUME NEW t \in Server, NEW q \in Queries
             PROVE  Mailbox(t, q) /\ InFlight(t, q) /\ Sleepers(t, q) /\ History(t, q)
  BY DEF IInv
<1>1. Deposited(Pred(t), q) = 0 /\ Used(t, q) = 0
  BY PredFacts DEF Init, Deposited, Used
<1>2. Mailbox(t, q)
  BY <1>1 DEF Init, Mailbox
<1>3. InFlight(t, q)
  BY PredFacts DEF Init, InFlight
<1>4. Sleepers(t, q)
  BY DEF Init, Sleepers
<1>5. History(t, q)
  BY <1>1 DEF Init, History, Round
<1> QED
  BY <1>2, <1>3, <1>4, <1>5

\* Send puts the vector of a new round on the wire.
LEMMA SendInv ==
  ASSUME TypeOK, IInv, NEW q, Queries = {q}, NEW s \in Server, Send(s, q)
  PROVE  IInv'
<1> SUFFICES ASSUME NEW t \in Server
             PROVE  (Mailbox(t, q) /\ InFlight(t, q) /\ Sleepers(t, q) /\ History(t, q))'
  BY DEF IInv
<1> DEFINE p == Pred(t)
<1>1. /\ p \in Server
      /\ Mailbox(t, q) /\ InFlight(t, q) /\ Sleepers(t, q) /\ History(t, q)
  BY PredFacts DEF IInv
<1>2. Deposited(p, q)' = Deposited(p, q) /\ Used(t, q)' = Used(t, q)
  BY <1>1 DEF Send, Deposited, Used, TypeOK, WorkerState
<1>3. Mailbox(t, q)'
  BY <1>1, <1>2 DEF Send, Mailbox
<1>4. InFlight(t, q)'
  BY <1>1 DEF Send, InFlight, Outgoing, TypeOK
<1>5. Sleepers(t, q)'
  BY <1>1 DEF Send, Sleepers, TypeOK
<1>6. History(t, q)'
  BY <1>1, <1>2 DEF Send, History
<1> QED
  BY <1>3, <1>4, <1>5, <1>6

\* Sleep only records that the worker waits for an empty mailbox to fill.
LEMMA SleepInv ==
  ASSUME TypeOK, IInv, NEW q, Queries = {q}, NEW s \in Server, Sleep(s, q)
  PROVE  IInv'
<1> SUFFICES ASSUME NEW t \in Server
             PROVE  (Mailbox(t, q) /\ InFlight(t, q) /\ Sleepers(t, q) /\ History(t, q))'
  BY DEF IInv
<1> DEFINE p == Pred(t)
<1>1. /\ p \in Server
      /\ Mailbox(t, q) /\ InFlight(t, q) /\ Sleepers(t, q) /\ History(t, q)
  BY PredFacts DEF IInv
<1>2. Deposited(p, q)' = Deposited(p, q) /\ Used(t, q)' = Used(t, q)
  BY <1>1 DEF Sleep, Deposited, Used, TypeOK, WorkerState
<1>3. Mailbox(t, q)'
  BY <1>1, <1>2 DEF Sleep, Mailbox
<1>4. InFlight(t, q)'
  BY <1>1 DEF Sleep, InFlight, Outgoing, TypeOK
<1>5. Sleepers(t, q)'
  BY <1>1 DEF Sleep, Sleepers, TypeOK
<1>6. History(t, q)'
  BY <1>1, <1>2 DEF Sleep, History
<1> QED
  BY <1>3, <1>4, <1>5, <1>6

\* Take empties the mailbox: the vector in it is the one of this round.
LEMMA TakeInv ==
  ASSUME TypeOK, IInv, NEW q, Queries = {q}, NEW s \in Server, Take(s, q)
  PROVE  IInv'
<1> SUFFICES ASSUME NEW t \in Server
             PROVE  (Mailbox(t, q) /\ InFlight(t, q) /\ Sleepers(t, q) /\ History(t, q))'
  BY DEF IInv
<1> DEFINE p == Pred(t)
<1>1. /\ p \in Server /\ p # t
      /\ Mailbox(t, q) /\ InFlight(t, q) /\ Sleepers(t, q) /\ History(t, q)
  BY PredFacts DEF IInv
<1>2. slot[s] = [query |-> q, round |-> round[s][q]] /\ Used(s, q) + 1 = round[s][q]
  <2>1. Mailbox(s, q) /\ slot[s] # NoMsg /\ pc[s][q] # "done" /\ round[s][q] \in Round
    BY DEF Take, IInv, TypeOK
  <2>2. Deposited(Pred(s), q) = Used(s, q) + 1 /\ slot[s] = [query |-> q, round |-> Deposited(Pred(s), q)]
    BY <2>1 DEF Mailbox
  <2> QED
    BY <2>1, <2>2 DEF Used, Round
<1>3. Used(t, q)' = IF t = s THEN Used(t, q) + 1 ELSE Used(t, q)
  <2>1. pc[s][q] # "done"
    BY DEF Take
  <2>2. CASE Ends(s, q)
    BY <1>2, <2>1, <2>2 DEF Ends, Used, TypeOK, Round
  <2>3. CASE Continues(s, q)
    BY <1>2, <2>1, <2>3 DEF Continues, Used, TypeOK, Round
  <2> QED
    BY <2>2, <2>3, TakeStep
<1>4. Deposited(p, q)' = Deposited(p, q)
  <2>1. pc[s][q] \in {"returned", "woken"}
    BY DEF Take
  <2>2. CASE Ends(s, q)
    BY <1>1, <2>1, <2>2 DEF Ends, Deposited, TypeOK, Round
  <2>3. CASE Continues(s, q)
    BY <1>1, <2>1, <2>3 DEF Continues, Deposited, TypeOK, Round
  <2> QED
    BY <2>2, <2>3, TakeStep
<1>5. Mailbox(t, q)'
  <2>1. CASE t = s
    BY <1>1, <1>3, <1>4, <2>1 DEF Take, Mailbox, TypeOK
  <2>2. CASE t # s
    BY <1>1, <1>3, <1>4, <2>2 DEF Take, Mailbox, TypeOK
  <2> QED
    BY <2>1, <2>2
<1>6. InFlight(t, q)'
  <2>1. CASE p = s
    BY <1>1, <2>1 DEF Take, InFlight, TypeOK
  <2>2. CASE p # s
    BY <1>1, <2>2 DEF Take, InFlight, Outgoing, TypeOK
  <2> QED
    BY <2>1, <2>2
<1>7. Sleepers(t, q)'
  <2>1. CASE t = s
    BY <1>1, <2>1 DEF Take, Sleepers, TypeOK, NotifyOrderCV, CQState
  <2>2. CASE t # s
    BY <1>1, <2>2 DEF Take, Sleepers, TypeOK, NotifyOrderCV
  <2> QED
    BY <2>1, <2>2
<1>8. History(t, q)'
  <2>1. CASE t = s
    <3>1. got' = [got EXCEPT ![s][q][round[s][q]] = slot[s]]
      BY DEF Take
    <3>2. ASSUME NEW r \in Round
          PROVE  got'[s][q][r] = IF r = round[s][q] THEN slot[s] ELSE got[s][q][r]
      BY <3>1, <3>2 DEF TypeOK
    <3>3. Used(s, q)' = round[s][q] /\ round[s][q] \in Round
      BY <1>2, <1>3, <2>1 DEF TypeOK, Round
    <3>4. ASSUME NEW r \in Round
          PROVE  got'[s][q][r] = IF r <= Used(s, q)' THEN [query |-> q, round |-> r] ELSE NoMsg
      <4>1. got[s][q][r] = IF r <= Used(s, q) THEN [query |-> q, round |-> r] ELSE NoMsg
        BY <1>1, <2>1, <3>4 DEF History
      <4>2. Used(s, q) \in Int /\ r \in Int /\ round[s][q] \in Int
        BY <3>3, <3>4 DEF Used, TypeOK, Round
      <4>3. CASE r = round[s][q]
        BY <1>2, <3>2, <3>3, <4>3, <4>2
      <4>4. CASE r # round[s][q]
        <5>1. (r <= Used(s, q)') <=> (r <= Used(s, q))
          BY <1>2, <3>3, <4>2, <4>4
        <5> QED
          BY <3>2, <4>1, <4>4, <5>1
      <4> QED
        BY <4>3, <4>4
    <3> QED
      BY <2>1, <3>4 DEF History
  <2>2. CASE t # s
    BY <1>1, <1>3, <2>2 DEF Take, History, TypeOK
  <2> QED
    BY <2>1, <2>2
<1> QED
  BY <1>5, <1>6, <1>7, <1>8

\* Accept moves the vector of the predecessor's pending call to the CQ thread.
LEMMA AcceptInv ==
  ASSUME TypeOK, IInv, NEW q, Queries = {q}, NEW s \in Server, Accept(s)
  PROVE  IInv'
<1> SUFFICES ASSUME NEW t \in Server
             PROVE  (Mailbox(t, q) /\ InFlight(t, q) /\ Sleepers(t, q) /\ History(t, q))'
  BY DEF IInv
<1> DEFINE p == Pred(t)
<1>1. /\ p \in Server
      /\ Mailbox(t, q) /\ InFlight(t, q) /\ Sleepers(t, q) /\ History(t, q)
  BY PredFacts DEF IInv
<1>2. Deposited(p, q)' = Deposited(p, q) /\ Used(t, q)' = Used(t, q)
  BY DEF Accept, Deposited, Used
<1>3. Mailbox(t, q)' /\ History(t, q)'
  BY <1>1, <1>2 DEF Accept, Mailbox, History
<1>4. CASE t = s
  <2>1. PICK m \in wire[p] : /\ wire' = [wire EXCEPT ![p] = @ \ {m}]
                            /\ cqMsg' = [cqMsg EXCEPT ![t] = m]
    BY <1>4 DEF Accept
  <2>2. pc[p][q] = "calling" /\ wire[p] = {Outgoing(p, q)} /\ m = Outgoing(p, q)
    BY <1>1, <2>1 DEF InFlight
  <2>3. m # NoMsg
    BY <1>1, <2>1, NoMsgAssumption DEF TypeOK
  <2>4. wire'[p] = {} /\ cqMsg'[t] = Outgoing(p, q)'
    BY <1>1, <2>1, <2>2 DEF Accept, Outgoing, TypeOK
  <2>5. InFlight(t, q)'
    BY <2>2, <2>4 DEF InFlight, Accept
  <2>6. Sleepers(t, q)'
    BY <1>1, <1>4, <2>1, <2>3 DEF Accept, Sleepers, TypeOK
  <2> QED
    BY <1>3, <2>5, <2>6
<1>5. CASE t # s
  <2>1. p # Pred(s)
    BY <1>5, PredFacts
  <2>2. wire'[p] = wire[p] /\ cqMsg'[t] = cqMsg[t] /\ cqState'[t] = cqState[t]
    BY <1>1, <1>5, <2>1, PredFacts DEF Accept, TypeOK
  <2>3. InFlight(t, q)'
    BY <1>1, <2>2 DEF Accept, InFlight, Outgoing
  <2>4. Sleepers(t, q)'
    BY <1>1, <2>2 DEF Accept, Sleepers
  <2> QED
    BY <1>3, <2>3, <2>4
<1> QED
  BY <1>4, <1>5

\* What HandOver does to the workers: it answers the predecessor's call and
\* wakes the server's own worker if that one is asleep.
LEMMA HandOverStep ==
  ASSUME TypeOK, IInv, NEW q, Queries = {q}, NEW s \in Server, HandOver(s)
  PROVE  /\ pc[Pred(s)][q] = "calling"
         /\ wire[Pred(s)] = {}
         /\ cqMsg[s] = Outgoing(Pred(s), q)
         /\ \A t \in Server :
              pc'[t][q] = IF t = Pred(s) THEN "returned"
                          ELSE IF t = s /\ pc[s][q] = "asleep" THEN "woken"
                          ELSE pc[t][q]
<1>1. InFlight(s, q) /\ Sleepers(s, q)
  BY DEF IInv
<1>2. cqState[s] \in {"fresh", "woken"}
  BY DEF HandOver
<1>3. cqMsg[s] # NoMsg
  BY <1>1, <1>2 DEF Sleepers
<1>4. pc[Pred(s)][q] = "calling" /\ wire[Pred(s)] = {} /\ cqMsg[s] = Outgoing(Pred(s), q)
  BY <1>1, <1>3 DEF InFlight
<1>5. q \in Callers(s, cqMsg[s])
  BY <1>4 DEF Callers, Outgoing
<1>6. PICK woken \in NotifyMultCV(s) :
        pc' = [t \in Server |-> [x \in Queries |->
                 IF t = Pred(s) /\ x \in Callers(s, cqMsg[s]) THEN "returned"
                 ELSE IF t = s /\ x \in woken THEN "woken"
                 ELSE pc[t][x]]]
  BY Zenon DEF HandOver
<1>7. q \in woken <=> pc[s][q] = "asleep"
  BY <1>6 DEF NotifyMultCV
<1>8. ASSUME NEW t \in Server
      PROVE  pc'[t][q] = IF t = Pred(s) THEN "returned"
                         ELSE IF t = s /\ pc[s][q] = "asleep" THEN "woken"
                         ELSE pc[t][q]
  BY <1>5, <1>6, <1>7
<1> QED
  BY <1>4, <1>8

\* HandOver puts the predecessor's vector in a mailbox that is empty.
LEMMA HandOverInv ==
  ASSUME TypeOK, IInv, NEW q, Queries = {q}, NEW s \in Server, HandOver(s)
  PROVE  IInv'
<1> SUFFICES ASSUME NEW t \in Server
             PROVE  (Mailbox(t, q) /\ InFlight(t, q) /\ Sleepers(t, q) /\ History(t, q))'
  BY DEF IInv
<1> DEFINE p == Pred(t)
<1>1. /\ p \in Server /\ p # t /\ Pred(s) \in Server /\ Pred(s) # s
      /\ Mailbox(t, q) /\ InFlight(t, q) /\ Sleepers(t, q) /\ History(t, q)
  BY PredFacts DEF IInv
<1>2. /\ pc[Pred(s)][q] = "calling"
      /\ wire[Pred(s)] = {}
      /\ cqMsg[s] = Outgoing(Pred(s), q)
      /\ \A u \in Server :
           pc'[u][q] = IF u = Pred(s) THEN "returned"
                       ELSE IF u = s /\ pc[s][q] = "asleep" THEN "woken"
                       ELSE pc[u][q]
  BY HandOverStep
<1>3. round' = round /\ wire' = wire /\ got' = got
  BY DEF HandOver
<1>4. Used(t, q)' = Used(t, q)
  BY <1>1, <1>2, <1>3 DEF Used
<1>5. Deposited(p, q)' = IF t = s THEN Deposited(p, q) + 1 ELSE Deposited(p, q)
  <2>1. p = Pred(s) <=> t = s
    BY PredFacts
  <2>2. round[p][q] \in Int
    BY <1>1 DEF TypeOK, Round
  <2> QED
    BY <1>1, <1>2, <1>3, <2>1, <2>2 DEF Deposited
<1>6. History(t, q)'
  BY <1>1, <1>3, <1>4 DEF History
<1>7. CASE t = s
  <2>1. slot[t] = NoMsg /\ slot'[t] = Outgoing(p, q) /\ cqMsg'[t] = NoMsg /\ cqState'[t] = "idle"
    BY <1>2, <1>7 DEF HandOver, TypeOK
  <2>2. Deposited(p, q) + 1 = round[p][q]
    BY <1>1, <1>2, <1>7 DEF Deposited, TypeOK, Round
  <2>3. slot'[t] # NoMsg
    BY <1>1, <2>1, NoMsgAssumption DEF Outgoing, Msg, TypeOK
  <2>4. Deposited(p, q) = Used(t, q)
    <3>1. Used(t, q) \in Nat /\ round[p][q] \in 1 .. Rounds
      BY <1>1 DEF Used, TypeOK, Round
    <3>2. ASSUME Deposited(p, q) = Used(t, q) + 1
          PROVE  [query |-> q, round |-> Deposited(p, q)] \in Msg
      BY <2>2, <3>1, <3>2, RoundsAssumption DEF Msg, Round
    <3> QED
      BY <1>1, <2>1, <3>2, NoMsgAssumption DEF Mailbox
  <2>5. Mailbox(t, q)'
    BY <1>4, <1>5, <1>7, <2>1, <2>2, <2>4 DEF Mailbox, Outgoing
  <2>6. InFlight(t, q)'
    BY <1>1, <1>2, <1>3, <1>7, <2>1 DEF InFlight
  <2>7. Sleepers(t, q)'
    BY <1>1, <1>2, <1>3, <1>7, <2>1 DEF Sleepers
  <2> QED
    BY <1>6, <2>5, <2>6, <2>7
<1>8. CASE t # s
  <2>1. slot'[t] = slot[t] /\ cqMsg'[t] = cqMsg[t] /\ cqState'[t] = cqState[t]
    BY <1>8 DEF HandOver, TypeOK
  <2>2. p # Pred(s)
    BY <1>8, PredFacts
  <2>3. Mailbox(t, q)'
    BY <1>1, <1>4, <1>5, <1>8, <2>1 DEF Mailbox
  <2>4. pc'[p][q] = "calling" <=> pc[p][q] = "calling"
    BY <1>1, <1>2, <2>2
  <2>5. InFlight(t, q)'
    BY <1>1, <1>3, <2>1, <2>4 DEF InFlight, Outgoing
  <2>6. Sleepers(t, q)'
    BY <1>1, <1>2, <1>3, <1>8, <2>1 DEF Sleepers
  <2> QED
    BY <1>6, <2>3, <2>5, <2>6
<1> QED
  BY <1>7, <1>8

\* Block only puts the CQ thread to sleep, on a full mailbox.
LEMMA BlockInv ==
  ASSUME TypeOK, IInv, NEW q, Queries = {q}, NEW s \in Server, Block(s)
  PROVE  IInv'
<1> SUFFICES ASSUME NEW t \in Server
             PROVE  (Mailbox(t, q) /\ InFlight(t, q) /\ Sleepers(t, q) /\ History(t, q))'
  BY DEF IInv
<1>1. Mailbox(t, q) /\ InFlight(t, q) /\ Sleepers(t, q) /\ History(t, q)
  BY DEF IInv
<1>2. Mailbox(t, q)' /\ InFlight(t, q)' /\ History(t, q)'
  BY <1>1 DEF Block, Mailbox, InFlight, Outgoing, History, Deposited, Used
<1>3. Sleepers(t, q)'
  BY <1>1 DEF Block, Sleepers, TypeOK
<1> QED
  BY <1>2, <1>3

-----------------------------------------------------------------------------
(* What one query at a time can rely on.                                   *)

\* Every step of any server keeps the inductive invariant.
LEMMA NextInv ==
  ASSUME OneQuery, TypeOK, IInv, [Next]_vars
  PROVE  IInv'
<1>1. PICK q : Queries = {q}
  BY DEF OneQuery
<1>2. ASSUME NEW s \in Server, Worker(s, q)
      PROVE  IInv'
  BY <1>1, <1>2, SendInv, SleepInv, TakeInv DEF Worker
<1>3. ASSUME NEW s \in Server, CQThread(s)
      PROVE  IInv'
  BY <1>1, <1>3, AcceptInv, HandOverInv, BlockInv DEF CQThread
<1>4. CASE UNCHANGED vars
  BY <1>4 DEF vars, IInv, Mailbox, InFlight, Sleepers, History, Deposited, Used, Outgoing
<1> QED
  BY <1>1, <1>2, <1>3, <1>4 DEF Next, Answered

\* The inductive invariant of the exchange holds in every reachable state of
\* one query whose calls succeed, for every ring length and round count.
THEOREM InvCorrect == ASSUME OneQuery PROVE Spec => []IInv
<1>1. Init => IInv
  BY InitInv
<1>2. TypeOK /\ IInv /\ [Next]_vars => IInv'
  BY NextInv
<1> QED
  BY <1>1, <1>2, TypeCorrect, FaultsNotNeeded, PTL DEF Spec

\* Each round is computed with the predecessor's vector of the same round,
\* although SendMult carries no round number.
THEOREM RoundsMatch == ASSUME OneQuery PROVE Spec => []RoundMatch
<1>1. IInv => RoundMatch
  BY DEF IInv, History, RoundMatch
<1> QED
  BY <1>1, InvCorrect, PTL

\* Neighbours of the ring are never more than one exchange apart.
THEOREM SkewBounded == ASSUME OneQuery PROVE Spec => []NeighbourSkew
<1>1. TypeOK /\ IInv => NeighbourSkew
  <2> SUFFICES ASSUME TypeOK, IInv, NEW s \in Server, NEW q \in Queries
               PROVE  /\ round[s][q] <= round[Pred(s)][q] + 1
                      /\ round[Pred(s)][q] <= round[s][q] + 1
    BY DEF NeighbourSkew
  <2> DEFINE d == Deposited(Pred(s), q)
             u == Used(s, q)
  <2>1. d = u \/ d = u + 1
    BY DEF IInv, Mailbox
  <2>2. round[s][q] \in 1 .. Rounds /\ round[Pred(s)][q] \in 1 .. Rounds
    BY PredFacts DEF TypeOK, Round
  <2>3. d \in {round[Pred(s)][q] - 1, round[Pred(s)][q]}
    BY DEF Deposited
  <2>4. u = round[s][q] - 1 \/ (u = round[s][q] /\ round[s][q] = Rounds)
    BY DEF Used, IInv, Sleepers
  <2> HIDE DEF d, u
  <2> QED
    BY <2>1, <2>2, <2>3, <2>4, RoundsAssumption
<1> QED
  BY <1>1, InvCorrect, TypeCorrect, FaultsNotNeeded, PTL

\* A query leaves no vector in flight, in a mailbox or with a CQ thread that
\* a later query could take for its own.
THEOREM CleanAfterwards == ASSUME OneQuery PROVE Spec => []CleanWhenDone
<1>1. TypeOK /\ IInv => CleanWhenDone
  <2> SUFFICES ASSUME TypeOK, IInv, AllDone, NEW s \in Server
               PROVE  wire[s] = {} /\ slot[s] = NoMsg /\ cqState[s] = "idle"
    BY DEF CleanWhenDone
  <2>1. PICK q : q \in Queries
    BY DEF OneQuery
  <2>2. ASSUME NEW t \in Server
        PROVE  pc[t][q] = "done" /\ round[t][q] = Rounds
    BY <2>1 DEF AllDone, IInv, Sleepers
  <2>3. PICK t \in Server : Pred(t) = s
    BY PredFacts
  <2>4. wire[s] = {}
    BY <2>1, <2>2, <2>3 DEF IInv, InFlight
  <2>5. Deposited(Pred(s), q) = Rounds /\ Used(s, q) = Rounds
    BY <2>2, PredFacts DEF Deposited, Used
  <2>6. slot[s] = NoMsg
    <3>1. Mailbox(s, q)
      BY <2>1 DEF IInv
    <3>2. Rounds \in Nat
      BY RoundsAssumption
    <3> QED
      BY <2>5, <3>1, <3>2 DEF Mailbox
  <2>7. cqState[s] = "idle"
    BY <2>1, <2>2, PredFacts DEF IInv, InFlight, Sleepers
  <2> QED
    BY <2>4, <2>6, <2>7
<1> QED
  BY <1>1, InvCorrect, TypeCorrect, FaultsNotNeeded, PTL

-----------------------------------------------------------------------------
(* The mailbox ring implements the round-by-round exchange: Send is        *)
(* Publish, Take is Finish, and the steps of the transport, of the CQ      *)
(* threads and of sleeping workers are invisible.                          *)

\* The abstract ring is the same ring.
LEMMA SameRing == /\ Abstract!Server = Server
                  /\ Abstract!Round = Round
                  /\ \A s \in Server : Abstract!Pred(s) = Pred(s)
  BY DEF Abstract!Server, Abstract!Round, Abstract!Pred, Server, Round, Pred

\* There is only one query to refine.
LEMMA TheQueryFact ==
  ASSUME NEW q, Queries = {q}
  PROVE  TheQuery = q
  BY DEF TheQuery

\* The abstract view of one server.
LEMMA BarFacts ==
  ASSUME TypeOK, NEW q, Queries = {q}, NEW s \in Server
  PROVE  /\ publishedBar[s] = IF pc[s][q] = "compute" THEN round[s][q] - 1
                                                      ELSE round[s][q]
         /\ finishedBar[s] = Used(s, q)
  BY TheQueryFact DEF publishedBar, finishedBar, Used

\* Sending a vector publishes it.
LEMMA SendRefines ==
  ASSUME TypeOK, IInv, NEW q, Queries = {q}, NEW s \in Server, Send(s, q)
  PROVE  Abstract!Publish(s)
<1>1. TheQuery = q /\ pc[s][q] = "compute" /\ round[s][q] \in 1 .. Rounds
  <2>1. TheQuery = q
    BY TheQueryFact
  <2>2. pc[s][q] = "compute"
    BY DEF Send
  <2>3. round[s][q] \in 1 .. Rounds
    BY DEF TypeOK, Round
  <2> QED
    BY <2>1, <2>2, <2>3
<1>2. publishedBar[s] = finishedBar[s] /\ publishedBar[s] < Rounds
  BY <1>1, BarFacts, RoundsAssumption DEF Used
<1>3. publishedBar' = [publishedBar EXCEPT ![s] = @ + 1]
  <2>1. ASSUME NEW t \in Server
        PROVE  publishedBar'[t] = IF t = s THEN publishedBar[t] + 1 ELSE publishedBar[t]
    BY <1>1 DEF publishedBar, Send, TypeOK
  <2> QED
    BY <2>1 DEF publishedBar
<1>4. finishedBar' = finishedBar /\ usedBar' = usedBar
  <2>1. ASSUME NEW t \in Server
        PROVE  (pc'[t][q] = "done") = (pc[t][q] = "done")
    BY <1>1 DEF Send, TypeOK
  <2> QED
    BY <1>1, <2>1 DEF finishedBar, usedBar, Send
<1> QED
  BY <1>2, <1>3, <1>4 DEF Abstract!Publish

\* Taking the vector out of the mailbox finishes the round.
LEMMA TakeRefines ==
  ASSUME TypeOK, IInv, NEW q, Queries = {q}, NEW s \in Server, Take(s, q)
  PROVE  Abstract!Finish(s)
<1> DEFINE r == round[s][q]
<1>1. /\ TheQuery = q /\ r \in 1 .. Rounds /\ Pred(s) \in Server
      /\ pc[s][q] \in {"returned", "woken"} /\ slot[s] # NoMsg
  <2>1. TheQuery = q
    BY TheQueryFact
  <2>2. pc[s][q] \in {"returned", "woken"} /\ slot[s] # NoMsg
    BY DEF Take
  <2>3. r \in 1 .. Rounds
    BY DEF TypeOK, Round
  <2> QED
    BY <2>1, <2>2, <2>3, PredFacts
<1>2. finishedBar[s] = r - 1 /\ publishedBar[s] = r
  BY <1>1, BarFacts DEF Used
<1>3. Deposited(Pred(s), q) = r /\ slot[s] = [query |-> q, round |-> r]
  <2>1. Mailbox(s, q)
    BY DEF IInv
  <2>2. Used(s, q) = r - 1
    BY <1>1 DEF Used
  <2> HIDE DEF r
  <2>3. Deposited(Pred(s), q) = Used(s, q) + 1
    BY <1>1, <2>1 DEF Mailbox
  <2> QED
    BY <1>1, <2>1, <2>2, <2>3 DEF Mailbox
<1>4. r <= publishedBar[Pred(s)] /\ publishedBar[Pred(s)] \in Int
  <2> DEFINE x == round[Pred(s)][q]
  <2>1. x \in Int
    BY <1>1 DEF TypeOK, Round
  <2>2. publishedBar[Pred(s)] = IF pc[Pred(s)][q] = "compute" THEN x - 1 ELSE x
    BY <1>1, BarFacts
  <2>3. r = IF pc[Pred(s)][q] \in {"compute", "calling"} THEN x - 1 ELSE x
    BY <1>3 DEF Deposited
  <2> HIDE DEF x
  <2> QED
    BY <2>1, <2>2, <2>3
<1>5. publishedBar' = publishedBar
  <2>1. ASSUME NEW t \in Server
        PROVE  publishedBar'[t] = publishedBar[t]
    <3>1. CASE Ends(s, q)
      BY <1>1, <3>1 DEF Ends, publishedBar, TypeOK, Round
    <3>2. CASE Continues(s, q)
      BY <1>1, <3>2 DEF Continues, publishedBar, TypeOK, Round
    <3> QED
      BY <3>1, <3>2, TakeStep
  <2> QED
    BY <2>1 DEF publishedBar
<1>6. finishedBar' = [finishedBar EXCEPT ![s] = @ + 1]
  <2>1. ASSUME NEW t \in Server
        PROVE  finishedBar'[t] = IF t = s THEN finishedBar[t] + 1 ELSE finishedBar[t]
    <3>1. CASE Ends(s, q)
      BY <1>1, <3>1 DEF Ends, finishedBar, TypeOK, Round
    <3>2. CASE Continues(s, q)
      BY <1>1, <3>2 DEF Continues, finishedBar, TypeOK, Round
    <3> QED
      BY <3>1, <3>2, TakeStep
  <2> QED
    BY <2>1 DEF finishedBar
<1>7. usedBar' = [usedBar EXCEPT ![s][r] = r]
  <2>1. got' = [got EXCEPT ![s][q][r] = slot[s]]
    BY DEF Take
  <2>2. ASSUME NEW t \in Server, NEW x \in Round
        PROVE  got'[t][q][x] = IF t = s /\ x = r THEN slot[s] ELSE got[t][q][x]
    BY <2>1, <2>2 DEF TypeOK
  <2>3. slot[s].round = r
    BY <1>3
  <2>4. ASSUME NEW t \in Server, NEW x \in Round
        PROVE  usedBar'[t][x] = IF t = s /\ x = r THEN r ELSE usedBar[t][x]
    BY <1>1, <2>2, <2>3 DEF usedBar
  <2>5. r \in Round
    BY <1>1 DEF Round
  <2>6. /\ usedBar = [t \in Server |-> [x \in Round |-> usedBar[t][x]]]
        /\ usedBar' = [t \in Server |-> [x \in Round |-> usedBar'[t][x]]]
    BY Zenon DEF usedBar
  <2> HIDE DEF r
  <2> QED
    BY <2>4, <2>5, <2>6
<1> QED
  <2>1. /\ finishedBar[s] < publishedBar[s]
        /\ finishedBar[s] < publishedBar[Pred(s)]
        /\ finishedBar[s] + 1 = r
    BY <1>1, <1>2, <1>4
  <2> QED
    BY <1>5, <1>6, <1>7, <2>1, SameRing DEF Abstract!Finish

\* Everything else is invisible.
LEMMA OthersRefine ==
  ASSUME TypeOK, IInv, NEW q, Queries = {q}, NEW s \in Server,
         Sleep(s, q) \/ CQThread(s)
  PROVE  UNCHANGED Abstract!vars
<1>1. TheQuery = q /\ round' = round /\ got' = got
  BY TheQueryFact DEF Sleep, CQThread, Accept, HandOver, Block
<1>2. ASSUME NEW t \in Server
      PROVE  /\ pc'[t][q] = "compute" <=> pc[t][q] = "compute"
             /\ pc'[t][q] = "done" <=> pc[t][q] = "done"
  <2>1. CASE Sleep(s, q)
    BY <2>1 DEF Sleep, TypeOK
  <2>2. CASE Accept(s) \/ Block(s)
    BY <2>2 DEF Accept, Block
  <2>3. CASE HandOver(s)
    BY <2>3, HandOverStep
  <2> QED
    BY <2>1, <2>2, <2>3 DEF CQThread
<1> QED
  BY <1>1, <1>2 DEF Abstract!vars, publishedBar, finishedBar, usedBar

\* The threads, mailboxes and calls of the ring implement the abstract
\* exchange (its safety part; progress is model-checked).
THEOREM ExchangeImplemented == ASSUME OneQuery PROVE Spec => ImplementsExchangeSafety
<1>1. PICK q : Queries = {q}
  BY DEF OneQuery
<1>2. Init => Abstract!Init
  <2> SUFFICES ASSUME Init
               PROVE  Abstract!Init
    OBVIOUS
  <2>1. TheQuery = q /\ q \in Queries
    BY <1>1, TheQueryFact
  <2>2. publishedBar = [s \in Server |-> 0] /\ finishedBar = [s \in Server |-> 0]
    BY <2>1 DEF Init, publishedBar, finishedBar
  <2>3. usedBar = [s \in Server |-> [r \in Round |-> 0]]
    BY <2>1 DEF Init, usedBar
  <2> QED
    BY <2>2, <2>3, SameRing DEF Abstract!Init
<1>3. TypeOK /\ IInv /\ [Next]_vars => [Abstract!Next]_(Abstract!vars)
  <2> SUFFICES ASSUME TypeOK, IInv, [Next]_vars
               PROVE  [Abstract!Next]_(Abstract!vars)
    OBVIOUS
  <2>1. ASSUME NEW s \in Server, Send(s, q) \/ Take(s, q)
        PROVE  Abstract!Next
    BY <1>1, <2>1, SendRefines, TakeRefines, SameRing DEF Abstract!Next
  <2>2. CASE UNCHANGED vars
    BY <2>2 DEF vars, Abstract!vars, publishedBar, finishedBar, usedBar
  <2> QED
    BY <1>1, <2>1, <2>2, OthersRefine DEF Next, Worker, Answered
<1> QED
  BY <1>2, <1>3, InvCorrect, TypeCorrect, FaultsNotNeeded, PTL
     DEF Spec, Abstract!Spec, ImplementsExchangeSafety

-----------------------------------------------------------------------------
(* Any number of queries: no vector is in two places, none is lost while   *)
(* no call fails, and no thread sleeps beside what it waits for.           *)

-----------------------------------------------------------------------------
(* Sleeping threads.                                                       *)

\* NoLostWakeup, in parts: the workers and the CQ thread of a server.
WorkersAwake(s) ==
  slot[s] # NoMsg /\ (\E q \in Queries : pc[s][q] = "asleep") =>
    \E q \in Queries : pc[s][q] \in {"returned", "woken"}
CQAwake(s) == cqState[s] = "asleep" => slot[s] # NoMsg

\* Whom HandOver lets go on: the caller of the vector, and one sleeper.
LEMMA HandOverPC ==
  ASSUME TypeOK, NEW s \in Server, HandOver(s)
  PROVE  /\ \A t \in Server, q \in Queries :
              \/ pc'[t][q] = pc[t][q]
              \/ t = Pred(s) /\ pc[t][q] = "calling" /\ pc'[t][q] = "returned"
              \/ t = s /\ pc[t][q] = "asleep" /\ pc'[t][q] = "woken"
         /\ (\E q \in Queries : pc[s][q] = "asleep") =>
              \E q \in Queries : pc'[s][q] = "woken"
<1>1. PICK woken \in NotifyMultCV(s) :
        pc' = [t \in Server |-> [q \in Queries |->
                 IF t = Pred(s) /\ q \in Callers(s, cqMsg[s]) THEN "returned"
                 ELSE IF t = s /\ q \in woken THEN "woken"
                 ELSE pc[t][q]]]
  BY DEF HandOver
<1>2. \A q \in woken : q \in Queries /\ pc[s][q] = "asleep"
  BY <1>1 DEF NotifyMultCV
<1>3. \A q \in Callers(s, cqMsg[s]) : pc[Pred(s)][q] = "calling"
  BY DEF Callers
<1>4. Pred(s) # s
  BY PredFacts
<1>5. (\E q \in Queries : pc[s][q] = "asleep") => \E q \in woken : TRUE
  BY <1>1 DEF NotifyMultCV
<1>6. \A q \in woken : pc'[s][q] = "woken"
  BY <1>1, <1>2, <1>4
<1> QED
  BY <1>1, <1>2, <1>3, <1>5, <1>6

\* No thread sleeps while what it waits for is there and nobody is on the way
\* to it: one notify_one on each condition variable is enough, with any number
\* of queries in progress and whatever calls fail.
THEOREM NoWakeupLost == FaultySpec => []NoLostWakeup
<1>1. NoLostWakeup <=> \A s \in Server : WorkersAwake(s) /\ CQAwake(s)
  BY DEF NoLostWakeup, WorkersAwake, CQAwake
<1>2. Init => NoLostWakeup
  BY DEF Init, NoLostWakeup
<1>3. TypeOK /\ NoLostWakeup /\ [FaultyNext]_vars => NoLostWakeup'
  <2> SUFFICES ASSUME TypeOK, NoLostWakeup, [FaultyNext]_vars, NEW t \in Server
               PROVE  WorkersAwake(t)' /\ CQAwake(t)'
    BY DEF NoLostWakeup, WorkersAwake, CQAwake
  <2>1. WorkersAwake(t) /\ CQAwake(t)
    BY <1>1
  <2>2. ASSUME NEW s \in Server, NEW q \in Queries, Send(s, q) \/ CallFails(s, q)
        PROVE  WorkersAwake(t)' /\ CQAwake(t)'
    <3>1. /\ slot' = slot /\ cqState' = cqState
          /\ pc[s][q] \notin {"asleep", "returned", "woken"}
          /\ \E x \in {"calling", "returned"} : pc' = [pc EXCEPT ![s][q] = x]
      BY <2>2 DEF Send, CallFails
    <3>2. \A p \in Queries : \/ pc'[t][p] = pc[t][p]
                             \/ pc'[t][p] \in {"calling", "returned"} /\ pc[t][p] \notin {"returned", "woken"}
      BY <3>1 DEF TypeOK
    <3> QED
      BY <2>1, <3>1, <3>2 DEF WorkersAwake, CQAwake
  <2>3. ASSUME NEW s \in Server, NEW q \in Queries, Sleep(s, q)
        PROVE  WorkersAwake(t)' /\ CQAwake(t)'
    BY <2>1, <2>3 DEF Sleep, WorkersAwake, CQAwake, TypeOK
  <2>4. ASSUME NEW s \in Server, NEW q \in Queries, Take(s, q)
        PROVE  WorkersAwake(t)' /\ CQAwake(t)'
    <3>1. /\ slot' = [slot EXCEPT ![s] = NoMsg] /\ cqState' = NotifyOrderCV(s)
          /\ \E x \in WorkerState : pc' = [pc EXCEPT ![s][q] = x]
      BY <2>4, TakeStep DEF Take, Ends, Continues, WorkerState
    <3> QED
      BY <2>1, <3>1 DEF WorkersAwake, CQAwake, NotifyOrderCV, TypeOK
  <2>5. ASSUME NEW s \in Server, HandOver(s)
        PROVE  WorkersAwake(t)' /\ CQAwake(t)'
    <3>1. /\ slot' = [slot EXCEPT ![s] = cqMsg[s]]
          /\ cqState' = [cqState EXCEPT ![s] = "idle"]
      BY <2>5 DEF HandOver
    <3>2. CQAwake(t)'
      BY <2>1, <3>1 DEF CQAwake, TypeOK
    <3>3. WorkersAwake(t)'
      <4>1. CASE t = s
        <5>1. ASSUME NEW q \in Queries, pc'[s][q] = "asleep"
              PROVE  pc[s][q] = "asleep"
          BY <2>5, <5>1, HandOverPC
        <5>2. (\E q \in Queries : pc[s][q] = "asleep") =>
                \E q \in Queries : pc'[s][q] = "woken"
          BY <2>5, HandOverPC
        <5> QED
          BY <4>1, <5>1, <5>2 DEF WorkersAwake
      <4>2. CASE t # s
        <5>1. slot'[t] = slot[t]
          BY <3>1, <4>2 DEF TypeOK
        <5>2. ASSUME NEW q \in Queries
              PROVE  /\ pc'[t][q] = "asleep" => pc[t][q] = "asleep"
                     /\ pc[t][q] \in {"returned", "woken"} => pc'[t][q] = pc[t][q]
          BY <2>5, <4>2, HandOverPC
        <5> QED
          BY <2>1, <5>1, <5>2 DEF WorkersAwake
      <4> QED
        BY <4>1, <4>2
    <3> QED
      BY <3>2, <3>3
  <2>6. ASSUME NEW s \in Server, Accept(s) \/ Block(s)
        PROVE  WorkersAwake(t)' /\ CQAwake(t)'
    BY <2>1, <2>6 DEF Accept, Block, WorkersAwake, CQAwake, TypeOK
  <2>7. CASE UNCHANGED vars
    BY <2>1, <2>7 DEF vars, WorkersAwake, CQAwake
  <2> QED
    BY <2>2, <2>3, <2>4, <2>5, <2>6, <2>7
       DEF FaultyNext, Next, Worker, CQThread, Answered
<1> QED
  BY <1>2, <1>3, TypeCorrect, PTL DEF FaultySpec

-----------------------------------------------------------------------------
(* Vectors.                                                                *)

\* Vector m of the predecessor of s has been sent.
WasSent(s, m) ==
  \/ m.round < round[Pred(s)][m.query]
  \/ m.round = round[Pred(s)][m.query] /\ pc[Pred(s)][m.query] # "compute"

\* It is used in round r of query q's worker.
UsedAt(s, m, q, r) == got[s][q][r] = m

\* At most one of the places where m can be holds it, and none before it is
\* sent.
Once(s, m) ==
  /\ m \in wire[Pred(s)] =>
       cqMsg[s] # m /\ slot[s] # m /\ \A q \in Queries, r \in Round : ~ UsedAt(s, m, q, r)
  /\ cqMsg[s] = m =>
       slot[s] # m /\ \A q \in Queries, r \in Round : ~ UsedAt(s, m, q, r)
  /\ slot[s] = m => \A q \in Queries, r \in Round : ~ UsedAt(s, m, q, r)
  /\ \A q1, q2 \in Queries, r1, r2 \in Round :
       UsedAt(s, m, q1, r1) /\ UsedAt(s, m, q2, r2) => q1 = q2 /\ r1 = r2

\* m is somewhere.
Somewhere(s, m) ==
  \/ m \in wire[Pred(s)] \/ cqMsg[s] = m \/ slot[s] = m
  \/ \E q \in Queries, r \in Round : UsedAt(s, m, q, r)

\* The CQ thread has a vector exactly while it handles a call, and a worker
\* has used nothing yet in the exchanges it has not finished.
Held(s) ==
  /\ cqState[s] = "idle" <=> cqMsg[s] = NoMsg
  /\ \A q \in Queries, r \in Round :
       r > round[s][q] \/ (r = round[s][q] /\ pc[s][q] # "done") => got[s][q][r] = NoMsg

Delivery(s) ==
  /\ Held(s)
  /\ \A m \in Msg :
       /\ Once(s, m)
       /\ Somewhere(s, m) => WasSent(s, m)
       /\ failures = 0 /\ WasSent(s, m) => Somewhere(s, m)

DeliveryInv == \A s \in Server : Delivery(s)

\* The vector of an exchange that is being computed is nowhere yet.
LEMMA OutgoingFacts ==
  ASSUME TypeOK, NEW s \in Server, NEW q \in Queries
  PROVE  /\ Outgoing(s, q) \in Msg
         /\ Outgoing(s, q).query = q /\ Outgoing(s, q).round = round[s][q]
  BY DEF TypeOK, Outgoing, Msg

\* Send: a vector that was nowhere is on the wire.
LEMMA SendDelivers ==
  ASSUME TypeOK, DeliveryInv, NEW s \in Server, NEW q \in Queries, Send(s, q), NEW t \in Server
  PROVE  Delivery(t)'
<1>1. Delivery(t)
  BY DEF DeliveryInv
<1>2. /\ pc[s][q] = "compute" /\ pc' = [pc EXCEPT ![s][q] = "calling"]
      /\ wire' = [wire EXCEPT ![s] = wire[s] \cup {Outgoing(s, q)}]
      /\ UNCHANGED round /\ UNCHANGED cqState /\ UNCHANGED cqMsg /\ UNCHANGED slot
      /\ UNCHANGED got /\ UNCHANGED failures
  BY DEF Send
<1>3. Held(t)'
  <2>1. \A x \in Queries : pc'[t][x] # "done" => pc[t][x] # "done"
    BY <1>2 DEF TypeOK
  <2> QED
    BY <1>1, <1>2, <2>1 DEF Delivery, Held
<1>4. ASSUME NEW m \in Msg
      PROVE  /\ Once(t, m)'
             /\ Somewhere(t, m)' => WasSent(t, m)'
             /\ failures' = 0 /\ WasSent(t, m)' => Somewhere(t, m)'
  <2>1. /\ Once(t, m) /\ (Somewhere(t, m) => WasSent(t, m))
        /\ (failures = 0 /\ WasSent(t, m) => Somewhere(t, m))
    BY <1>1 DEF Delivery
  <2>2. m.query \in Queries /\ m.round \in Round
    BY DEF Msg
  <2>3. CASE Pred(t) # s \/ m # Outgoing(s, q)
    <3>1. m \in wire'[Pred(t)] <=> m \in wire[Pred(t)]
      BY <1>2, <2>3, PredFacts DEF TypeOK
    <3>2. WasSent(t, m)' <=> WasSent(t, m)
      <4>1. m.query = q /\ m.round = round[s][q] => m = Outgoing(s, q)
        BY DEF Msg, Outgoing
      <4>2. pc'[Pred(t)][m.query] = pc[Pred(t)][m.query] \/ (Pred(t) = s /\ m.query = q)
        BY <1>2, <2>2, PredFacts DEF TypeOK
      <4> QED
        BY <1>2, <2>2, <2>3, <4>1, <4>2 DEF WasSent
    <3> QED
      BY <1>2, <2>1, <3>1, <3>2 DEF Once, Somewhere, UsedAt
  <2>4. CASE Pred(t) = s /\ m = Outgoing(s, q)
    <3>1. ~ WasSent(t, m) /\ WasSent(t, m)'
      <4>1. m.query = q /\ m.round = round[s][q] /\ round[s][q] \in Int
        BY <2>4, OutgoingFacts DEF TypeOK, Round
      <4>2. pc'[s][q] = "calling"
        BY <1>2 DEF TypeOK
      <4> QED
        BY <1>2, <2>4, <4>1, <4>2 DEF WasSent
    <3>2. ~ Somewhere(t, m)
      BY <2>1, <3>1
    <3>3. m \in wire'[Pred(t)]
      BY <1>2, <2>4 DEF TypeOK
    <3> QED
      BY <1>2, <3>1, <3>2, <3>3 DEF Once, Somewhere, UsedAt
  <2> QED
    BY <2>3, <2>4
<1> QED
  BY <1>3, <1>4 DEF Delivery

\* CallFails: the vector may leave the wire.
LEMMA FailureDelivers ==
  ASSUME TypeOK, DeliveryInv, NEW s \in Server, NEW q \in Queries, CallFails(s, q), NEW t \in Server
  PROVE  Delivery(t)'
<1>1. Delivery(t)
  BY DEF DeliveryInv
<1>2. /\ pc[s][q] = "calling" /\ pc' = [pc EXCEPT ![s][q] = "returned"]
      /\ UNCHANGED round /\ UNCHANGED cqState /\ UNCHANGED cqMsg /\ UNCHANGED slot
      /\ UNCHANGED got /\ failures' # 0
  BY DEF CallFails, TypeOK
<1>3. wire'[Pred(t)] \subseteq wire[Pred(t)]
  BY PredFacts DEF CallFails, TypeOK
<1>4. Held(t)'
  <2>1. \A x \in Queries : pc'[t][x] # "done" => pc[t][x] # "done"
    BY <1>2 DEF TypeOK
  <2> QED
    BY <1>1, <1>2, <2>1 DEF Delivery, Held
<1>5. ASSUME NEW m \in Msg
      PROVE  Once(t, m)' /\ (Somewhere(t, m)' => WasSent(t, m)')
  <2>1. Once(t, m) /\ (Somewhere(t, m) => WasSent(t, m))
    BY <1>1 DEF Delivery
  <2>2. WasSent(t, m) => WasSent(t, m)'
    <3>1. m.query \in Queries /\ Pred(t) \in Server
      BY PredFacts DEF Msg
    <3>2. pc[Pred(t)][m.query] # "compute" => pc'[Pred(t)][m.query] # "compute"
      BY <1>2, <3>1 DEF TypeOK
    <3> QED
      BY <1>2, <3>2 DEF WasSent
  <2> QED
    BY <1>2, <1>3, <2>1, <2>2 DEF Once, Somewhere, UsedAt
<1> QED
  BY <1>2, <1>4, <1>5 DEF Delivery

\* Sleep and Block move no vector.
LEMMA WaitDelivers ==
  ASSUME TypeOK, DeliveryInv, NEW s \in Server, NEW t \in Server,
         Block(s) \/ \E q \in Queries : Sleep(s, q)
  PROVE  Delivery(t)'
<1>1. Delivery(t)
  BY DEF DeliveryInv
<1>2. /\ UNCHANGED round /\ UNCHANGED wire /\ UNCHANGED cqMsg /\ UNCHANGED slot
      /\ UNCHANGED got /\ UNCHANGED failures
  BY DEF Block, Sleep
<1>3. cqState'[t] = "idle" <=> cqState[t] = "idle"
  BY DEF Block, Sleep, TypeOK
<1>4. ASSUME NEW u \in Server, NEW x \in Queries
      PROVE  /\ (pc'[u][x] = "done") <=> (pc[u][x] = "done")
             /\ (pc'[u][x] = "compute") <=> (pc[u][x] = "compute")
  <2>1. CASE Block(s)
    BY <2>1 DEF Block
  <2>2. ASSUME NEW q \in Queries, Sleep(s, q)
        PROVE  /\ (pc'[u][x] = "done") <=> (pc[u][x] = "done")
               /\ (pc'[u][x] = "compute") <=> (pc[u][x] = "compute")
    <3>1. /\ pc[s][q] \in {"returned", "woken"}
          /\ pc'[u][x] = IF u = s /\ x = q THEN "asleep" ELSE pc[u][x]
      BY <2>2 DEF Sleep, TypeOK
    <3> QED
      BY <3>1
  <2> QED
    BY <2>1, <2>2
<1>5. Held(t)'
  <2>1. \A x \in Queries : pc'[t][x] # "done" => pc[t][x] # "done"
    BY <1>4
  <2>2. \A x \in Queries : round'[t][x] = round[t][x]
    BY <1>2
  <2>3. /\ (cqState'[t] = "idle") <=> (cqMsg'[t] = NoMsg)
        /\ got' = got
    BY <1>1, <1>2, <1>3 DEF Delivery, Held
  <2> QED
    BY <1>1, <2>1, <2>2, <2>3 DEF Delivery, Held
<1>6. ASSUME NEW m \in Msg
      PROVE  /\ Once(t, m)' <=> Once(t, m)
             /\ Somewhere(t, m)' <=> Somewhere(t, m)
             /\ WasSent(t, m)' <=> WasSent(t, m)
  <2>1. m.query \in Queries /\ Pred(t) \in Server
    BY PredFacts DEF Msg
  <2>2. WasSent(t, m)' <=> WasSent(t, m)
    <3>1. (pc'[Pred(t)][m.query] = "compute") <=> (pc[Pred(t)][m.query] = "compute")
      BY <1>4, <2>1
    <3> QED
      BY <1>2, <3>1 DEF WasSent
  <2>3. Once(t, m)' <=> Once(t, m)
    BY <1>2 DEF Once, UsedAt
  <2>4. Somewhere(t, m)' <=> Somewhere(t, m)
    BY <1>2 DEF Somewhere, UsedAt
  <2> QED
    BY <2>2, <2>3, <2>4
<1> QED
  BY <1>1, <1>2, <1>5, <1>6 DEF Delivery

\* Take: the vector goes from the mailbox to the worker, which has used
\* nothing yet in this exchange.
LEMMA TakeDelivers ==
  ASSUME TypeOK, DeliveryInv, NEW s \in Server, NEW q \in Queries, Take(s, q), NEW t \in Server
  PROVE  Delivery(t)'
<1>1. Delivery(t)
  BY DEF DeliveryInv
<1>2. PICK R \in Round : R = round[s][q]
  BY DEF TypeOK
<1>3. /\ pc[s][q] \in {"returned", "woken"} /\ slot[s] # NoMsg
      /\ got' = [got EXCEPT ![s][q][R] = slot[s]] /\ slot' = [slot EXCEPT ![s] = NoMsg]
      /\ UNCHANGED wire /\ UNCHANGED cqMsg /\ UNCHANGED failures
  BY <1>2 DEF Take
<1>4. cqState'[t] = "idle" <=> cqState[t] = "idle"
  BY DEF Take, NotifyOrderCV, TypeOK
<1>5. \A u \in Server, x \in Queries :
        /\ pc[u][x] = "done" => pc'[u][x] = "done"
        /\ ~ (u = s /\ x = q) => pc'[u][x] = pc[u][x] /\ round'[u][x] = round[u][x]
        /\ \/ round'[s][q] = R /\ pc'[s][q] = "done"
           \/ round'[s][q] = R + 1 /\ pc'[s][q] = "compute"
  <2>1. CASE Ends(s, q)
    BY <1>2, <1>3, <2>1 DEF Ends, TypeOK
  <2>2. CASE Continues(s, q)
    BY <1>2, <1>3, <2>2 DEF Continues, TypeOK
  <2> QED
    BY <2>1, <2>2, TakeStep
<1>6. \A r \in Round : r \in Int
  BY DEF Round
<1>7. \A u \in Server, x \in Queries, r \in Round :
        got'[u][x][r] = IF u = s /\ x = q /\ r = R THEN slot[s] ELSE got[u][x][r]
  BY <1>3 DEF TypeOK
<1>8. Held(t)'
  <2>1. ASSUME NEW x \in Queries, NEW r \in Round,
               r > round'[t][x] \/ (r = round'[t][x] /\ pc'[t][x] # "done")
        PROVE  got'[t][x][r] = NoMsg
    <3>1. CASE t = s /\ x = q
      <4>1. r > R
        BY <1>5, <1>6, <2>1, <3>1
      <4> QED
        BY <1>1, <1>2, <1>6, <1>7, <3>1, <4>1 DEF Delivery, Held
    <3>2. CASE ~ (t = s /\ x = q)
      BY <1>1, <1>5, <1>7, <2>1, <3>2 DEF Delivery, Held
    <3> QED
      BY <3>1, <3>2
  <2> QED
    BY <1>1, <1>3, <1>4, <2>1 DEF Delivery, Held
<1>9. ASSUME NEW m \in Msg
      PROVE  WasSent(t, m)' <=> WasSent(t, m)
  <2>1. m.query \in Queries /\ m.round \in Round /\ Pred(t) \in Server
    BY PredFacts DEF Msg
  <2>2. CASE Pred(t) = s /\ m.query = q
    <3>1. pc[s][q] # "compute"
      BY <1>3
    <3> QED
      BY <1>2, <1>5, <1>6, <2>1, <2>2, <3>1 DEF WasSent
  <2>3. CASE ~ (Pred(t) = s /\ m.query = q)
    BY <1>5, <2>1, <2>3 DEF WasSent
  <2> QED
    BY <2>2, <2>3
<1>10. ASSUME NEW m \in Msg
       PROVE  /\ Once(t, m)'
              /\ Somewhere(t, m)' <=> Somewhere(t, m)
  <2>1. Once(t, m)
    BY <1>1 DEF Delivery
  <2>2. CASE t # s
    <3>1. slot'[t] = slot[t] /\ \A x \in Queries, r \in Round : got'[t][x][r] = got[t][x][r]
      BY <1>3, <1>7, <2>2 DEF TypeOK
    <3> QED
      BY <1>3, <2>1, <3>1 DEF Once, Somewhere, UsedAt
  <2>3. CASE t = s
    <3>1. got[s][q][R] = NoMsg
      BY <1>1, <1>2, <1>3, <2>3 DEF Delivery, Held
    <3>2. slot'[s] = NoMsg /\ m # NoMsg
      BY <1>3, NoMsgAssumption DEF TypeOK
    <3>3. \A x \in Queries, r \in Round :
            UsedAt(s, m, x, r)' <=> UsedAt(s, m, x, r) \/ (x = q /\ r = R /\ slot[s] = m)
      BY <1>7, <3>1, <3>2 DEF UsedAt
    <3> QED
      BY <1>3, <2>1, <2>3, <3>2, <3>3 DEF Once, Somewhere
  <2> QED
    BY <2>2, <2>3
<1> QED
  BY <1>1, <1>3, <1>8, <1>9, <1>10 DEF Delivery

\* Accept: the vector goes from the wire to the CQ thread, which had none.
LEMMA AcceptDelivers ==
  ASSUME TypeOK, DeliveryInv, NEW s \in Server, Accept(s), NEW t \in Server
  PROVE  Delivery(t)'
<1>1. Delivery(t)
  BY DEF DeliveryInv
<1>2. PICK n \in wire[Pred(s)] :
        /\ wire' = [wire EXCEPT ![Pred(s)] = wire[Pred(s)] \ {n}]
        /\ cqMsg' = [cqMsg EXCEPT ![s] = n]
  BY DEF Accept
<1>3. /\ cqState[s] = "idle" /\ cqState' = [cqState EXCEPT ![s] = "fresh"]
      /\ UNCHANGED pc /\ UNCHANGED round /\ UNCHANGED slot /\ UNCHANGED got
      /\ UNCHANGED failures
  BY DEF Accept
<1>4. n \in Msg /\ n # NoMsg /\ Pred(s) \in Server /\ Pred(t) \in Server
  BY <1>2, NoMsgAssumption, PredFacts DEF TypeOK
<1>5. CASE t # s
  <2>1. /\ wire'[Pred(t)] = wire[Pred(t)] /\ cqMsg'[t] = cqMsg[t] /\ cqState'[t] = cqState[t]
    BY <1>2, <1>3, <1>4, <1>5, PredFacts DEF TypeOK
  <2> QED
    BY <1>1, <1>3, <2>1 DEF Delivery, Held, Once, Somewhere, UsedAt, WasSent
<1>6. CASE t = s
  <2>1. /\ wire'[Pred(s)] = wire[Pred(s)] \ {n} /\ cqMsg'[s] = n /\ cqState'[s] = "fresh"
        /\ cqMsg[s] = NoMsg
    BY <1>1, <1>2, <1>3, <1>4, <1>6 DEF Delivery, Held, TypeOK
  <2>2. Held(s)'
    BY <1>1, <1>3, <1>4, <1>6, <2>1 DEF Delivery, Held
  <2>3. ASSUME NEW m \in Msg
        PROVE  /\ Once(s, m)'
               /\ Somewhere(s, m)' <=> Somewhere(s, m)
               /\ WasSent(s, m)' <=> WasSent(s, m)
    <3>1. Once(s, m)
      BY <1>1, <1>6 DEF Delivery
    <3>2. m # NoMsg
      BY NoMsgAssumption
    <3> QED
      BY <1>2, <1>3, <2>1, <3>1, <3>2 DEF Once, Somewhere, UsedAt, WasSent
  <2> QED
    BY <1>1, <1>3, <1>6, <2>2, <2>3 DEF Delivery
<1> QED
  BY <1>5, <1>6

\* HandOver: the vector goes from the CQ thread to an empty mailbox.
LEMMA HandOverDelivers ==
  ASSUME TypeOK, DeliveryInv, NEW s \in Server, HandOver(s), NEW t \in Server
  PROVE  Delivery(t)'
<1>1. Delivery(t)
  BY DEF DeliveryInv
<1>2. /\ cqState[s] \in {"fresh", "woken"} /\ slot[s] = NoMsg
      /\ slot' = [slot EXCEPT ![s] = cqMsg[s]] /\ cqMsg' = [cqMsg EXCEPT ![s] = NoMsg]
      /\ cqState' = [cqState EXCEPT ![s] = "idle"]
      /\ UNCHANGED round /\ UNCHANGED wire /\ UNCHANGED got /\ UNCHANGED failures
  BY DEF HandOver
<1>3. ASSUME NEW u \in Server, NEW x \in Queries
      PROVE  /\ (pc'[u][x] = "done") <=> (pc[u][x] = "done")
             /\ (pc'[u][x] = "compute") <=> (pc[u][x] = "compute")
  BY HandOverPC
<1>4. Held(t)'
  <2>1. (cqState'[t] = "idle") <=> (cqMsg'[t] = NoMsg)
    <3>1. CASE t = s
      BY <1>2, <3>1 DEF TypeOK
    <3>2. CASE t # s
      <4>1. cqState'[t] = cqState[t] /\ cqMsg'[t] = cqMsg[t]
        BY <1>2, <3>2 DEF TypeOK
      <4> QED
        BY <1>1, <4>1 DEF Delivery, Held
    <3> QED
      BY <3>1, <3>2
  <2>2. \A x \in Queries : pc'[t][x] # "done" => pc[t][x] # "done"
    BY <1>3
  <2>3. got' = got /\ \A x \in Queries : round'[t][x] = round[t][x]
    BY <1>2
  <2> QED
    BY <1>1, <2>1, <2>2, <2>3 DEF Delivery, Held
<1>5. ASSUME NEW m \in Msg
      PROVE  /\ Once(t, m)'
             /\ Somewhere(t, m)' <=> Somewhere(t, m)
             /\ WasSent(t, m)' <=> WasSent(t, m)
  <2>1. Once(t, m) /\ m # NoMsg
    BY <1>1, NoMsgAssumption DEF Delivery
  <2>2. WasSent(t, m)' <=> WasSent(t, m)
    <3>1. m.query \in Queries /\ Pred(t) \in Server
      BY PredFacts DEF Msg
    <3>2. (pc'[Pred(t)][m.query] = "compute") <=> (pc[Pred(t)][m.query] = "compute")
      BY <1>3, <3>1
    <3> QED
      BY <1>2, <3>2 DEF WasSent
  <2>3. CASE t # s
    <3>1. slot'[t] = slot[t] /\ cqMsg'[t] = cqMsg[t]
      BY <1>2, <2>3 DEF TypeOK
    <3> QED
      BY <1>2, <2>1, <2>2, <3>1 DEF Once, Somewhere, UsedAt
  <2>4. CASE t = s
    <3>1. slot'[s] = cqMsg[s] /\ cqMsg'[s] = NoMsg
      BY <1>2 DEF TypeOK
    <3> QED
      BY <1>2, <2>1, <2>2, <2>4, <3>1 DEF Once, Somewhere, UsedAt
  <2> QED
    BY <2>3, <2>4
<1> QED
  BY <1>1, <1>2, <1>4, <1>5 DEF Delivery

\* Every step delivers.
LEMMA DeliveryCorrect == FaultySpec => []DeliveryInv
<1>1. Init => DeliveryInv
  <2> SUFFICES ASSUME Init, NEW s \in Server
               PROVE  Delivery(s)
    BY DEF DeliveryInv
  <2>1. Held(s)
    BY DEF Init, Held
  <2>2. ASSUME NEW m \in Msg
        PROVE  Once(s, m) /\ ~ Somewhere(s, m) /\ ~ WasSent(s, m)
    <3>1. /\ m # NoMsg /\ Pred(s) \in Server /\ m.query \in Queries
          /\ m.round \in Int /\ m.round >= 1
      BY NoMsgAssumption, PredFacts DEF Msg, Round
    <3> QED
      BY <3>1 DEF Init, Once, Somewhere, UsedAt, WasSent
  <2> QED
    BY <2>1, <2>2 DEF Delivery
<1>2. TypeOK /\ DeliveryInv /\ [FaultyNext]_vars => DeliveryInv'
  <2> SUFFICES ASSUME TypeOK, DeliveryInv, [FaultyNext]_vars, NEW t \in Server
               PROVE  Delivery(t)'
    BY DEF DeliveryInv
  <2>1. ASSUME NEW s \in Server, CQThread(s) \/ \E q \in Queries : Worker(s, q) \/ CallFails(s, q)
        PROVE  Delivery(t)'
    BY <2>1, SendDelivers, FailureDelivers, WaitDelivers, TakeDelivers, AcceptDelivers,
       HandOverDelivers
       DEF CQThread, Worker
  <2>2. CASE UNCHANGED vars
    BY <2>2 DEF vars, DeliveryInv, Delivery, Held, Once, Somewhere, UsedAt, WasSent
  <2> QED
    BY <2>1, <2>2 DEF FaultyNext, Next, Answered
<1> QED
  BY <1>1, <1>2, TypeCorrect, PTL DEF FaultySpec

\* A set whose elements are all the same has at most one.
LEMMA AtMostOne ==
  ASSUME NEW S, \A x, y \in S : x = y
  PROVE  Cardinality(S) <= 1
<1>1. CASE S = {}
  BY <1>1, FS_EmptySet
<1>2. CASE S # {}
  <2>1. PICK x : S = {x}
    BY <1>2
  <2> QED
    BY <2>1, FS_Singleton
<1> QED
  BY <1>1, <1>2

\* Where a vector is, said with Places.
LEMMA PlacesFacts ==
  ASSUME NEW s \in Server, NEW m \in Msg, NEW x
  PROVE  x \in Places(s, m) <=>
           \/ x = <<"wire">> /\ m \in wire[Pred(s)]
           \/ x = <<"cq">> /\ cqMsg[s] = m
           \/ x = <<"slot">> /\ slot[s] = m
           \/ \E q \in Queries, r \in Round : x = <<"used", q, r>> /\ UsedAt(s, m, q, r)
<1>1. x \in {<<"wire">> : y \in wire[Pred(s)] \cap {m}} <=>
        x = <<"wire">> /\ m \in wire[Pred(s)]
  OBVIOUS
<1>2. x \in {<<"cq">> : y \in {cqMsg[s]} \cap {m}} <=> x = <<"cq">> /\ cqMsg[s] = m
  OBVIOUS
<1>3. x \in {<<"slot">> : y \in {slot[s]} \cap {m}} <=> x = <<"slot">> /\ slot[s] = m
  OBVIOUS
<1>4. x \in {<<"used", z[1], z[2]>> :
               z \in {y \in Queries \X Round : got[s][y[1]][y[2]] = m}} <=>
        \E q \in Queries, r \in Round : x = <<"used", q, r>> /\ UsedAt(s, m, q, r)
  <2>1. ASSUME NEW z \in {y \in Queries \X Round : got[s][y[1]][y[2]] = m},
               x = <<"used", z[1], z[2]>>
        PROVE  \E q \in Queries, r \in Round : x = <<"used", q, r>> /\ UsedAt(s, m, q, r)
    BY <2>1 DEF UsedAt
  <2>2. ASSUME NEW q \in Queries, NEW r \in Round, x = <<"used", q, r>>, UsedAt(s, m, q, r)
        PROVE  x \in {<<"used", z[1], z[2]>> :
                        z \in {y \in Queries \X Round : got[s][y[1]][y[2]] = m}}
    <3>1. PICK z : z = <<q, r>>
      OBVIOUS
    <3>2. z \in {y \in Queries \X Round : got[s][y[1]][y[2]] = m}
      BY <2>2, <3>1 DEF UsedAt
    <3> QED
      BY <2>2, <3>1, <3>2
  <2> QED
    BY <2>1, <2>2
<1> QED
  BY <1>1, <1>2, <1>3, <1>4 DEF Places

\* No vector is used twice, or used and still to be had, for any number of
\* queries and failed calls.
THEOREM NeverDuplicated == FaultySpec => []NoDuplicate
<1>1. DeliveryInv => NoDuplicate
  <2> SUFFICES ASSUME DeliveryInv, NEW s \in Server, NEW m \in Msg
               PROVE  Cardinality(Places(s, m)) <= 1
    BY DEF NoDuplicate
  <2>1. Once(s, m)
    BY DEF DeliveryInv, Delivery
  <2>2. \A x, y \in Places(s, m) : x = y
    BY <2>1, PlacesFacts DEF Once
  <2> QED
    BY <2>2, AtMostOne
<1> QED
  BY <1>1, DeliveryCorrect, PTL

\* While no call fails every vector that was sent is somewhere, and no other.
THEOREM AllConserved == FaultySpec => []Conservation
<1>1. DeliveryInv => Conservation
  <2> SUFFICES ASSUME DeliveryInv, failures = 0, NEW s \in Server, NEW m \in Msg
               PROVE  (Places(s, m) # {}) <=> WasSent(s, m)
    BY DEF Conservation, WasSent
  <2>1. Somewhere(s, m) <=> WasSent(s, m)
    BY DEF DeliveryInv, Delivery
  <2>2. (Places(s, m) # {}) <=> Somewhere(s, m)
    BY PlacesFacts DEF Somewhere
  <2> QED
    BY <2>1, <2>2
<1> QED
  BY <1>1, DeliveryCorrect, PTL

-----------------------------------------------------------------------------
(* A client's queries.                                                     *)

\* NUM_SERVERS.
ThreeServers == NumServers = 3

-----------------------------------------------------------------------------
(* The invariant.                                                          *)

\* Vector m waits at server s, or for it.
Transit(s, m) == m \in wire[Pred(s)] \/ cqMsg[s] = m \/ slot[s] = m

\* The call of query q to server s is waiting while its handler runs, and its
\* status tells where the handler ended; a lost call says nothing.
CallOf(s, q) ==
  /\ handler[s][q] = "none" =>
       pc[s][q] = "compute" /\ round[s][q] = 1 /\ reply[s][q] = "waiting"
  /\ handler[s][q] = "over" => pc[s][q] \in {"compute", "done"}
  /\ <<s, q>> \notin lost =>
       /\ (reply[s][q] = "waiting") <=> (handler[s][q] # "over")
       /\ reply[s][q] = "ok" => pc[s][q] = "done"
       /\ reply[s][q] = "error" => Stops(s, q)

\* A query is asked at all servers, and returned when they all have replied.
QueryOf(q) ==
  /\ Asked(q) => \A s \in Server : handler[s][q] # "none"
  /\ Returned(q) =>
       /\ Asked(q)
       /\ \A s \in Server : reply[s][q] # "waiting"
       /\ result[q] = {s \in Server : reply[s][q] = "ok"}

\* A handler has used one vector, of its own query, in every exchange that it
\* has finished.
Uses(s, q) ==
  /\ pc[s][q] = "done" => round[s][q] = Rounds
  /\ \A r \in Round : r < round[s][q] \/ pc[s][q] = "done" => got[s][q][r] # NoMsg
  /\ \A r \in Round : got[s][q][r] # NoMsg => got[s][q][r].query = q

\* Nothing of query p goes on.
Settled(p) ==
  \A s \in Server : /\ handler[s][p] = "over"
                    /\ \A m \in Msg : m.query = p => ~ Transit(s, m)

\* When a query is asked, those before are settled, for good.
InOrder(p, q) == p < q /\ Asked(q) => Returned(p) /\ Settled(p)

ClientInv ==
  /\ LifecycleTypeOK
  /\ \A q \in Queries :
       /\ QueryOf(q)
       /\ \A s \in Server : CallOf(s, q) /\ Uses(s, q)
       /\ \A p \in Queries : InOrder(p, q)

-----------------------------------------------------------------------------
(* Counting vectors.                                                       *)

\* A handler that has used K of the first K vectors of its query has used
\* them all.
LEMMA AllUsed ==
  ASSUME TypeOK, DeliveryInv, NEW s \in Server, NEW q \in Queries, Uses(s, q),
         NEW K \in Nat, K <= Rounds,
         \A r \in 1 .. K : got[s][q][r] # NoMsg,
         \A m \in Msg : m.query = q /\ WasSent(s, m) => m.round <= K,
         NEW m \in Msg, m.query = q, m.round <= K
  PROVE  Somewhere(s, m) /\ ~ Transit(s, m)
<1>1. \A r \in 1 .. K : r \in Round
  BY RoundsAssumption DEF Round
<1>2. ASSUME NEW r \in 1 .. K
      PROVE  /\ got[s][q][r] \in Msg /\ got[s][q][r].query = q
             /\ got[s][q][r].round \in 1 .. K
  <2>1. got[s][q][r] \in Msg /\ got[s][q][r].query = q
    BY <1>1 DEF TypeOK, Uses
  <2>2. PICK n \in Msg : n = got[s][q][r]
    BY <2>1
  <2>3. WasSent(s, n)
    BY <1>1, <2>2 DEF DeliveryInv, Delivery, Somewhere, UsedAt
  <2>4. n.round <= K /\ n.round \in Round
    BY <2>1, <2>2, <2>3 DEF Msg
  <2> QED
    BY <2>1, <2>2, <2>4, RoundsAssumption DEF Round
<1>3. PICK f : f = [r \in 1 .. K |-> got[s][q][r].round]
  OBVIOUS
<1>4. f \in [1 .. K -> 1 .. K]
  BY <1>2, <1>3
<1>5. ASSUME NEW i \in 1 .. K, NEW j \in 1 .. K, f[i] = f[j]
      PROVE  i = j
  <2>1. PICK n \in Msg : n = got[s][q][i]
    BY <1>2
  <2>2. PICK o \in Msg : o = got[s][q][j]
    BY <1>2
  <2>3. n.query = o.query /\ n.round = o.round
    BY <1>2, <1>3, <1>5, <2>1, <2>2
  <2>4. n = o
    BY <2>3 DEF Msg
  <2>5. Once(s, n)
    BY DEF DeliveryInv, Delivery
  <2>6. \A k, l \in Round : got[s][q][k] = n /\ got[s][q][l] = n => k = l
    BY <2>5 DEF Once, UsedAt
  <2> QED
    BY <1>1, <2>1, <2>2, <2>4, <2>6
<1>6. m.round \in 1 .. K
  BY RoundsAssumption DEF Msg, Round
<1>7. \E i \in 1 .. K : f[i] = m.round
  <2>1. IsFiniteSet(1 .. K)
    BY FS_Interval
  <2>2. f \in Injection(1 .. K, 1 .. K)
    BY <1>4, <1>5 DEF Injection, IsInjective
  <2>3. f \in Surjection(1 .. K, 1 .. K)
    BY <2>1, <2>2, FS_Injection
  <2> QED
    BY <1>6, <2>3 DEF Surjection
<1>8. PICK i \in 1 .. K : got[s][q][i].round = m.round
  BY <1>3, <1>7
<1>9. got[s][q][i] = m
  BY <1>2, <1>8 DEF Msg
<1> QED
  BY <1>1, <1>9 DEF DeliveryInv, Delivery, Once, Somewhere, UsedAt, Transit

\* A handler that answers has used its predecessor's last vector, so that its
\* predecessor did not stop.
LEMMA PredAnswers ==
  ASSUME TypeOK, DeliveryInv, ClientInv, NEW s \in Server, NEW q \in Queries,
         Returned(q), \A t \in Server : <<t, q>> \notin lost, reply[s][q] = "ok"
  PROVE  reply[Pred(s)][q] = "ok"
<1>1. Pred(s) \in Server
  BY PredFacts
<1>2. pc[s][q] = "done" /\ Uses(s, q)
  BY DEF ClientInv, CallOf
<1>3. Rounds \in Nat /\ Rounds \in Round
  BY RoundsAssumption DEF Round
<1>4. \A r \in 1 .. Rounds : got[s][q][r] # NoMsg
  BY <1>2 DEF Uses, Round
<1>5. \A m \in Msg : m.round <= Rounds
  BY <1>3 DEF Msg, Round
<1>6. PICK m \in Msg : m = [query |-> q, round |-> Rounds]
  BY <1>3 DEF Msg
<1>7. Somewhere(s, m)
  BY <1>2, <1>3, <1>4, <1>5, <1>6, AllUsed
<1>8. WasSent(s, m)
  BY <1>7 DEF DeliveryInv, Delivery
<1>9. round[Pred(s)][q] \in Int /\ round[Pred(s)][q] <= Rounds
  BY <1>1, <1>3 DEF TypeOK, Round
<1>10. pc[Pred(s)][q] # "compute"
  BY <1>3, <1>6, <1>8, <1>9 DEF WasSent
<1>11. reply[Pred(s)][q] # "error"
  BY <1>1, <1>10 DEF ClientInv, CallOf, Stops
<1>12. reply[Pred(s)][q] # "waiting"
  BY <1>1 DEF ClientInv, QueryOf
<1> QED
  BY <1>1, <1>11, <1>12 DEF ClientInv, LifecycleTypeOK, ReplyState

\* Around a ring of three: one answer is all answers.
LEMMA AllOrNone ==
  ASSUME ThreeServers, TypeOK, DeliveryInv, ClientInv, NEW q \in Queries,
         Returned(q), \A t \in Server : <<t, q>> \notin lost
  PROVE  \/ \A s \in Server : reply[s][q] = "ok"
         \/ \A s \in Server : reply[s][q] = "error"
<1>1. ASSUME NEW s \in Server, reply[s][q] = "ok"
      PROVE  \A t \in Server : reply[t][q] = "ok"
  <2>1. reply[Pred(s)][q] = "ok" /\ Pred(s) \in Server
    BY <1>1, PredAnswers, PredFacts
  <2>2. reply[Pred(Pred(s))][q] = "ok"
    BY <2>1, PredAnswers
  <2>3. \A t \in Server : t \in {s, Pred(s), Pred(Pred(s))}
    BY DEF ThreeServers, Server, Pred
  <2> QED
    BY <1>1, <2>1, <2>2, <2>3
<1>2. \A s \in Server : reply[s][q] \in {"ok", "error"}
  BY DEF ClientInv, QueryOf, LifecycleTypeOK, ReplyState
<1> QED
  BY <1>1, <1>2

\* A query that returned without a fault leaves nothing behind: all handlers
\* ended at the same place, and each has used what its predecessor sent.
LEMMA ReturnedSettled ==
  ASSUME ThreeServers, TypeOK, DeliveryInv, ClientInv, NoFault, NEW q \in Queries,
         Returned(q)
  PROVE  Settled(q)
<1>1. \A s \in Server : <<s, q>> \notin lost
  BY DEF NoFault
<1>2. \A s \in Server : handler[s][q] = "over"
  <2>1. \A s \in Server : reply[s][q] # "waiting"
    BY DEF ClientInv, QueryOf
  <2>2. \A s \in Server : CallOf(s, q)
    BY DEF ClientInv
  <2> QED
    BY <1>1, <2>1, <2>2 DEF CallOf
<1>3. ASSUME NEW K \in Nat, K <= Rounds,
             \A s \in Server : /\ \A r \in 1 .. K : got[s][q][r] # NoMsg
                               /\ \A m \in Msg : m.query = q /\ WasSent(s, m) => m.round <= K
      PROVE  Settled(q)
  <2> SUFFICES ASSUME NEW s \in Server, NEW m \in Msg, m.query = q, Transit(s, m)
               PROVE  FALSE
    BY <1>2 DEF Settled
  <2>1. WasSent(s, m)
    BY DEF DeliveryInv, Delivery, Somewhere, Transit
  <2>2. m.round <= K
    BY <1>3, <2>1
  <2>3. Uses(s, q)
    BY DEF ClientInv
  <2>4. ~ Transit(s, m)
    BY <1>3, <2>2, <2>3, AllUsed
  <2> QED
    BY <2>4
<1>4. CASE \A s \in Server : reply[s][q] = "ok"
  <2>1. Rounds \in Nat /\ \A m \in Msg : m.round <= Rounds
    BY RoundsAssumption DEF Msg, Round
  <2>2. \A s \in Server : \A r \in 1 .. Rounds : got[s][q][r] # NoMsg
    BY <1>1, <1>4 DEF ClientInv, CallOf, Uses, Round
  <2> QED
    BY <1>3, <2>1, <2>2
<1>5. CASE \A s \in Server : reply[s][q] = "error"
  <2>1. \A s \in Server : pc[s][q] = "compute" /\ round[s][q] = refusal[q].round
    BY <1>1, <1>5 DEF ClientInv, CallOf, Stops, Refuses
  <2>2. 0 \in Server
    BY RingAssumption DEF Server
  <2>3. PICK R \in Round : R = refusal[q].round
    BY <2>1, <2>2 DEF TypeOK
  <2>4. R - 1 \in Nat /\ R - 1 <= Rounds /\ R \in Int /\ \A r \in 1 .. R - 1 : r \in Round /\ r < R
    BY RoundsAssumption DEF Round
  <2>5. ASSUME NEW s \in Server
        PROVE  /\ \A r \in 1 .. R - 1 : got[s][q][r] # NoMsg
               /\ \A m \in Msg : m.query = q /\ WasSent(s, m) => m.round <= R - 1
    <3>1. \A r \in 1 .. R - 1 : got[s][q][r] # NoMsg
      BY <2>1, <2>3, <2>4 DEF ClientInv, Uses
    <3>2. \A m \in Msg : m.round \in Int
      BY DEF Msg, Round
    <3> QED
      BY <2>1, <2>3, <2>4, <3>1, <3>2, PredFacts DEF WasSent
  <2> QED
    BY <1>3, <2>4, <2>5
<1> QED
  BY <1>1, <1>4, <1>5, AllOrNone

\* Whatever is in transit was sent for a query that is asked.
LEMMA TransitAsked ==
  ASSUME TypeOK, DeliveryInv, ClientInv, NEW s \in Server, NEW m \in Msg, Transit(s, m)
  PROVE  m.query \in Queries /\ Asked(m.query)
<1>1. m.query \in Queries /\ m.round \in Int /\ m.round >= 1 /\ Pred(s) \in Server
  BY PredFacts DEF Msg, Round
<1>2. WasSent(s, m)
  BY DEF DeliveryInv, Delivery, Somewhere, Transit
<1>3. handler[Pred(s)][m.query] # "none"
  <2>1. CallOf(Pred(s), m.query)
    BY <1>1 DEF ClientInv
  <2>2. ~ (pc[Pred(s)][m.query] = "compute" /\ round[Pred(s)][m.query] = 1)
    BY <1>1, <1>2 DEF WasSent
  <2> QED
    BY <2>1, <2>2 DEF CallOf
<1> QED
  BY <1>1, <1>3 DEF Asked

\* The vector that a running handler finds in its mailbox is of its own query.
LEMMA OwnVector ==
  ASSUME TypeOK, DeliveryInv, ClientInv, NEW s \in Server, NEW q \in Queries,
         handler[s][q] = "running", slot[s] # NoMsg
  PROVE  slot[s] \in Msg /\ slot[s].query = q
<1>1. PICK m \in Msg : m = slot[s]
  BY DEF TypeOK
<1>2. Transit(s, m)
  BY <1>1 DEF Transit
<1>3. m.query \in Queries /\ Asked(m.query) /\ Asked(q)
  BY <1>2, TransitAsked DEF Asked
<1>4. ~ (m.query < q)
  BY <1>2, <1>3 DEF ClientInv, InOrder, Settled
<1>5. ~ (q < m.query)
  BY <1>2, <1>3 DEF ClientInv, InOrder, Settled
<1>6. q \in Nat /\ m.query \in Nat
  BY <1>3, LifecycleAssumption
<1> QED
  BY <1>1, <1>4, <1>5, <1>6

-----------------------------------------------------------------------------
(* Steps of the exchange.                                                  *)

\* A step of the share exchange that is one of a query, and moves nothing of
\* the client.
RingStep ==
  /\ UNCHANGED client
  /\ \/ \E s \in Server, q \in Queries : Exchange(s, q) \/ SendMultFails(s, q)
     \/ \E s \in Server : Deliver(s)

\* A worker whose handler is over or refuses, or was not started, stays put.
LEMMA Rest ==
  ASSUME TypeOK, RingStep, NEW u \in Server, NEW x \in Queries,
         pc[u][x] \in {"compute", "done"}, handler[u][x] # "running" \/ Stops(u, x)
  PROVE  pc'[u][x] = pc[u][x] /\ round'[u][x] = round[u][x] /\ got'[u][x] = got[u][x]
<1>1. ASSUME NEW s \in Server, NEW q \in Queries, Exchange(s, q)
      PROVE  pc'[u][x] = pc[u][x] /\ round'[u][x] = round[u][x] /\ got'[u][x] = got[u][x]
  <2>1. ~ (u = s /\ x = q)
    BY <1>1 DEF Exchange
  <2>2. CASE Send(s, q) \/ Sleep(s, q)
    BY <2>1, <2>2 DEF Send, Sleep, TypeOK
  <2>3. CASE Take(s, q)
    <3>1. got'[u][x] = got[u][x]
      BY <2>1, <2>3 DEF Take, TypeOK
    <3>2. pc'[u][x] = pc[u][x] /\ round'[u][x] = round[u][x]
      BY SMTT(30), <2>1, <2>3, TakeStep DEF Ends, Continues, TypeOK
    <3> QED
      BY <3>1, <3>2
  <2> QED
    BY <1>1, <2>2, <2>3 DEF Exchange, Worker
<1>2. ASSUME NEW s \in Server, NEW q \in Queries, SendMultFails(s, q)
      PROVE  pc'[u][x] = pc[u][x] /\ round'[u][x] = round[u][x] /\ got'[u][x] = got[u][x]
  BY <1>2 DEF SendMultFails, CallFails, TypeOK
<1>3. ASSUME NEW s \in Server, Deliver(s)
      PROVE  pc'[u][x] = pc[u][x] /\ round'[u][x] = round[u][x] /\ got'[u][x] = got[u][x]
  <2>1. CASE Accept(s) \/ Block(s)
    BY <2>1 DEF Accept, Block
  <2>2. CASE HandOver(s)
    <3>1. pc'[u][x] = pc[u][x]
      BY <2>2, HandOverPC
    <3> QED
      BY <2>2, <3>1 DEF HandOver
  <2> QED
    BY <1>3, <2>1, <2>2 DEF Deliver, CQThread
<1> QED
  BY <1>1, <1>2, <1>3 DEF RingStep

\* Calls and queries.
LEMMA RingCalls ==
  ASSUME TypeOK, ClientInv, RingStep, NEW q \in Queries
  PROVE  QueryOf(q)' /\ \A s \in Server : CallOf(s, q)'
<1>1. handler' = handler /\ reply' = reply /\ refusal' = refusal /\ result' = result /\ lost' = lost
  BY DEF RingStep, client
<1>2. QueryOf(q)'
  <2>1. QueryOf(q)
    BY DEF ClientInv
  <2> QED
    BY <1>1, <2>1 DEF QueryOf, Asked, Returned
<1>3. ASSUME NEW s \in Server
      PROVE  CallOf(s, q)'
  <2>1. CallOf(s, q)
    BY DEF ClientInv
  <2>2. CASE pc[s][q] \in {"compute", "done"} /\ (handler[s][q] # "running" \/ Stops(s, q))
    <3>1. pc'[s][q] = pc[s][q] /\ round'[s][q] = round[s][q]
      BY <2>2, Rest
    <3>2. Stops(s, q)' <=> Stops(s, q)
      BY <1>1, <3>1 DEF Stops, Refuses
    <3> QED
      BY <1>1, <2>1, <3>1, <3>2 DEF CallOf
  <2>3. CASE ~ (pc[s][q] \in {"compute", "done"} /\ (handler[s][q] # "running" \/ Stops(s, q)))
    <3>1. handler[s][q] # "none" /\ handler[s][q] # "over"
      BY <2>1, <2>3 DEF CallOf
    <3>2. <<s, q>> \notin lost => reply[s][q] = "waiting"
      BY <2>1, <3>1 DEF CallOf
    <3> QED
      BY <1>1, <3>1, <3>2 DEF CallOf
  <2> QED
    BY <2>2, <2>3
<1> QED
  BY <1>2, <1>3

\* Vectors used.
LEMMA RingUses ==
  ASSUME TypeOK, DeliveryInv, ClientInv, RingStep, NEW u \in Server, NEW x \in Queries
  PROVE  Uses(u, x)'
<1>1. Uses(u, x)
  BY DEF ClientInv
<1>2. ASSUME NEW s \in Server, NEW q \in Queries, handler[s][q] = "running", Take(s, q)
      PROVE  Uses(u, x)'
  <2>1. PICK R \in Round : R = round[s][q]
    BY DEF TypeOK
  <2>2. \A r \in Round : r \in Int /\ r <= Rounds
    BY RoundsAssumption DEF Round
  <2>3. \A r \in Round :
          got'[u][x][r] = IF u = s /\ x = q /\ r = R THEN slot[s] ELSE got[u][x][r]
    BY <1>2, <2>1 DEF Take, TypeOK
  <2>4. CASE u = s /\ x = q
    <3>1. slot[s] # NoMsg /\ slot[s].query = q /\ pc[s][q] \in {"returned", "woken"}
      BY <1>2, OwnVector DEF Take
    <3>2. \/ pc'[s][q] = "done" /\ R = Rounds /\ round'[s][q] = R
          \/ pc'[s][q] = "compute" /\ round'[s][q] = R + 1
      BY <1>2, <2>1, TakeStep DEF Ends, Continues, TypeOK
    <3>3. ASSUME NEW r \in Round, r < round'[s][q] \/ pc'[s][q] = "done"
          PROVE  r < R \/ r = R
      BY <2>2, <3>2, <3>3, <2>1
    <3>4. \A r \in Round : r < round'[u][x] \/ pc'[u][x] = "done" => got'[u][x][r] # NoMsg
      BY <1>1, <2>1, <2>3, <2>4, <3>1, <3>3 DEF Uses
    <3>5. \A r \in Round : got'[u][x][r] # NoMsg => got'[u][x][r].query = x
      BY <1>1, <2>3, <2>4, <3>1 DEF Uses
    <3>6. pc'[u][x] = "done" => round'[u][x] = Rounds
      BY <2>4, <3>2
    <3> QED
      BY <3>4, <3>5, <3>6 DEF Uses
  <2>5. CASE ~ (u = s /\ x = q)
    <3>1. pc'[u][x] = pc[u][x] /\ round'[u][x] = round[u][x]
      BY <1>2, <2>5, TakeStep DEF Ends, Continues, TypeOK
    <3>2. \A r \in Round : got'[u][x][r] = got[u][x][r]
      BY <2>3, <2>5
    <3> QED
      BY <1>1, <3>1, <3>2 DEF Uses
  <2> QED
    BY <2>4, <2>5
<1>3. ASSUME got' = got, round' = round, pc'[u][x] = "done" => pc[u][x] = "done"
      PROVE  Uses(u, x)'
  BY <1>1, <1>3 DEF Uses
<1>4. ASSUME NEW s \in Server, NEW q \in Queries, Send(s, q) \/ Sleep(s, q) \/ CallFails(s, q)
      PROVE  Uses(u, x)'
  <2>1. got' = got /\ round' = round
    BY <1>4 DEF Send, Sleep, CallFails
  <2>2. pc'[u][x] = "done" => pc[u][x] = "done"
    <3>1. \E y \in {"calling", "asleep", "returned"} : pc' = [pc EXCEPT ![s][q] = y]
      BY <1>4 DEF Send, Sleep, CallFails
    <3> QED
      BY <3>1 DEF TypeOK
  <2> QED
    BY <1>3, <2>1, <2>2
<1>5. ASSUME NEW s \in Server, CQThread(s)
      PROVE  Uses(u, x)'
  <2>1. got' = got /\ round' = round
    BY <1>5 DEF CQThread, Accept, HandOver, Block
  <2>2. CASE HandOver(s)
    <3>1. pc'[u][x] = "done" => pc[u][x] = "done"
      BY <2>2, HandOverPC
    <3> QED
      BY <1>3, <2>1, <3>1
  <2>3. CASE Accept(s) \/ Block(s)
    <3>1. pc' = pc
      BY <2>3 DEF Accept, Block
    <3> QED
      BY <1>3, <2>1, <3>1
  <2> QED
    BY <1>5, <2>2, <2>3 DEF CQThread
<1> QED
  BY <1>2, <1>4, <1>5 DEF RingStep, Exchange, SendMultFails, Deliver, Worker

\* A vector comes into transit only when its handler sends it.
LEMMA RingTransit ==
  ASSUME TypeOK, RingStep, NEW t \in Server, NEW m \in Msg, Transit(t, m)'
  PROVE  Transit(t, m) \/ handler[Pred(t)][m.query] = "running"
<1>1. Pred(t) \in Server /\ m # NoMsg
  BY PredFacts, NoMsgAssumption
<1>2. ASSUME NEW s \in Server, NEW q \in Queries, handler[s][q] = "running", Send(s, q)
      PROVE  Transit(t, m) \/ handler[Pred(t)][m.query] = "running"
  <2>1. cqMsg' = cqMsg /\ slot' = slot
        /\ wire'[Pred(t)] \subseteq wire[Pred(t)] \cup IF Pred(t) = s THEN {Outgoing(s, q)} ELSE {}
    BY <1>1, <1>2 DEF Send, TypeOK
  <2>2. Outgoing(s, q).query = q
    BY DEF Outgoing
  <2> QED
    BY <1>2, <2>1, <2>2 DEF Transit
<1>3. ASSUME NEW s \in Server, NEW q \in Queries, Sleep(s, q) \/ Take(s, q) \/ CallFails(s, q)
      PROVE  Transit(t, m)
  <2>1. /\ cqMsg' = cqMsg /\ slot'[t] \in {slot[t], NoMsg}
        /\ wire'[Pred(t)] \subseteq wire[Pred(t)]
    BY <1>1, <1>3 DEF Sleep, Take, CallFails, TypeOK
  <2> QED
    BY <1>1, <2>1 DEF Transit
<1>4. ASSUME NEW s \in Server, Accept(s)
      PROVE  Transit(t, m)
  <2>1. PICK n \in wire[Pred(s)] :
          /\ wire' = [wire EXCEPT ![Pred(s)] = wire[Pred(s)] \ {n}]
          /\ cqMsg' = [cqMsg EXCEPT ![s] = n]
    BY <1>4 DEF Accept
  <2>2. wire'[Pred(t)] \subseteq wire[Pred(t)] /\ slot' = slot
    BY <1>1, <1>4, <2>1 DEF Accept, TypeOK
  <2>3. cqMsg'[t] = cqMsg[t] \/ cqMsg'[t] \in wire[Pred(t)]
    BY <2>1 DEF TypeOK
  <2> QED
    BY <2>2, <2>3 DEF Transit
<1>5. ASSUME NEW s \in Server, HandOver(s)
      PROVE  Transit(t, m)
  <2>1. /\ wire' = wire /\ cqMsg'[t] \in {cqMsg[t], NoMsg} /\ slot'[t] \in {slot[t], cqMsg[t]}
    BY <1>5 DEF HandOver, TypeOK
  <2> QED
    BY <1>1, <2>1 DEF Transit
<1>6. ASSUME NEW s \in Server, Block(s)
      PROVE  Transit(t, m)
  BY <1>6 DEF Block, Transit
<1> QED
  BY <1>2, <1>3, <1>4, <1>5, <1>6
     DEF RingStep, Exchange, SendMultFails, Deliver, Worker, CQThread

\* Settled queries stay settled.
LEMMA RingOrder ==
  ASSUME TypeOK, ClientInv, RingStep, NEW p \in Queries, NEW q \in Queries
  PROVE  InOrder(p, q)'
<1>1. handler' = handler /\ reply' = reply /\ result' = result
  BY DEF RingStep, client
<1>2. Settled(p) => Settled(p)'
  <2> SUFFICES ASSUME Settled(p), NEW t \in Server
               PROVE  handler'[t][p] = "over"
                      /\ \A m \in Msg : m.query = p => ~ Transit(t, m)'
    BY DEF Settled
  <2>1. \A m \in Msg : m.query = p => ~ Transit(t, m)'
    BY RingTransit, PredFacts DEF Settled
  <2> QED
    BY <1>1, <2>1 DEF Settled
<1>3. InOrder(p, q)
  BY DEF ClientInv
<1> QED
  BY <1>1, <1>2, <1>3 DEF InOrder, Asked, Returned

-----------------------------------------------------------------------------
(* Steps of the client, and of the handlers without an exchange.           *)

\* The exchange stands still.
LEMMA RingStill ==
  ASSUME ClientInv, UNCHANGED ring, NEW s \in Server, NEW q \in Queries
  PROVE  Uses(s, q)'
  BY DEF ClientInv, Uses, ring, vars

\* Asking a query settles those before it.
LEMMA AskSafe ==
  ASSUME ThreeServers, TypeOK, DeliveryInv, ClientInv, NEW q \in Queries, Ask(q)
  PROVE  ClientInv'
<1>1. /\ ~ Asked(q) /\ NoFault /\ \A p \in Queries : p < q => Returned(p)
      /\ handler' = [s \in Server |-> [handler[s] EXCEPT ![q] = "running"]]
      /\ reply' = reply /\ result' = result /\ lost' = lost /\ UNCHANGED ring
  BY DEF Ask
<1>2. PICK f \in Refusal \cup {NoRefusal} : refusal' = [refusal EXCEPT ![q] = f]
  BY DEF Ask
<1>3. /\ handler \in [Server -> [Queries -> HandlerState]]
      /\ refusal \in [Queries -> Refusal \cup {NoRefusal}]
  BY DEF ClientInv, LifecycleTypeOK
<1>4. \A s \in Server, x \in Queries :
        handler'[s][x] = IF x = q THEN "running" ELSE handler[s][x]
  BY <1>1, <1>3
<1>5. \A x \in Queries : x # q => (Asked(x)' <=> Asked(x)) /\ refusal'[x] = refusal[x]
  BY <1>2, <1>3, <1>4 DEF Asked
<1>6. /\ pc' = pc /\ round' = round
      /\ \A s \in Server, m \in Msg : Transit(s, m)' <=> Transit(s, m)
  BY <1>1 DEF ring, vars, Transit
<1>7. LifecycleTypeOK'
  <2>1. TypeOK'
    BY <1>1 DEF ring, vars, TypeOK
  <2>2. handler' \in [Server -> [Queries -> HandlerState]]
    BY <1>1, <1>3 DEF HandlerState
  <2>3. refusal' \in [Queries -> Refusal \cup {NoRefusal}]
    BY <1>2, <1>3
  <2> QED
    BY <1>1, <2>1, <2>2, <2>3 DEF ClientInv, LifecycleTypeOK
<1>8. ASSUME NEW x \in Queries
      PROVE  QueryOf(x)'
  <2>1. QueryOf(x)
    BY DEF ClientInv
  <2>2. CASE x = q
    <3>1. ~ Returned(x)'
      BY <1>1, <2>1, <2>2 DEF QueryOf, Returned
    <3> QED
      BY <1>4, <2>2, <3>1 DEF QueryOf
  <2>3. CASE x # q
    BY <1>1, <1>4, <1>5, <2>1, <2>3 DEF QueryOf, Returned
  <2> QED
    BY <2>2, <2>3
<1>9. ASSUME NEW x \in Queries, NEW s \in Server
      PROVE  CallOf(s, x)'
  <2>1. CallOf(s, x)
    BY DEF ClientInv
  <2>2. CASE x = q
    <3>1. handler[s][x] = "none"
      BY <1>1, <2>2 DEF Asked
    <3>2. reply[s][x] = "waiting"
      BY <2>1, <3>1 DEF CallOf
    <3> QED
      BY <1>1, <1>4, <2>2, <3>2 DEF CallOf
  <2>3. CASE x # q
    <3>1. Stops(s, x)' <=> Stops(s, x)
      BY <1>5, <1>6, <2>3 DEF Stops, Refuses
    <3> QED
      BY <1>1, <1>4, <1>6, <2>1, <2>3, <3>1 DEF CallOf
  <2> QED
    BY <2>2, <2>3
<1>10. ASSUME NEW p \in Queries, NEW x \in Queries, p < x, Asked(x)'
       PROVE  Returned(p)' /\ Settled(p)'
  <2>1. Returned(p) /\ Settled(p)
    <3>1. CASE x = q
      BY <1>1, <1>10, <3>1, ReturnedSettled
    <3>2. CASE x # q
      BY <1>5, <1>10, <3>2 DEF ClientInv, InOrder
    <3> QED
      BY <3>1, <3>2
  <2>2. p # q
    BY <1>1, <2>1 DEF ClientInv, QueryOf
  <2> QED
    BY <1>1, <1>4, <1>6, <2>1, <2>2 DEF Returned, Settled
<1> QED
  BY <1>1, <1>7, <1>8, <1>9, <1>10, RingStill DEF ClientInv, InOrder

\* Returning a query.
LEMMA ReturnSafe ==
  ASSUME TypeOK, ClientInv, NEW q \in Queries, Return(q)
  PROVE  ClientInv'
<1>1. /\ Asked(q) /\ ~ Returned(q) /\ \A s \in Server : reply[s][q] # "waiting"
      /\ result' = [result EXCEPT ![q] = {s \in Server : reply[s][q] = "ok"}]
      /\ handler' = handler /\ reply' = reply /\ refusal' = refusal /\ lost' = lost
      /\ UNCHANGED ring
  BY DEF Return
<1>2. result \in [Queries -> {NoResult} \cup SUBSET Server]
  BY DEF ClientInv, LifecycleTypeOK
<1>3. /\ pc' = pc /\ round' = round
      /\ \A s \in Server, m \in Msg : Transit(s, m)' <=> Transit(s, m)
  BY <1>1 DEF ring, vars, Transit
<1>4. LifecycleTypeOK'
  <2>1. TypeOK'
    BY <1>1 DEF ring, vars, TypeOK
  <2>2. result' \in [Queries -> {NoResult} \cup SUBSET Server]
    BY <1>1, <1>2
  <2> QED
    BY <1>1, <2>1, <2>2 DEF ClientInv, LifecycleTypeOK
<1>5. ASSUME NEW x \in Queries
      PROVE  QueryOf(x)'
  <2>1. QueryOf(x)
    BY DEF ClientInv
  <2>2. CASE x = q
    BY <1>1, <1>2, <2>1, <2>2 DEF QueryOf, Asked
  <2>3. CASE x # q
    <3>1. result'[x] = result[x]
      BY <1>1, <1>2, <2>3
    <3> QED
      BY <1>1, <2>1, <3>1 DEF QueryOf, Asked, Returned
  <2> QED
    BY <2>2, <2>3
<1>6. ASSUME NEW x \in Queries, NEW s \in Server
      PROVE  CallOf(s, x)'
  BY <1>1, <1>3 DEF ClientInv, CallOf, Stops, Refuses
<1>7. ASSUME NEW p \in Queries, NEW x \in Queries, p < x, Asked(x)'
      PROVE  Returned(p)' /\ Settled(p)'
  <2>1. Returned(p) /\ Settled(p)
    BY <1>1, <1>7 DEF ClientInv, InOrder, Asked
  <2>2. result'[p] = result[p]
    BY <1>1, <1>2, <2>1
  <2> QED
    BY <1>1, <1>3, <2>1, <2>2 DEF Returned, Settled
<1> QED
  BY <1>1, <1>4, <1>5, <1>6, <1>7, RingStill DEF ClientInv, InOrder

\* LoseCall, Throw and Answer: the call of query q to server s ends, its
\* handler does, or both.
LEMMA EndSafe ==
  ASSUME TypeOK, ClientInv, NEW s \in Server, NEW q \in Queries,
         LoseCall(s, q) \/ Throw(s, q) \/ Answer(s, q)
  PROVE  ClientInv'
<1>1. UNCHANGED ring /\ refusal' = refusal /\ result' = result
  BY DEF LoseCall, Throw, Answer
<1>2. /\ handler \in [Server -> [Queries -> HandlerState]]
      /\ reply \in [Server -> [Queries -> ReplyState]]
  BY DEF ClientInv, LifecycleTypeOK
<1>3. /\ handler[s][q] # "none"
      /\ handler' = handler \/ handler' = [handler EXCEPT ![s][q] = "over"]
  BY DEF LoseCall, Throw, Answer
<1>4. \/ reply' = reply
      \/ /\ reply[s][q] = "waiting" \/ <<s, q>> \notin lost
         /\ reply' = [reply EXCEPT ![s][q] = "error"] \/ reply' = [reply EXCEPT ![s][q] = "ok"]
  BY DEF LoseCall, Throw, Answer, Reply
<1>5. /\ pc' = pc /\ round' = round
      /\ \A t \in Server, m \in Msg : Transit(t, m)' <=> Transit(t, m)
  BY <1>1 DEF ring, vars, Transit
<1>6. reply[s][q] = "waiting" \/ reply' = reply
  <2>1. CASE LoseCall(s, q)
    BY <2>1 DEF LoseCall
  <2>2. CASE Throw(s, q) \/ Answer(s, q)
    BY <2>2 DEF Throw, Answer, Reply, ClientInv, CallOf
  <2> QED
    BY <2>1, <2>2
<1>7. /\ \A t \in Server, x \in Queries : ~ (t = s /\ x = q) =>
           /\ handler'[t][x] = handler[t][x] /\ reply'[t][x] = reply[t][x]
           /\ (<<t, x>> \in lost') <=> (<<t, x>> \in lost)
      /\ handler'[s][q] \in {handler[s][q], "over"}
      /\ \A x \in Queries : Asked(x)' <=> Asked(x)
  <2>1. lost' = lost \/ lost' = lost \cup {<<s, q>>}
    BY DEF LoseCall, Throw, Answer
  <2>2. \A t \in Server, x \in Queries : ~ (t = s /\ x = q) =>
          handler'[t][x] = handler[t][x] /\ reply'[t][x] = reply[t][x]
    BY <1>2, <1>3, <1>4
  <2>3. handler'[s][q] \in {handler[s][q], "over"}
    BY <1>2, <1>3
  <2>4. \A x \in Queries : Asked(x)' <=> Asked(x)
    BY <1>3, <2>2, <2>3 DEF Asked
  <2> QED
    BY <2>1, <2>2, <2>3, <2>4
<1>8. LifecycleTypeOK'
  <2>1. TypeOK'
    BY <1>1 DEF ring, vars, TypeOK
  <2>2. handler' \in [Server -> [Queries -> HandlerState]]
    <3>1. CASE handler' = handler
      BY <1>2, <3>1
    <3>2. CASE handler' = [handler EXCEPT ![s][q] = "over"]
      BY <1>2, <3>2 DEF HandlerState
    <3> QED
      BY <1>3, <3>1, <3>2
  <2>3. reply' \in [Server -> [Queries -> ReplyState]]
    <3>1. CASE reply' = reply
      BY <1>2, <3>1
    <3>2. CASE reply' = [reply EXCEPT ![s][q] = "error"]
      BY <1>2, <3>2 DEF ReplyState
    <3>3. CASE reply' = [reply EXCEPT ![s][q] = "ok"]
      BY <1>2, <3>3 DEF ReplyState
    <3> QED
      BY <1>4, <3>1, <3>2, <3>3
  <2>4. lost' \subseteq Server \X Queries
    BY DEF LoseCall, Throw, Answer, ClientInv, LifecycleTypeOK
  <2> QED
    BY <1>1, <2>1, <2>2, <2>3, <2>4 DEF ClientInv, LifecycleTypeOK
<1>9. ASSUME NEW x \in Queries
      PROVE  QueryOf(x)'
  <2>1. QueryOf(x)
    BY DEF ClientInv
  <2>2. \A t \in Server : Asked(x)' => handler'[t][x] # "none"
    BY <1>3, <1>7, <2>1 DEF QueryOf
  <2>3. Returned(x) => \A t \in Server : reply'[t][x] = reply[t][x]
    BY <1>6, <1>7, <2>1 DEF QueryOf
  <2> QED
    BY <1>1, <1>7, <2>1, <2>2, <2>3 DEF QueryOf, Returned
<1>10. ASSUME NEW x \in Queries, NEW t \in Server
       PROVE  CallOf(t, x)'
  <2>1. CallOf(t, x) /\ CallOf(s, q)
    BY DEF ClientInv
  <2>2. CASE ~ (t = s /\ x = q)
    BY <1>1, <1>5, <1>7, <2>1, <2>2 DEF CallOf, Stops, Refuses
  <2>3. CASE LoseCall(s, q)
    <3>1. <<s, q>> \in lost' /\ (handler' = handler \/ pc[s][q] = "compute")
      BY <2>3 DEF LoseCall
    <3> QED
      BY <1>3, <1>5, <1>7, <2>1, <2>2, <3>1 DEF CallOf
  <2>4. CASE Throw(s, q) \/ Answer(s, q)
    <3>1. lost' = lost /\ handler'[s][q] = "over" /\ handler[s][q] = "running"
      BY <1>2, <2>4 DEF Throw, Answer
    <3>2. \/ Stops(s, q) /\ (<<s, q>> \in lost \/ reply'[s][q] = "error")
          \/ pc[s][q] = "done" /\ (<<s, q>> \in lost \/ reply'[s][q] = "ok")
      BY <1>2, <2>4 DEF Throw, Answer, Reply
    <3>3. Stops(s, q)' <=> Stops(s, q)
      BY <1>1, <1>5 DEF Stops, Refuses
    <3>4. pc[s][q] \in {"compute", "done"}
      BY <3>2 DEF Stops
    <3> QED
      BY <1>5, <2>2, <3>1, <3>2, <3>3, <3>4 DEF CallOf
  <2> QED
    BY <2>2, <2>3, <2>4
<1>11. ASSUME NEW p \in Queries, NEW x \in Queries, p < x, Asked(x)'
       PROVE  Returned(p)' /\ Settled(p)'
  <2>1. Returned(p) /\ Settled(p)
    BY <1>7, <1>11 DEF ClientInv, InOrder
  <2>2. \A t \in Server : handler'[t][p] = "over"
    BY <1>7, <2>1 DEF Settled
  <2> QED
    BY <1>1, <1>5, <2>1, <2>2 DEF Returned, Settled
<1> QED
  BY <1>1, <1>8, <1>9, <1>10, <1>11, RingStill DEF ClientInv, InOrder

-----------------------------------------------------------------------------
(* The theorems.                                                           *)

\* The exchanges of the handlers are those of MultRing, failures included.
LEMMA LifecycleRing == LifecycleSpec => FaultySpec
<1>1. LifecycleInit => Init
  BY DEF LifecycleInit
<1>2. [LifecycleNext]_all => [FaultyNext]_vars
  BY DEF LifecycleNext, Ask, Return, Handle, Exchange, Throw, Answer, SendMultFails, LoseCall,
         Deliver, FaultyNext, Next, all, ring
<1> QED
  BY <1>1, <1>2, PTL DEF LifecycleSpec, FaultySpec

\* The invariant holds on a ring of three servers.
LEMMA ClientInvCorrect == ASSUME ThreeServers PROVE LifecycleSpec => []ClientInv
<1>1. LifecycleInit => ClientInv
  <2> SUFFICES ASSUME LifecycleInit
               PROVE  ClientInv
    OBVIOUS
  <2>1. LifecycleTypeOK
    <3>1. TypeOK
      BY RoundsAssumption, FailureAssumption
         DEF LifecycleInit, Init, TypeOK, WorkerState, CQState, Round
    <3> QED
      BY <3>1 DEF LifecycleInit, LifecycleTypeOK, HandlerState, ReplyState
  <2>2. ASSUME NEW q \in Queries
        PROVE  ~ Asked(q) /\ ~ Returned(q)
    BY DEF LifecycleInit, Asked, Returned
  <2>3. ASSUME NEW q \in Queries, NEW s \in Server
        PROVE  CallOf(s, q) /\ Uses(s, q)
    <3>1. pc[s][q] = "compute" /\ round[s][q] = 1 /\ handler[s][q] = "none"
          /\ reply[s][q] = "waiting"
      BY DEF LifecycleInit, Init
    <3>2. \A r \in Round : r >= 1 /\ r \in Int /\ got[s][q][r] = NoMsg
      BY DEF LifecycleInit, Init, Round
    <3> QED
      BY <3>1, <3>2 DEF CallOf, Uses
  <2> QED
    BY <2>1, <2>2, <2>3 DEF ClientInv, QueryOf, InOrder
<1>2. TypeOK /\ TypeOK' /\ DeliveryInv /\ ClientInv /\ [LifecycleNext]_all => ClientInv'
  <2> SUFFICES ASSUME TypeOK, TypeOK', DeliveryInv, ClientInv, [LifecycleNext]_all
               PROVE  ClientInv'
    OBVIOUS
  <2>1. CASE RingStep
    <3>1. LifecycleTypeOK'
      BY <2>1 DEF RingStep, client, ClientInv, LifecycleTypeOK
    <3> QED
      BY <2>1, <3>1, RingCalls, RingUses, RingOrder DEF ClientInv
  <2>2. CASE UNCHANGED all
    BY <2>2 DEF all, ring, vars, client, ClientInv, LifecycleTypeOK, TypeOK, QueryOf, CallOf, Uses,
                InOrder, Settled, Transit, Asked, Returned, Stops, Refuses
  <2>3. ASSUME NEW s \in Server, NEW q \in Queries,
               Exchange(s, q) \/ SendMultFails(s, q)
        PROVE  RingStep
    BY <2>3 DEF RingStep, Exchange, SendMultFails
  <2>4. ASSUME NEW s \in Server, Deliver(s)
        PROVE  RingStep
    BY <2>4 DEF RingStep, Deliver
  <2> QED
    BY <2>1, <2>2, <2>3, <2>4, AskSafe, ReturnSafe, EndSafe DEF LifecycleNext, Handle
<1> QED
  BY <1>1, <1>2, LifecycleRing, TypeCorrect, DeliveryCorrect, PTL DEF LifecycleSpec

\* On a ring of three servers the client never returns the sum of some of the
\* shares, unless one of its own calls was lost: whichever servers refuse, ahead
\* of whatever exchange, and whichever calls between servers fail.
THEOREM AllOrNothingAlways == ASSUME ThreeServers PROVE LifecycleSpec => []AllOrNothing
<1>1. TypeOK /\ DeliveryInv /\ ClientInv => AllOrNothing
  <2> SUFFICES ASSUME TypeOK, DeliveryInv, ClientInv, NEW q \in Queries, Returned(q),
                      \A s \in Server : <<s, q>> \notin lost
               PROVE  result[q] \in {{}, Server}
    BY DEF AllOrNothing
  <2>1. result[q] = {s \in Server : reply[s][q] = "ok"}
    BY DEF ClientInv, QueryOf
  <2> QED
    BY <2>1, AllOrNone
<1> QED
  BY <1>1, LifecycleRing, TypeCorrect, DeliveryCorrect, ClientInvCorrect, PTL

\* On a ring of three servers the next query finds the ring empty while nothing
\* has failed, however the handlers of the queries before it ended.
THEOREM AlwaysCleanBetween == ASSUME ThreeServers PROVE LifecycleSpec => []CleanBetween
<1>1. TypeOK /\ DeliveryInv /\ ClientInv => CleanBetween
  <2> SUFFICES ASSUME TypeOK, DeliveryInv, ClientInv, NoFault,
                      \A q \in Queries : Asked(q) => Returned(q), NEW s \in Server
               PROVE  /\ wire[s] = {} /\ slot[s] = NoMsg /\ cqState[s] = "idle"
                      /\ \A q \in Queries : handler[s][q] # "running"
    BY DEF CleanBetween
  <2>1. \A q \in Queries : Asked(q) => Settled(q)
    BY ReturnedSettled
  <2>2. \A t \in Server, m \in Msg : ~ Transit(t, m)
    BY <2>1, TransitAsked DEF Settled
  <2>3. wire[s] = {}
    <3>1. PICK t \in Server : Pred(t) = s
      BY PredFacts
    <3> QED
      BY <2>2, <3>1 DEF Transit, TypeOK
  <2>4. slot[s] = NoMsg /\ cqMsg[s] = NoMsg
    BY <2>2 DEF Transit, TypeOK
  <2>5. cqState[s] = "idle"
    BY <2>4 DEF DeliveryInv, Delivery, Held
  <2>6. \A q \in Queries : handler[s][q] # "running"
    BY <2>1 DEF Asked, Settled
  <2> QED
    BY <2>3, <2>4, <2>5, <2>6
<1> QED
  BY <1>1, LifecycleRing, TypeCorrect, DeliveryCorrect, ClientInvCorrect, PTL

-----------------------------------------------------------------------------
(* Rounds.                                                                 *)

\* The SendMult call of vector m to s has been answered.
CallOver(s, m) ==
  \/ m.round < round[Pred(s)][m.query]
  \/ /\ m.round = round[Pred(s)][m.query]
     /\ pc[Pred(s)][m.query] \notin {"compute", "calling"}

\* While no call fails, a call is answered when its vector has reached the
\* mailbox, and vectors are used in the order of the rounds.
RoundsInOrder ==
  failures = 0 =>
    \A s \in Server :
      /\ \A m \in Msg : CallOver(s, m) => m \notin wire[Pred(s)] /\ cqMsg[s] # m
      /\ \A q \in Queries, r \in Round : got[s][q][r] # NoMsg => got[s][q][r].round = r

\* The vector that a handler takes is the next: earlier ones are used, and a
\* later one was sent after the next had reached the mailbox.
LEMMA NextVector ==
  ASSUME TypeOK, DeliveryInv, ClientInv, RoundsInOrder, failures = 0,
         NEW s \in Server, NEW q \in Queries, handler[s][q] = "running", Take(s, q)
  PROVE  slot[s].round = round[s][q]
<1>1. PICK R \in Round : R = round[s][q]
  BY DEF TypeOK
<1>2. PICK m \in Msg : m = slot[s]
  BY DEF Take, TypeOK
<1>3. m.query = q /\ m.round \in Round
  BY <1>2, OwnVector DEF Take, Msg
<1>4. \A r \in Round : r \in Int
  BY DEF Round
<1>5. Once(s, m) /\ WasSent(s, m) /\ Held(s)
  BY <1>2 DEF DeliveryInv, Delivery, Somewhere
<1>6. got[s][q][R] = NoMsg
  BY <1>1, <1>5 DEF Held, Take
<1>7. ~ (m.round < R)
  <2> SUFFICES ASSUME m.round < R
               PROVE  FALSE
    OBVIOUS
  <2>1. got[s][q][m.round] # NoMsg
    BY <1>1, <1>3 DEF ClientInv, Uses
  <2>2. PICK n \in Msg : n = got[s][q][m.round]
    BY <1>3, <2>1 DEF TypeOK
  <2>3. n.query = q /\ n.round = m.round
    BY <1>3, <2>1, <2>2 DEF RoundsInOrder, ClientInv, Uses
  <2>4. n = m
    BY <1>3, <2>3 DEF Msg
  <2> QED
    BY <1>2, <1>3, <1>5, <2>2, <2>4 DEF Once, UsedAt
<1>8. ~ (R < m.round)
  <2> SUFFICES ASSUME R < m.round
               PROVE  FALSE
    OBVIOUS
  <2>1. PICK n \in Msg : n = [query |-> q, round |-> R]
    BY DEF Msg
  <2>2. Pred(s) \in Server /\ round[Pred(s)][q] \in Round
    BY PredFacts DEF TypeOK
  <2>3. n.round < round[Pred(s)][q] /\ n.query = q
    BY <1>3, <1>4, <1>5, <2>1, <2>2 DEF WasSent
  <2>4. n \notin wire[Pred(s)] /\ cqMsg[s] # n /\ WasSent(s, n)
    BY <2>3 DEF RoundsInOrder, CallOver, WasSent
  <2>5. slot[s] # n
    BY <1>2, <1>4, <2>1
  <2>6. PICK x \in Queries, r \in Round : got[s][x][r] = n
    BY <2>4, <2>5 DEF DeliveryInv, Delivery, Somewhere, UsedAt
  <2>7. x = q
    BY <2>1, <2>6, NoMsgAssumption DEF ClientInv, Uses
  <2>8. r = R
    BY <2>1, <2>6, NoMsgAssumption DEF RoundsInOrder
  <2> QED
    BY <1>6, <2>6, <2>7, <2>8, NoMsgAssumption
<1> QED
  BY <1>1, <1>2, <1>3, <1>4, <1>7, <1>8

\* A step of a query keeps the order of the rounds.
LEMMA RingRounds ==
  ASSUME TypeOK, DeliveryInv, ClientInv, RoundsInOrder, RingStep
  PROVE  RoundsInOrder'
<1> SUFFICES ASSUME failures' = 0, NEW t \in Server
             PROVE  /\ \A m \in Msg : CallOver(t, m)' => m \notin wire'[Pred(t)] /\ cqMsg'[t] # m
                    /\ \A q \in Queries, r \in Round :
                         got'[t][q][r] # NoMsg => got'[t][q][r].round = r
  BY DEF RoundsInOrder
<1>1. failures = 0
  BY DEF RingStep, Exchange, SendMultFails, Deliver, Worker, CQThread, Send, Sleep, Take,
         CallFails, Accept, HandOver, Block, TypeOK
<1>2. /\ \A m \in Msg : CallOver(t, m) => m \notin wire[Pred(t)] /\ cqMsg[t] # m
      /\ \A q \in Queries, r \in Round : got[t][q][r] # NoMsg => got[t][q][r].round = r
  BY <1>1 DEF RoundsInOrder
<1>3. /\ Pred(t) \in Server
      /\ \A m \in Msg : m.query \in Queries /\ m.round \in Int /\ m # NoMsg
  BY PredFacts, NoMsgAssumption DEF Msg, Round
<1>4. ASSUME NEW s \in Server, NEW q \in Queries, Send(s, q) \/ Sleep(s, q)
      PROVE  /\ \A m \in Msg : CallOver(t, m)' => m \notin wire'[Pred(t)] /\ cqMsg'[t] # m
             /\ got' = got
  <2>1. cqMsg' = cqMsg /\ got' = got /\ round' = round
    BY <1>4 DEF Send, Sleep
  <2>2. ASSUME NEW m \in Msg, CallOver(t, m)'
        PROVE  CallOver(t, m) /\ m \notin wire'[Pred(t)]
    <3>1. CASE Send(s, q)
      <4>1. pc'[Pred(t)][m.query] \notin {"compute", "calling"} =>
              pc'[Pred(t)][m.query] = pc[Pred(t)][m.query]
        BY <1>3, <3>1 DEF Send, TypeOK
      <4>2. CallOver(t, m)
        BY <2>1, <2>2, <4>1 DEF CallOver
      <4>3. m \in wire'[Pred(t)] => m \in wire[Pred(t)] \/ (Pred(t) = s /\ m = Outgoing(s, q))
        BY <1>3, <3>1 DEF Send, TypeOK
      <4>4. ~ (Pred(t) = s /\ m = Outgoing(s, q))
        BY <1>3, <3>1, <4>2, OutgoingFacts DEF CallOver, Send
      <4> QED
        BY <1>2, <4>2, <4>3, <4>4
    <3>2. CASE Sleep(s, q)
      <4>1. pc'[Pred(t)][m.query] = pc[Pred(t)][m.query]
              \/ pc[Pred(t)][m.query] \in {"returned", "woken"}
        BY <1>3, <3>2 DEF Sleep, TypeOK
      <4>2. CallOver(t, m)
        BY <2>1, <2>2, <4>1 DEF CallOver
      <4> QED
        BY <1>2, <3>2, <4>2 DEF Sleep
    <3> QED
      BY <1>4, <3>1, <3>2
  <2> QED
    BY <1>2, <2>1, <2>2
<1>5. ASSUME NEW s \in Server, NEW q \in Queries, handler[s][q] = "running", Take(s, q)
      PROVE  /\ \A m \in Msg : CallOver(t, m)' => m \notin wire'[Pred(t)] /\ cqMsg'[t] # m
             /\ \A x \in Queries, r \in Round :
                  got'[t][x][r] # NoMsg => got'[t][x][r].round = r
  <2>1. PICK R \in Round : R = round[s][q]
    BY DEF TypeOK
  <2>2. wire' = wire /\ cqMsg' = cqMsg /\ pc[s][q] \in {"returned", "woken"}
    BY <1>5 DEF Take
  <2>3. ASSUME NEW m \in Msg, CallOver(t, m)'
        PROVE  CallOver(t, m)
    <3>1. CASE Pred(t) = s /\ m.query = q
      <4>1. \/ round'[s][q] = R
            \/ round'[s][q] = R + 1 /\ pc'[s][q] = "compute"
        <5>1. CASE Ends(s, q)
          BY <2>1, <5>1 DEF Ends
        <5>2. CASE Continues(s, q)
          BY <2>1, <5>2 DEF Continues, TypeOK
        <5> QED
          BY <1>5, <5>1, <5>2, TakeStep
      <4>2. m.round <= R
        BY <1>3, <2>1, <2>3, <3>1, <4>1 DEF CallOver, Round
      <4> QED
        BY <1>3, <2>1, <2>2, <3>1, <4>2 DEF CallOver, Round
    <3>2. CASE ~ (Pred(t) = s /\ m.query = q)
      <4>1. /\ pc'[Pred(t)][m.query] = pc[Pred(t)][m.query]
            /\ round'[Pred(t)][m.query] = round[Pred(t)][m.query]
        <5>1. CASE Ends(s, q)
          BY <1>3, <3>2, <5>1 DEF Ends, TypeOK
        <5>2. CASE Continues(s, q)
          BY <1>3, <3>2, <5>2 DEF Continues, TypeOK
        <5> QED
          BY <1>5, <5>1, <5>2, TakeStep
      <4> QED
        BY <2>3, <4>1 DEF CallOver
    <3> QED
      BY <3>1, <3>2
  <2>4. \A x \in Queries, r \in Round :
          got'[t][x][r] = IF t = s /\ x = q /\ r = R THEN slot[s] ELSE got[t][x][r]
    BY <1>5, <2>1 DEF Take, TypeOK
  <2>5. slot[s].round = R
    BY <1>1, <1>5, <2>1, NextVector
  <2> QED
    BY <1>2, <2>2, <2>3, <2>4, <2>5
<1>6. ASSUME NEW s \in Server, Accept(s)
      PROVE  /\ \A m \in Msg : CallOver(t, m)' => m \notin wire'[Pred(t)] /\ cqMsg'[t] # m
             /\ got' = got
  <2>1. PICK n \in wire[Pred(s)] :
          /\ wire' = [wire EXCEPT ![Pred(s)] = wire[Pred(s)] \ {n}]
          /\ cqMsg' = [cqMsg EXCEPT ![s] = n]
    BY <1>6 DEF Accept
  <2>2. got' = got /\ pc' = pc /\ round' = round
    BY <1>6 DEF Accept
  <2>3. wire'[Pred(t)] \subseteq wire[Pred(t)] /\ cqMsg'[t] \in wire[Pred(t)] \cup {cqMsg[t]}
    BY <1>3, <2>1 DEF TypeOK
  <2> QED
    BY <1>2, <2>2, <2>3 DEF CallOver
<1>7. ASSUME NEW s \in Server, HandOver(s)
      PROVE  /\ \A m \in Msg : CallOver(t, m)' => m \notin wire'[Pred(t)] /\ cqMsg'[t] # m
             /\ got' = got
  <2>1. wire' = wire /\ got' = got /\ round' = round /\ cqMsg' = [cqMsg EXCEPT ![s] = NoMsg]
    BY <1>7 DEF HandOver
  <2>2. ASSUME NEW m \in Msg, CallOver(t, m)', ~ CallOver(t, m)
        PROVE  t = s /\ m = cqMsg[s]
    <3>1. /\ m.round = round[Pred(t)][m.query] /\ pc[Pred(t)][m.query] \in {"compute", "calling"}
          /\ pc'[Pred(t)][m.query] \notin {"compute", "calling"}
      BY <2>1, <2>2 DEF CallOver
    <3>2. /\ Pred(t) = Pred(s) /\ m.query \in Callers(s, cqMsg[s])
      <4>1. PICK woken \in NotifyMultCV(s) :
              pc' = [u \in Server |-> [x \in Queries |->
                       IF u = Pred(s) /\ x \in Callers(s, cqMsg[s]) THEN "returned"
                       ELSE IF u = s /\ x \in woken THEN "woken"
                       ELSE pc[u][x]]]
        BY <1>7 DEF HandOver
      <4>2. \A x \in woken : pc[s][x] = "asleep"
        BY <4>1 DEF NotifyMultCV
      <4> QED
        BY <1>3, <3>1, <4>1, <4>2
    <3>3. t = s
      BY <3>2, PredFacts
    <3>4. m.query = cqMsg[s].query /\ m.round = cqMsg[s].round
      BY <3>1, <3>2, <3>3 DEF Callers
    <3>5. cqMsg[s] \in Msg
      BY <1>7 DEF HandOver, DeliveryInv, Delivery, Held, TypeOK
    <3>6. PICK n \in Msg : n = cqMsg[s]
      BY <3>5
    <3> QED
      BY <3>3, <3>4, <3>6 DEF Msg
  <2>3. ASSUME NEW m \in Msg, CallOver(t, m)'
        PROVE  m \notin wire'[Pred(t)] /\ cqMsg'[t] # m
    <3>1. CASE CallOver(t, m)
      BY <1>2, <1>3, <2>1, <3>1 DEF TypeOK
    <3>2. CASE t = s /\ m = cqMsg[s]
      <4>1. m \notin wire[Pred(t)]
        BY <3>2 DEF DeliveryInv, Delivery, Once
      <4> QED
        BY <1>3, <2>1, <3>2, <4>1 DEF TypeOK
    <3> QED
      BY <2>2, <2>3, <3>1, <3>2
  <2> QED
    BY <2>1, <2>3
<1>8. ASSUME NEW s \in Server, Block(s)
      PROVE  /\ \A m \in Msg : CallOver(t, m)' => m \notin wire'[Pred(t)] /\ cqMsg'[t] # m
             /\ got' = got
  BY <1>2, <1>8 DEF Block, CallOver
<1>9. ASSUME NEW s \in Server, NEW q \in Queries, CallFails(s, q)
      PROVE  FALSE
  BY <1>1, <1>9 DEF CallFails
<1> QED
  BY <1>2, <1>4, <1>5, <1>6, <1>7, <1>8, <1>9
     DEF RingStep, Exchange, SendMultFails, Deliver, Worker, CQThread

\* On a ring of three servers, while nothing fails, every vector that a handler
\* uses is of its own query and round, although vectors carry neither and some
\* servers may refuse the query, or have refused an earlier one.
THEOREM AlwaysOwnVectors == ASSUME ThreeServers PROVE LifecycleSpec => []OwnVectors
<1>1. LifecycleInit => RoundsInOrder
  <2> SUFFICES ASSUME LifecycleInit
               PROVE  RoundsInOrder
    OBVIOUS
  <2>1. ASSUME NEW s \in Server, NEW m \in Msg
        PROVE  ~ CallOver(s, m)
    <3>1. m.query \in Queries /\ m.round \in Int /\ m.round >= 1 /\ Pred(s) \in Server
      BY PredFacts DEF Msg, Round
    <3> QED
      BY <3>1 DEF LifecycleInit, Init, CallOver
  <2>2. \A s \in Server, q \in Queries, r \in Round : got[s][q][r] = NoMsg
    BY DEF LifecycleInit, Init
  <2> QED
    BY <2>1, <2>2 DEF RoundsInOrder
<1>2. TypeOK /\ DeliveryInv /\ ClientInv /\ RoundsInOrder /\ [LifecycleNext]_all => RoundsInOrder'
  <2> SUFFICES ASSUME TypeOK, DeliveryInv, ClientInv, RoundsInOrder, [LifecycleNext]_all
               PROVE  RoundsInOrder'
    OBVIOUS
  <2>1. CASE UNCHANGED ring
    BY <2>1 DEF ring, vars, RoundsInOrder, CallOver
  <2>2. ASSUME NEW s \in Server, NEW q \in Queries,
               Exchange(s, q) \/ SendMultFails(s, q)
        PROVE  RingStep
    BY <2>2 DEF RingStep, Exchange, SendMultFails
  <2>3. ASSUME NEW s \in Server, Deliver(s)
        PROVE  RingStep
    BY <2>3 DEF RingStep, Deliver
  <2> QED
    BY <2>1, <2>2, <2>3, RingRounds
       DEF LifecycleNext, Handle, Ask, Return, Throw, Answer, LoseCall, all
<1>3. TypeOK /\ DeliveryInv /\ ClientInv /\ RoundsInOrder => OwnVectors
  <2> SUFFICES ASSUME TypeOK, ClientInv, RoundsInOrder, failures = 0,
                      NEW s \in Server, NEW q \in Queries, NEW r \in Round, got[s][q][r] # NoMsg
               PROVE  got[s][q][r] = [query |-> q, round |-> r]
    BY DEF OwnVectors, NoFault, RoundMatch
  <2>1. PICK m \in Msg : m = got[s][q][r]
    BY DEF TypeOK
  <2>2. m.query = q /\ m.round = r
    BY <2>1 DEF ClientInv, Uses, RoundsInOrder
  <2> QED
    BY <2>1, <2>2 DEF Msg
<1> QED
  BY <1>1, <1>2, <1>3, LifecycleRing, TypeCorrect, DeliveryCorrect, ClientInvCorrect, PTL
     DEF LifecycleSpec

=============================================================================
