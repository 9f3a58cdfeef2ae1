---------------------------- MODULE QueryLifecycle ----------------------------
(***************************************************************************)
(* A client that asks its queries one after another, the three handlers    *)
(* each query starts, and what becomes of both when something fails.  The  *)
(* handlers' share exchanges are those of MultRing; added here are         *)
(*                                                                         *)
(*   - the client's side (AggQuery and the other query operations): one    *)
(*     asynchronous call to each server, a wait without deadline for all   *)
(*     of them, and the sum of the answers that came back ok;              *)
(*   - a handler that throws: every check of a request comes ahead of an   *)
(*     RSSReshare, so a handler stops between two exchanges, never inside  *)
(*     one, and tells its neighbours nothing;                              *)
(*   - calls of the client that are lost, on the way or with the answer.   *)
(*                                                                         *)
(* A failing SendMult between two servers is MultRing's CallFails.         *)
(***************************************************************************)
EXTENDS MultRing

CONSTANTS
  Checked,   \* the exchanges ahead of which a handler checks its request
  Refusers,  \* the sets of servers that may find a request invalid
  MaxFaults, \* bound on calls that fail, the client's and the servers'
  NoResult   \* the client has not returned from the query

\* Queries are numbered in the order in which the client asks them.  The first
\* exchange is always checked; a BO-FSS query also deserialises and checks the
\* key packs of each predicate ahead of its reshare.
ASSUME LifecycleAssumption ==
  /\ Queries \subseteq Nat
  /\ 1 \in Checked /\ Checked \subseteq Round
  /\ Refusers \subseteq SUBSET Server
  /\ MaxFaults \in Nat

VARIABLES
  handler,  \* handler[s][q]: the handler of query q at server s
  reply,    \* reply[s][q]: the status the client sees for its call
  refusal,  \* refusal[q]: the servers that find q invalid, and ahead of what
  result,   \* result[q]: the servers whose shares the client added up
  lost      \* the client calls that were lost: pairs <<server, query>>

ring   == vars
client == <<handler, reply, refusal, result, lost>>
all    == <<ring, client>>

HandlerState == {"none", "running", "over"}
ReplyState   == {"waiting", "ok", "error"}
Refusal      == [servers : Refusers \ {{}}, round : Checked]
NoRefusal    == [servers |-> {}, round |-> 1]

LifecycleTypeOK ==
  /\ TypeOK
  /\ handler \in [Server -> [Queries -> HandlerState]]
  /\ reply \in [Server -> [Queries -> ReplyState]]
  /\ refusal \in [Queries -> Refusal \cup {NoRefusal}]
  /\ result \in [Queries -> {NoResult} \cup SUBSET Server]
  /\ lost \subseteq Server \X Queries

LifecycleInit ==
  /\ Init
  /\ handler = [s \in Server |-> [q \in Queries |-> "none"]]
  /\ reply = [s \in Server |-> [q \in Queries |-> "waiting"]]
  /\ refusal = [q \in Queries |-> NoRefusal]
  /\ result = [q \in Queries |-> NoResult]
  /\ lost = {}

NoFault     == lost = {} /\ failures = 0
MoreFaults  == failures + Cardinality(lost) < MaxFaults
Asked(q)    == \E s \in Server : handler[s][q] # "none"
Returned(q) == result[q] # NoResult

-----------------------------------------------------------------------------
(* The client.                                                             *)

\* The next query, once the one before has returned.  Which servers will
\* refuse it is fixed now: all of them if the request is wrong for a table
\* that they all have, some if one of them missed the call that set it up.
\* Bound: no query is asked after a fault.
Ask(q) ==
  /\ ~Asked(q)
  /\ NoFault
  /\ \A p \in Queries : p < q => Returned(p)
  /\ handler' = [s \in Server |-> [handler[s] EXCEPT ![q] = "running"]]
  /\ \E f \in Refusal \cup {NoRefusal} : refusal' = [refusal EXCEPT ![q] = f]
  /\ UNCHANGED <<ring, reply, result, lost>>

\* Mutant of Return: the first answer ends the wait.
ReturnAtOnce(q) ==
  /\ Asked(q)
  /\ ~Returned(q)
  /\ \E s \in Server : reply[s][q] # "waiting"
  /\ result' = [result EXCEPT ![q] = {s \in Server : reply[s][q] = "ok"}]
  /\ UNCHANGED <<ring, handler, reply, refusal, lost>>

\* Every call has ended: add up the answers that are ok.  An error is only
\* printed, so the sum is returned whatever it lacks.
Return(q) ==
  /\ Asked(q)
  /\ ~Returned(q)
  /\ \A s \in Server : reply[s][q] # "waiting"
  /\ result' = [result EXCEPT ![q] = {s \in Server : reply[s][q] = "ok"}]
  /\ UNCHANGED <<ring, handler, reply, refusal, lost>>

\* The connection of a call breaks.  The client sees an error; the handler
\* may never have been started, or goes on and its answer reaches nobody.
LoseCall(s, q) ==
  /\ handler[s][q] # "none"
  /\ reply[s][q] = "waiting"
  /\ MoreFaults
  /\ lost' = lost \cup {<<s, q>>}
  /\ reply' = [reply EXCEPT ![s][q] = "error"]
  /\ \/ UNCHANGED handler
     \/ /\ pc[s][q] = "compute" /\ round[s][q] = 1
        /\ handler' = [handler EXCEPT ![s][q] = "over"]
  /\ UNCHANGED <<ring, refusal, result>>

-----------------------------------------------------------------------------
(* The handlers.                                                           *)

Refuses(s, q) == s \in refusal[q].servers /\ round[s][q] = refusal[q].round

\* Mutant of Stops: the check comes after the vector was sent.
StopsLate(s, q) == pc[s][q] = "returned" /\ Refuses(s, q)

\* The checks of a request come ahead of the exchange that would use it.
Stops(s, q) == pc[s][q] = "compute" /\ Refuses(s, q)

\* What the client learns when the handler ends with status st.
Reply(s, q, st) ==
  reply' = IF <<s, q>> \in lost THEN reply ELSE [reply EXCEPT ![s][q] = st]

\* A check fails: the exception leaves the handler, and gRPC answers the
\* call with an error.  The other two servers are not told.
Throw(s, q) ==
  /\ handler[s][q] = "running"
  /\ Stops(s, q)
  /\ handler' = [handler EXCEPT ![s][q] = "over"]
  /\ Reply(s, q, "error")
  /\ UNCHANGED <<ring, refusal, result, lost>>

\* One step of the exchanges of a handler whose checks have passed.
Exchange(s, q) ==
  /\ handler[s][q] = "running"
  /\ ~Stops(s, q)
  /\ Worker(s, q)
  /\ UNCHANGED client

SendMultFails(s, q) == MoreFaults /\ CallFails(s, q) /\ UNCHANGED client

\* The last exchange is over: the handler returns its share.
Answer(s, q) ==
  /\ handler[s][q] = "running"
  /\ pc[s][q] = "done"
  /\ handler' = [handler EXCEPT ![s][q] = "over"]
  /\ Reply(s, q, "ok")
  /\ UNCHANGED <<ring, refusal, result, lost>>

Handle(s, q) == Exchange(s, q) \/ Throw(s, q) \/ Answer(s, q)
Deliver(s)   == CQThread(s) /\ UNCHANGED client

LifecycleNext ==
  \/ \E q \in Queries : Ask(q) \/ Return(q)
  \/ \E s \in Server, q \in Queries :
       Handle(s, q) \/ SendMultFails(s, q) \/ LoseCall(s, q)
  \/ \E s \in Server : Deliver(s)

LifecycleSpec == LifecycleInit /\ [][LifecycleNext]_all

\* Threads are scheduled, the transport delivers and the client reads its
\* completion queue.  No call has to fail and no query has to be asked.
LifecycleFairSpec ==
  /\ LifecycleSpec
  /\ \A q \in Queries : WF_all(Return(q))
  /\ \A s \in Server :
       /\ WF_all(Deliver(s))
       /\ \A q \in Queries : WF_all(Handle(s, q))

-----------------------------------------------------------------------------
(* Properties.                                                             *)

\* Every server refuses the query, at the same place, or none does.
Agreed(q) == refusal[q].servers \in {{}, Server}

\* The client adds up whatever it has and only prints the errors, and still
\* it never returns the sum of some of the shares, unless one of its own calls
\* was lost: when a server refuses alone, or a SendMult fails and its vector
\* is gone, the successor waits for that vector for ever, and the client for
\* the successor.
AllOrNothing ==
  \A q \in Queries :
    Returned(q) /\ (\A s \in Server : <<s, q>> \notin lost) =>
      result[q] \in {{}, Server}

\* The vectors a query uses are its own, round by round, although a vector
\* names neither query nor round and earlier queries of the same client may
\* have been refused by all servers or by some.
OwnVectors == NoFault => RoundMatch

\* Between two queries the ring is empty: no vector on the wire or in a
\* mailbox, no thread asleep and no handler left, that the next query of the
\* client could meet.
CleanBetween ==
  NoFault /\ (\A q \in Queries : Asked(q) => Returned(q)) =>
    \A s \in Server :
      /\ wire[s] = {} /\ slot[s] = NoMsg /\ cqState[s] = "idle"
      /\ \A q \in Queries : handler[s][q] # "running"

\* A query is returned if the servers agree on it and no call fails.
EventuallyReturned ==
  \A q \in Queries :
    Asked(q) /\ Agreed(q) ~> Returned(q) \/ ~NoFault

=============================================================================
