---------------------------- MODULE EmpExchange ----------------------------
(***************************************************************************)
(* The share exchange over the EMP connections (USE_EMP), of one query     *)
(* that is asked once the servers are started.  Every exchange, each       *)
(* server writes its vector to the connection to its successor and reads   *)
(* as many bytes from the connection of its predecessor; server 0 reads    *)
(* first, the others write first.  A write blocks while the connection's   *)
(* buffers are full and a read takes whatever has arrived.                 *)
(*                                                                         *)
(* A unit is a part of a vector, tagged for the properties with its        *)
(* exchange; a byte stream has no tags and no action reads them.           *)
(***************************************************************************)
EXTENDS StartUp

CONSTANTS
  Rounds,    \* exchanges of the query
  Size,      \* Size[r]: units of a vector of exchange r
  Capacity   \* units that the buffers of one connection hold

Round == 1 .. Rounds

ASSUME EmpAssumption ==
  /\ Rounds \in Nat \ {0} /\ Capacity \in Nat \ {0}
  /\ Size \in [Round -> Nat \ {0}]

VARIABLES
  round,    \* round[s]: the exchange s is in; Rounds + 1 when it has answered
  half,     \* half[s]: which of the two transfers of the exchange
  moved,    \* moved[s]: units of the transfer that are done
  stream,   \* stream[s]: the units on the connection from s to its successor
  got       \* got[s][r]: the tags of the units read in exchange r

emp == <<round, half, moved, stream, got>>
vars == <<upVars, emp>>

Init ==
  /\ StartUpInit
  /\ round = [s \in Server |-> 1]
  /\ half = [s \in Server |-> 1]
  /\ moved = [s \in Server |-> 0]
  /\ stream = [s \in Server |-> <<>>]
  /\ got = [s \in Server |-> [r \in Round |-> {}]]

\* Mutant of Transfers: server 0 writes first too.
TransfersAlike(s) == <<"send", "recv">>

Transfers(s) == IF s = 0 THEN <<"recv", "send">> ELSE <<"send", "recv">>

\* The handler of the query runs at s and has come to transfer t.
At(s, t) ==
  /\ script = "started" /\ Alive(s)
  /\ round[s] \in Round
  /\ Transfers(s)[half[s]] = t

\* The transfer is complete: the next one, or the next exchange.
EndTransfer(s) ==
  /\ moved' = [moved EXCEPT ![s] = 0]
  /\ IF half[s] = 1
     THEN half' = [half EXCEPT ![s] = 2] /\ UNCHANGED round
     ELSE /\ half' = [half EXCEPT ![s] = 1]
          /\ round' = [round EXCEPT ![s] = @ + 1]

\* One more unit; send_data and recv_data go on until the last one.
Advance(s) ==
  IF moved[s] + 1 < Size[round[s]]
  THEN moved' = [moved EXCEPT ![s] = @ + 1] /\ UNCHANGED <<round, half>>
  ELSE EndTransfer(s)

SendData(s) ==
  /\ At(s, "send")
  /\ Len(stream[s]) < Capacity
  /\ stream' = [stream EXCEPT ![s] = Append(@, round[s])]
  /\ Advance(s)
  /\ UNCHANGED <<upVars, got>>

\* Mutant of RecvData: what one read returns is taken for the whole vector.
RecvOnce(s) ==
  /\ At(s, "recv")
  /\ stream[Pred(s)] # <<>>
  /\ got' = [got EXCEPT ![s][round[s]] = @ \cup {Head(stream[Pred(s)])}]
  /\ stream' = [stream EXCEPT ![Pred(s)] = Tail(@)]
  /\ EndTransfer(s)
  /\ UNCHANGED upVars

RecvData(s) ==
  /\ At(s, "recv")
  /\ stream[Pred(s)] # <<>>
  /\ got' = [got EXCEPT ![s][round[s]] = @ \cup {Head(stream[Pred(s)])}]
  /\ stream' = [stream EXCEPT ![Pred(s)] = Tail(@)]
  /\ Advance(s)
  /\ UNCHANGED upVars

Answered == \A s \in Server : round[s] > Rounds

Next ==
  \/ StartUpNext /\ UNCHANGED emp
  \/ \E s \in Server : SendData(s) \/ RecvData(s)

Spec == Init /\ [][Next]_vars

\* Processes run, connections deliver and the script goes on; no server has to
\* exit and the script's patience never has to end.
FairSpec ==
  /\ Spec
  /\ \A s \in Server :
       /\ WF_vars(Main(s) /\ UNCHANGED emp)
       /\ WF_vars(FinishSystemInit(s) /\ UNCHANGED emp)
       /\ WF_vars(ReadLog(s) /\ UNCHANGED emp)
       /\ WF_vars(SendData(s) \/ RecvData(s))
  /\ WF_vars((Started \/ NoticeExit) /\ UNCHANGED emp)

-----------------------------------------------------------------------------
(* Refinement of the abstract exchange.                                    *)

\* Server 0 has published a vector when it has read one and turns to writing,
\* the others when they have written the first unit.
Publishing(s) ==
  half[s] = 2 \/ (Transfers(s)[1] = "send" /\ moved[s] > 0)

publishedBar == [s \in Server |-> IF Publishing(s) THEN round[s] ELSE round[s] - 1]
finishedBar  == [s \in Server |-> round[s] - 1]
usedBar      == [s \in Server |-> [r \in Round |->
                  IF r < round[s] /\ got[s][r] = {r} THEN r ELSE 0]]

Abstract == INSTANCE RoundExchange WITH
  published <- publishedBar, finished <- finishedBar, used <- usedBar

\* Every exchange of the EMP ring is one of the abstract exchange: nothing is
\* read as a part of another exchange's vector, whatever the sizes and the
\* buffers.
EmpImplementsExchange == Abstract!Spec

\* The transfers never wait for each other in a cycle, although a vector may
\* be larger than the buffers: once started, the query is answered unless a
\* server has exited.
EventuallyAnswered == (script = "started" /\ exits = 0) ~> Answered

=============================================================================
