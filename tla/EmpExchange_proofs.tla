------------------------- MODULE EmpExchange_proofs -------------------------
(***************************************************************************)
(* The start of the servers, for every number of restarts and exits, and   *)
(* that the transfers over the EMP connections implement the round-by-     *)
(* round exchange, for every number of exchanges, size of their vectors    *)
(* and capacity of the connections.                                        *)
(***************************************************************************)
EXTENDS EmpExchange, TLAPS

-----------------------------------------------------------------------------
(* The inductive invariant of the start.                                   *)

\* A log line of s shows that its predecessor had connected the ring on
\* both sides and sent its key.
Logged ==
  /\ ready \subseteq log
  /\ script = "started" => ready = Server
  /\ \A s \in log : prfKey1[s] = Pred(s) /\ made[Pred(s)] = 2 /\ stub[Pred(s)]

\* A server that has sent its key has connected the ring on both sides.
Keyed ==
  \A s \in Server :
    /\ keyCall[s] # "none" => made[s] = 2 /\ stub[s]
    /\ main[s] = "connecting" => stub[s]

\* A connection that s has made outwards is on its successor's port, and a
\* port is open only at a server that serves calls, or has exited.
Connected ==
  \A s \in Server :
    /\ made[s] = 2 \/ (s = 0 /\ made[s] = 1) => port[Succ(s)] = "connected"
    /\ port[s] # "closed" => main[s] \in {"connecting", "calling", "joined", "exited"}

\* Servers exit by themselves or when the script gives up, and only a server
\* that has exited makes a call fail.
Exits ==
  /\ script = "failed" => \A s \in Server : main[s] = "exited"
  /\ exits = 0 => \A s \in Server :
       /\ main[s] = "exited" => script = "failed"
       /\ keyCall[s] # "failed"

UpInv == StartUpTypeOK /\ Logged /\ Keyed /\ Connected /\ Exits

\* Three servers in a ring.
LEMMA RingFacts ==
  /\ \A s \in Server : /\ Succ(s) \in Server /\ Succ(s) # s
                       /\ Pred(s) \in Server /\ Pred(s) # s
                       /\ Pred(Succ(s)) = s /\ Succ(Pred(s)) = s
  /\ \A s, t \in Server : Succ(s) = Succ(t) => s = t
<1>1. Server = {0, 1, 2}
  BY DEF Server, NumServers
<1>2. Succ(0) = 1 /\ Succ(1) = 2 /\ Succ(2) = 0
  BY DEF Succ, NumServers
<1>3. Pred(0) = 2 /\ Pred(1) = 0 /\ Pred(2) = 1
  BY DEF Pred, NumServers
<1> QED
  BY <1>1, <1>2, <1>3

\* Nothing has happened when the processes are new.
LEMMA LaunchedInv == StartUpInit => UpInv
<1> SUFFICES ASSUME StartUpInit
             PROVE  UpInv
  OBVIOUS
<1>1. StartUpTypeOK
  <2>1. stub \in [Server -> BOOLEAN]
    BY Zenon DEF StartUpInit, Launched
  <2>2. /\ main \in [Server -> MainState]
        /\ port \in [Server -> {"closed", "listening", "connected"}]
        /\ keyCall \in [Server -> {"none", "sent", "answered", "failed"}]
    BY DEF StartUpInit, Launched, MainState
  <2>3. made \in [Server -> 0 .. 2] /\ prfKey1 \in [Server -> Server \cup {NoKey}]
    BY DEF StartUpInit, Launched
  <2>4. /\ log \subseteq Server /\ ready \subseteq Server
        /\ script \in {"starting", "started", "failed"}
        /\ retries \in 0 .. Retries /\ exits \in 0 .. MaxExits
    BY StartUpAssumption DEF StartUpInit, Launched
  <2> QED
    BY <2>1, <2>2, <2>3, <2>4 DEF StartUpTypeOK
<1>2. Logged /\ Keyed /\ Connected /\ Exits
  BY DEF StartUpInit, Launched, Logged, Keyed, Connected, Exits
<1> QED
  BY <1>1, <1>2 DEF UpInv

\* The main thread builds the server, starts the CQ thread or creates the stub.
LEMMA BuildInv ==
  ASSUME UpInv, NEW s \in Server, Build(s) \/ StartCQ(s) \/ MakeStubs(s)
  PROVE  UpInv'
<1>1. /\ UNCHANGED <<made, port, keyCall, prfKey1, log, ready, script, retries, exits>>
      /\ \E to \in {"built", "waiting", "connecting"} : main' = [main EXCEPT ![s] = to]
      /\ main[s] \in {"launched", "built", "waiting"}
  BY DEF Build, StartCQ, MakeStubs, Step, runner
<1>2. /\ stub' \in [Server -> BOOLEAN]
      /\ \A t \in Server : stub[t] => stub'[t]
      /\ main'[s] = "connecting" => stub'[s]
  <2>1. CASE MakeStubs(s)
    <3>1. stub' = [stub EXCEPT ![s] = TRUE] /\ stub \in [Server -> BOOLEAN]
      BY <2>1 DEF MakeStubs, UpInv, StartUpTypeOK
    <3> QED
      BY <3>1
  <2>2. CASE Build(s) \/ StartCQ(s)
    <3>1. stub' = stub /\ stub \in [Server -> BOOLEAN]
      BY <2>2 DEF Build, StartCQ, UpInv, StartUpTypeOK
    <3>2. main'[s] # "connecting"
      BY <2>2 DEF Build, StartCQ, Step, UpInv, StartUpTypeOK
    <3> QED
      BY <3>1, <3>2
  <2> QED
    BY <2>1, <2>2
<1>3. StartUpTypeOK'
  <2>1. main' \in [Server -> MainState]
    BY <1>1 DEF UpInv, StartUpTypeOK, MainState
  <2>2. stub' \in [Server -> BOOLEAN]
    BY <1>2
  <2> QED
    BY <1>1, <2>1, <2>2, Zenon DEF UpInv, StartUpTypeOK
<1>4. Logged' /\ Keyed'
  BY <1>1, <1>2, RingFacts DEF UpInv, StartUpTypeOK, Logged, Keyed
<1>5. Connected' /\ Exits'
  BY <1>1, RingFacts DEF UpInv, StartUpTypeOK, Connected, Exits
<1> QED
  BY <1>3, <1>4, <1>5 DEF UpInv

\* NetIO listens, accepts or connects.
LEMMA ConnectInv ==
  ASSUME UpInv, NEW s \in Server, Listen(s) \/ Accept(s) \/ Connect(s)
  PROVE  UpInv'
<1>1. StartUpTypeOK'
  BY SMTT(30), RingFacts DEF Listen, Accept, Connect, Making, runner, UpInv, StartUpTypeOK
<1>2. Logged' /\ Keyed' /\ Exits'
  BY RingFacts
     DEF Listen, Accept, Connect, Making, runner, UpInv, StartUpTypeOK, Logged, Keyed, Exits
<1>3. Connected'
  BY RingFacts
     DEF Listen, Accept, Connect, Making, Connections, runner, UpInv, StartUpTypeOK, MainState,
         Connected, Alive
<1> QED
  BY <1>1, <1>2, <1>3 DEF UpInv

\* The key is sent to a successor whose port is connected and that is up.
LEMMA SendKeyInv ==
  ASSUME UpInv, NEW s \in Server, SendKey(s) \/ Join(s)
  PROVE  UpInv'
<1>1. SendKey(s) /\ exits = 0 => GrpcUp(Succ(s))
  BY RingFacts DEF SendKey, Step, GrpcUp, UpInv, StartUpTypeOK, Connected, Exits
<1>2. StartUpTypeOK'
  BY DEF SendKey, Join, Step, runner, UpInv, StartUpTypeOK, MainState
<1>3. Logged' /\ Keyed' /\ Connected'
  BY RingFacts
     DEF SendKey, Join, Step, runner, UpInv, StartUpTypeOK, Logged, Keyed, Connected
<1>4. Exits'
  BY <1>1 DEF SendKey, Join, Step, runner, UpInv, StartUpTypeOK, Exits
<1> QED
  BY <1>2, <1>3, <1>4 DEF UpInv

\* The key arrives: whoever sent it was ready.
LEMMA FinishInv ==
  ASSUME UpInv, NEW s \in Server, FinishSystemInit(s)
  PROVE  UpInv'
  BY RingFacts
     DEF FinishSystemInit, runner, UpInv, StartUpTypeOK, Logged, Keyed, Connected, Exits

\* After an exit nothing is promised that rests on exits = 0.
LEMMA ExitInv ==
  ASSUME UpInv, NEW s \in Server, Exit(s)
  PROVE  UpInv'
<1>1. exits' = exits + 1 /\ exits' # 0 /\ exits' \in 0 .. MaxExits
  BY StartUpAssumption DEF Exit, UpInv, StartUpTypeOK
<1>2. \A t \in Server : keyCall'[t] \in {keyCall[t], "none", "failed"}
                        /\ (keyCall'[t] # "none" => keyCall[t] # "none")
  BY DEF Exit, UpInv, StartUpTypeOK
<1>3. keyCall' \in [Server -> {"none", "sent", "answered", "failed"}]
  BY DEF Exit, UpInv, StartUpTypeOK
<1>4. StartUpTypeOK'
  BY <1>1, <1>3 DEF Exit, runner, UpInv, StartUpTypeOK, MainState
<1>5. Logged' /\ Connected'
  BY RingFacts DEF Exit, runner, UpInv, StartUpTypeOK, Logged, Connected
<1>6. Keyed'
  BY <1>2 DEF Exit, runner, UpInv, StartUpTypeOK, Keyed
<1>7. Exits'
  BY <1>1 DEF Exit, runner, UpInv, StartUpTypeOK, Exits
<1> QED
  BY <1>4, <1>5, <1>6, <1>7 DEF UpInv

\* The script reads logs and lets queries in.
LEMMA ScriptInv ==
  ASSUME UpInv, (\E s \in Server : ReadLog(s)) \/ Started
  PROVE  UpInv'
  BY DEF ReadLog, Started, AllReady, servers, UpInv, StartUpTypeOK, Logged, Keyed, Connected, Exits

\* Starting again puts everything back, giving up leaves nobody running.
LEMMA RestartInv ==
  ASSUME UpInv, Restart
  PROVE  UpInv'
<1>1. CASE retries < Retries
  <2>1. StartUpTypeOK'
    <3>1. stub' \in [Server -> BOOLEAN]
      BY <1>1, Zenon DEF Restart
    <3>2. /\ main' \in [Server -> MainState]
          /\ port' \in [Server -> {"closed", "listening", "connected"}]
          /\ keyCall' \in [Server -> {"none", "sent", "answered", "failed"}]
      BY <1>1 DEF Restart, MainState
    <3>3. made' \in [Server -> 0 .. 2] /\ prfKey1' \in [Server -> Server \cup {NoKey}]
      BY <1>1 DEF Restart
    <3>4. /\ log' \subseteq Server /\ ready' \subseteq Server
          /\ script' \in {"starting", "started", "failed"}
          /\ retries' \in 0 .. Retries /\ exits' \in 0 .. MaxExits
      BY <1>1, StartUpAssumption DEF Restart, UpInv, StartUpTypeOK
    <3> QED
      BY <3>1, <3>2, <3>3, <3>4 DEF StartUpTypeOK
  <2>2. Logged' /\ Keyed' /\ Connected' /\ Exits'
    BY <1>1 DEF Restart, UpInv, StartUpTypeOK, Logged, Keyed, Connected, Exits
  <2> QED
    BY <2>1, <2>2 DEF UpInv
<1>2. CASE ~ (retries < Retries)
  BY <1>2 DEF Restart, UpInv, StartUpTypeOK, MainState, Logged, Keyed, Connected, Exits
<1> QED
  BY <1>1, <1>2

\* Every step of the servers and of the script keeps the invariant, and the
\* steps of a query leave the start alone.
LEMMA UpInvCorrect == Spec => []UpInv
<1>1. Init => UpInv
  BY LaunchedInv DEF Init
<1>2. UpInv /\ [Next]_vars => UpInv'
  <2> SUFFICES ASSUME UpInv, [Next]_vars
               PROVE  UpInv'
    OBVIOUS
  <2>1. ASSUME StartUpNext
        PROVE  UpInv'
    BY <2>1, BuildInv, ConnectInv, SendKeyInv, FinishInv, ExitInv, ScriptInv, RestartInv
       DEF StartUpNext, Main, NoticeExit, TimeOut
  <2>2. ASSUME UNCHANGED upVars
        PROVE  UpInv'
    BY <2>2
       DEF upVars, servers, runner, UpInv, StartUpTypeOK, Logged, Keyed, Connected, Exits
  <2> QED
    BY <2>1, <2>2 DEF Next, SendData, RecvData, vars
<1> QED
  BY <1>1, <1>2, PTL DEF Spec

\* The variables of the start have their types.
THEOREM StartUpTyped == Spec => []StartUpTypeOK
<1>1. UpInv => StartUpTypeOK
  BY DEF UpInv
<1> QED
  BY <1>1, UpInvCorrect, PTL

\* The one SendSystemInit call of a server never fails while all are up: the
\* connection made before it shows that the successor answers.
THEOREM KeyAlwaysReaches == Spec => []KeyReachesPeer
<1>1. UpInv => KeyReachesPeer
  BY DEF UpInv, Exits, KeyReachesPeer
<1> QED
  BY <1>1, UpInvCorrect, PTL

\* When the script lets queries in, every server has its predecessor's key,
\* its stub and both connections: all three logs together show it.
THEOREM StartedAlwaysReady == Spec => []StartedIsReady
<1>1. UpInv => StartedIsReady
  BY RingFacts DEF UpInv, Logged, StartedIsReady
<1> QED
  BY <1>1, UpInvCorrect, PTL

-----------------------------------------------------------------------------
(* The inductive invariant.                                                *)

EmpTypeOK ==
  /\ round \in [Server -> 1 .. Rounds + 1]
  /\ half \in [Server -> {1, 2}]
  /\ moved \in [Server -> Nat]
  /\ stream \in [Server -> Seq(Round)]
  /\ got \in [Server -> [Round -> SUBSET Round]]
  /\ \A s \in Server :
       /\ round[s] \in Round => moved[s] < Size[round[s]]
       /\ round[s] \notin Round => moved[s] = 0 /\ half[s] = 1

\* Units of its current exchange that s has written and read.  Server 0 reads
\* in the first half, the others write.
Sent(s) ==
  IF s = 0 THEN (IF half[s] = 1 THEN 0 ELSE moved[s])
           ELSE (IF half[s] = 1 THEN moved[s] ELSE Size[round[s]])
Received(s) ==
  IF s = 0 THEN (IF half[s] = 1 THEN moved[s] ELSE Size[round[s]])
           ELSE (IF half[s] = 1 THEN 0 ELSE moved[s])

\* Units of exchange r that s has written and read.
Written(s, r) ==
  IF r < round[s] THEN Size[r] ELSE IF r = round[s] THEN Sent(s) ELSE 0
Read(s, r) ==
  IF r < round[s] THEN Size[r] ELSE IF r = round[s] THEN Received(s) ELSE 0

\* The connection from s holds, in the order of the exchanges, what has been
\* written to it and not read: those of exchange r end at position cut[r].
Pipe(s, cut) ==
  /\ cut[0] = 0 /\ cut[Rounds] = Len(stream[s])
  /\ \A q, x \in 0 .. Rounds : q <= x => cut[q] <= cut[x]
  /\ \A r \in Round :
       /\ cut[r] - cut[r - 1] = Written(s, r) - Read(Succ(s), r)
       /\ \A i \in Nat : cut[r - 1] < i /\ i <= cut[r] => stream[s][i] = r
       /\ Read(Succ(s), r) = Size[r] => cut[r] = 0
       /\ r >= round[s] => cut[r] = Len(stream[s])

Pipes == \A s \in Server : \E cut \in [0 .. Rounds -> Nat] : Pipe(s, cut)

\* What has been read as a part of exchange r is a part of exchange r.
ReadRight ==
  \A s \in Server, r \in Round : got[s][r] = IF Read(s, r) > 0 THEN {r} ELSE {}

EmpInv == EmpTypeOK /\ Pipes /\ ReadRight

\* A vector has at least one unit.
LEMMA SizeFact == \A r \in Round : Size[r] \in Int /\ Size[r] > 0 /\ r \in Int /\ r > 0
  BY EmpAssumption DEF Round

\* An exchange is written and read up to its size, completely when the server
\* is past it and not at all before.
LEMMA CountFacts ==
  ASSUME EmpTypeOK, NEW s \in Server, NEW r \in Round
  PROVE  /\ Written(s, r) \in Int /\ 0 <= Written(s, r) /\ Written(s, r) <= Size[r]
         /\ Read(s, r) \in Int /\ 0 <= Read(s, r) /\ Read(s, r) <= Size[r]
         /\ r < round[s] => Written(s, r) = Size[r] /\ Read(s, r) = Size[r]
         /\ r > round[s] => Written(s, r) = 0 /\ Read(s, r) = 0
<1>1. /\ round[s] \in Int /\ moved[s] \in Nat /\ r \in Int /\ Size[r] \in Int /\ Size[r] > 0
  BY SizeFact, EmpAssumption DEF EmpTypeOK
<1>2. r = round[s] => moved[s] < Size[r]
  BY DEF EmpTypeOK
<1>3. r = round[s] => /\ Sent(s) \in {0, moved[s], Size[r]}
                      /\ Received(s) \in {0, moved[s], Size[r]}
  BY DEF Sent, Received
<1> QED
  BY <1>1, <1>2, <1>3 DEF Written, Read

\* Nothing has been transferred at first.
LEMMA EmpInitInv ==
  ASSUME Init
  PROVE  EmpInv
<1>1. EmpTypeOK
  BY EmpAssumption DEF Init, EmpTypeOK, Round
<1>2. ASSUME NEW s \in Server, NEW r \in Round
      PROVE  Written(s, r) = 0 /\ Read(s, r) = 0
  BY SizeFact DEF Init, Written, Read, Sent, Received
<1>3. Pipes
  <2> SUFFICES ASSUME NEW s \in Server
               PROVE  \E cut \in [0 .. Rounds -> Nat] : Pipe(s, cut)
    BY DEF Pipes
  <2> DEFINE cut == [r \in 0 .. Rounds |-> 0]
  <2>1. cut \in [0 .. Rounds -> Nat]
    OBVIOUS
  <2>2. stream[s] = <<>> /\ Len(stream[s]) = 0 /\ Rounds \in Nat
    BY EmpAssumption DEF Init
  <2>3. \A r \in 0 .. Rounds : cut[r] = 0
    OBVIOUS
  <2>4. \A r \in Round : r \in 0 .. Rounds /\ r - 1 \in 0 .. Rounds
    BY <2>2 DEF Round
  <2>5. \A r \in Round : Written(s, r) = 0 /\ Read(Succ(s), r) = 0
    BY <1>2, RingFacts
  <2> HIDE DEF cut
  <2>6. Pipe(s, cut)
    BY <2>2, <2>3, <2>4, <2>5 DEF Pipe
  <2> QED
    BY <2>1, <2>6
<1>4. ReadRight
  BY <1>2 DEF Init, ReadRight
<1> QED
  BY <1>1, <1>3, <1>4 DEF EmpInv

-----------------------------------------------------------------------------
(* What a transfer changes.                                                *)

\* Which transfer a server is in.
LEMMA TransferFacts ==
  ASSUME EmpTypeOK, NEW s \in Server
  PROVE  /\ At(s, "send") => round[s] \in Round /\ half[s] = (IF s = 0 THEN 2 ELSE 1)
         /\ At(s, "recv") => round[s] \in Round /\ half[s] = (IF s = 0 THEN 1 ELSE 2)
         /\ Transfers(s)[1] = "send" <=> s # 0
  BY DEF At, Transfers, EmpTypeOK

\* One more unit: the next half or the next exchange begins after the last.
LEMMA AdvanceFacts ==
  ASSUME EmpTypeOK, NEW s \in Server, round[s] \in Round, Advance(s)
  PROVE  /\ \A t \in Server \ {s} :
              round'[t] = round[t] /\ half'[t] = half[t] /\ moved'[t] = moved[t]
         /\ \/ /\ moved[s] + 1 < Size[round[s]]
               /\ moved'[s] = moved[s] + 1 /\ half'[s] = half[s] /\ round'[s] = round[s]
            \/ /\ moved[s] + 1 = Size[round[s]] /\ moved'[s] = 0
               /\ half[s] = 1 /\ half'[s] = 2 /\ round'[s] = round[s]
            \/ /\ moved[s] + 1 = Size[round[s]] /\ moved'[s] = 0
               /\ half[s] = 2 /\ half'[s] = 1 /\ round'[s] = round[s] + 1
         /\ round' \in [Server -> 1 .. Rounds + 1]
         /\ half' \in [Server -> {1, 2}]
         /\ moved' \in [Server -> Nat]
         /\ \A t \in Server :
              /\ round'[t] \in Round => moved'[t] < Size[round'[t]]
              /\ round'[t] \notin Round => moved'[t] = 0 /\ half'[t] = 1
<1>1. /\ Size[round[s]] \in Int /\ Size[round[s]] > 0 /\ moved[s] \in Nat
      /\ moved[s] < Size[round[s]] /\ round[s] \in Int /\ round[s] + 1 \in 1 .. Rounds + 1
      /\ half[s] \in {1, 2}
  BY SizeFact, EmpAssumption DEF EmpTypeOK, Round
<1>2. /\ round \in [Server -> 1 .. Rounds + 1] /\ half \in [Server -> {1, 2}]
      /\ moved \in [Server -> Nat]
      /\ \A t \in Server :
           /\ round[t] \in Round => moved[t] < Size[round[t]]
           /\ round[t] \notin Round => moved[t] = 0 /\ half[t] = 1
  BY DEF EmpTypeOK
<1>3. CASE moved[s] + 1 < Size[round[s]]
  <2>1. moved' = [moved EXCEPT ![s] = moved[s] + 1] /\ half' = half /\ round' = round
    BY <1>3 DEF Advance
  <2> QED
    BY <1>1, <1>2, <1>3, <2>1
<1>4. CASE ~ (moved[s] + 1 < Size[round[s]])
  <2>1. moved' = [moved EXCEPT ![s] = 0] /\ moved[s] + 1 = Size[round[s]]
    BY <1>1, <1>4 DEF Advance, EndTransfer
  <2>2. CASE half[s] = 1
    <3>1. half' = [half EXCEPT ![s] = 2] /\ round' = round
      BY <1>4, <2>2 DEF Advance, EndTransfer
    <3> QED
      BY <1>1, <1>2, <2>1, <2>2, <3>1
  <2>3. CASE half[s] # 1
    <3>1. half' = [half EXCEPT ![s] = 1] /\ round' = [round EXCEPT ![s] = round[s] + 1]
      BY <1>4, <2>3 DEF Advance, EndTransfer
    <3>2. round'[s] \in Round => 0 < Size[round'[s]]
      BY SizeFact
    <3>3. half[s] = 2
      BY <1>1, <2>3
    <3> HIDE DEF Round
    <3> QED
      BY <1>1, <1>2, <2>1, <3>1, <3>2, <3>3
  <2> QED
    BY <2>2, <2>3
<1> QED
  BY <1>3, <1>4

\* No server ever goes back to an earlier exchange.
LEMMA RoundGrows ==
  ASSUME EmpTypeOK, NEW s \in Server, round[s] \in Round, Advance(s), NEW t \in Server
  PROVE  round'[t] \in Int /\ round[t] \in Int /\ round'[t] >= round[t]
<1>1. round[t] \in Int
  BY EmpAssumption DEF EmpTypeOK
<1>2. round'[t] \in {round[t], round[t] + 1}
  BY AdvanceFacts
<1> QED
  BY <1>1, <1>2

\* SendData writes a unit of the server's exchange.
LEMMA SendFacts ==
  ASSUME EmpTypeOK, NEW s \in Server, SendData(s)
  PROVE  /\ EmpTypeOK' /\ round[s] \in Round /\ got' = got
         /\ stream' = [stream EXCEPT ![s] = Append(stream[s], round[s])]
         /\ Written(s, round[s]) < Size[round[s]]
         /\ \A t \in Server : round'[t] \in Int /\ round[t] \in Int /\ round'[t] >= round[t]
         /\ \A t \in Server, r \in Round :
              /\ Written(t, r)' = IF t = s /\ r = round[s] THEN Written(t, r) + 1
                                                          ELSE Written(t, r)
              /\ Read(t, r)' = Read(t, r)
<1>1. /\ At(s, "send") /\ Advance(s) /\ got' = got
      /\ stream' = [stream EXCEPT ![s] = Append(stream[s], round[s])]
  BY DEF SendData
<1>2. round[s] \in Round /\ half[s] = (IF s = 0 THEN 2 ELSE 1)
  BY <1>1, TransferFacts
<1>3. stream' \in [Server -> Seq(Round)]
  BY <1>1, <1>2 DEF EmpTypeOK
<1>4. EmpTypeOK'
  BY <1>1, <1>2, <1>3, AdvanceFacts DEF EmpTypeOK
<1>5. \A t \in Server : round'[t] \in Int /\ round[t] \in Int /\ round'[t] >= round[t]
  BY <1>1, <1>2, RoundGrows
<1>6. /\ Size[round[s]] \in Int /\ Size[round[s]] > 0 /\ moved[s] \in Nat
      /\ moved[s] < Size[round[s]]
  BY <1>2, SizeFact DEF EmpTypeOK
<1>7. Written(s, round[s]) < Size[round[s]]
  BY <1>2, <1>5, <1>6 DEF Written, Sent
<1>8. ASSUME NEW t \in Server, NEW r \in Round, t # s
      PROVE  Written(t, r)' = Written(t, r) /\ Read(t, r)' = Read(t, r)
  BY <1>1, <1>2, <1>8, AdvanceFacts DEF Written, Read, Sent, Received
<1>9. ASSUME NEW r \in Round
      PROVE  /\ Written(s, r)' = IF r = round[s] THEN Written(s, r) + 1 ELSE Written(s, r)
             /\ Read(s, r)' = Read(s, r)
  <2>1. r \in Int /\ Size[r] \in Int /\ moved[s] \in Int
    BY SizeFact, <1>6
  <2>2. CASE moved[s] + 1 < Size[round[s]] /\ moved'[s] = moved[s] + 1
             /\ half'[s] = half[s] /\ round'[s] = round[s]
    BY <1>2, <1>5, <1>6, <2>1, <2>2 DEF Written, Read, Sent, Received
  <2>3. CASE moved[s] + 1 = Size[round[s]] /\ moved'[s] = 0
             /\ half[s] = 1 /\ half'[s] = 2 /\ round'[s] = round[s]
    BY <1>2, <1>5, <1>6, <2>1, <2>3 DEF Written, Read, Sent, Received
  <2>4. CASE moved[s] + 1 = Size[round[s]] /\ moved'[s] = 0
             /\ half[s] = 2 /\ half'[s] = 1 /\ round'[s] = round[s] + 1
    BY <1>2, <1>5, <1>6, <2>1, <2>4 DEF Written, Read, Sent, Received
  <2> QED
    BY <1>1, <1>2, <2>2, <2>3, <2>4, AdvanceFacts
<1> QED
  BY <1>1, <1>2, <1>4, <1>5, <1>7, <1>8, <1>9

\* RecvData reads a unit of whatever comes first.
LEMMA RecvFacts ==
  ASSUME EmpTypeOK, NEW s \in Server, RecvData(s)
  PROVE  /\ EmpTypeOK' /\ round[s] \in Round /\ stream[Pred(s)] # <<>>
         /\ stream' = [stream EXCEPT ![Pred(s)] = Tail(stream[Pred(s)])]
         /\ got' = [got EXCEPT ![s][round[s]] = got[s][round[s]] \cup {Head(stream[Pred(s)])}]
         /\ Read(s, round[s]) < Size[round[s]]
         /\ \A t \in Server : round'[t] \in Int /\ round[t] \in Int /\ round'[t] >= round[t]
         /\ \A t \in Server, r \in Round :
              /\ Read(t, r)' = IF t = s /\ r = round[s] THEN Read(t, r) + 1 ELSE Read(t, r)
              /\ Written(t, r)' = Written(t, r)
<1>1. /\ At(s, "recv") /\ Advance(s) /\ stream[Pred(s)] # <<>>
      /\ stream' = [stream EXCEPT ![Pred(s)] = Tail(stream[Pred(s)])]
      /\ got' = [got EXCEPT ![s][round[s]] = got[s][round[s]] \cup {Head(stream[Pred(s)])}]
  BY DEF RecvData
<1>2. round[s] \in Round /\ half[s] = (IF s = 0 THEN 1 ELSE 2)
  BY <1>1, TransferFacts
<1>3. stream' \in [Server -> Seq(Round)] /\ got' \in [Server -> [Round -> SUBSET Round]]
  <2>1. /\ stream[Pred(s)] \in Seq(Round) /\ Head(stream[Pred(s)]) \in Round
        /\ Tail(stream[Pred(s)]) \in Seq(Round)
    <3>1. stream[Pred(s)] \in Seq(Round)
      BY RingFacts DEF EmpTypeOK
    <3> QED
      BY <1>1, <3>1
  <2> QED
    BY <1>1, <1>2, <2>1 DEF EmpTypeOK
<1>4. EmpTypeOK'
  BY <1>1, <1>2, <1>3, AdvanceFacts DEF EmpTypeOK
<1>5. \A t \in Server : round'[t] \in Int /\ round[t] \in Int /\ round'[t] >= round[t]
  BY <1>1, <1>2, RoundGrows
<1>6. /\ Size[round[s]] \in Int /\ Size[round[s]] > 0 /\ moved[s] \in Nat
      /\ moved[s] < Size[round[s]]
  BY <1>2, SizeFact DEF EmpTypeOK
<1>7. Read(s, round[s]) < Size[round[s]]
  BY <1>2, <1>5, <1>6 DEF Read, Received
<1>8. ASSUME NEW t \in Server, NEW r \in Round, t # s
      PROVE  Written(t, r)' = Written(t, r) /\ Read(t, r)' = Read(t, r)
  BY <1>1, <1>2, <1>8, AdvanceFacts DEF Written, Read, Sent, Received
<1>9. ASSUME NEW r \in Round
      PROVE  /\ Read(s, r)' = IF r = round[s] THEN Read(s, r) + 1 ELSE Read(s, r)
             /\ Written(s, r)' = Written(s, r)
  <2>1. r \in Int /\ Size[r] \in Int /\ moved[s] \in Int
    BY SizeFact, <1>6
  <2>2. CASE moved[s] + 1 < Size[round[s]] /\ moved'[s] = moved[s] + 1
             /\ half'[s] = half[s] /\ round'[s] = round[s]
    BY <1>2, <1>5, <1>6, <2>1, <2>2 DEF Written, Read, Sent, Received
  <2>3. CASE moved[s] + 1 = Size[round[s]] /\ moved'[s] = 0
             /\ half[s] = 1 /\ half'[s] = 2 /\ round'[s] = round[s]
    BY <1>2, <1>5, <1>6, <2>1, <2>3 DEF Written, Read, Sent, Received
  <2>4. CASE moved[s] + 1 = Size[round[s]] /\ moved'[s] = 0
             /\ half[s] = 2 /\ half'[s] = 1 /\ round'[s] = round[s] + 1
    BY <1>2, <1>5, <1>6, <2>1, <2>4 DEF Written, Read, Sent, Received
  <2> QED
    BY <1>1, <1>2, <2>2, <2>3, <2>4, AdvanceFacts
<1> QED
  BY <1>1, <1>2, <1>4, <1>5, <1>7, <1>8, <1>9

-----------------------------------------------------------------------------
(* Each transfer preserves the inductive invariant.                        *)

\* The positions in a connection.
LEMMA CutFacts ==
  /\ Rounds \in Nat /\ Rounds > 0 /\ 0 \in 0 .. Rounds /\ Rounds \in Round
  /\ \A r \in Round : r \in 0 .. Rounds /\ r - 1 \in 0 .. Rounds /\ r \in Int /\ r > 0
  BY EmpAssumption DEF Round

\* A unit that is written goes to the end of the writer's connection.
LEMMA SendPipe ==
  ASSUME EmpInv, NEW s \in Server, SendData(s), NEW cut \in [0 .. Rounds -> Nat],
         Pipe(s, cut)
  PROVE  \E new \in [0 .. Rounds -> Nat] : Pipe(s, new)'
<1>1. PICK R : R = round[s]
  OBVIOUS
<1>2. PICK len : len = Len(stream[s])
  OBVIOUS
<1>3. PICK new : new = [r \in 0 .. Rounds |-> IF r >= R THEN cut[r] + 1 ELSE cut[r]]
  OBVIOUS
<1>4. EmpTypeOK /\ s \in Server /\ Succ(s) \in Server /\ R \in Round /\ R \in Int
  BY <1>1, SendFacts, RingFacts, CutFacts DEF EmpInv
<1>5. /\ len \in Nat /\ Len(stream'[s]) = len + 1 /\ stream'[s][len + 1] = R
      /\ \A i \in 1 .. len : stream'[s][i] = stream[s][i]
  <2>1. stream[s] \in Seq(Round)
    BY <1>4 DEF EmpTypeOK
  <2>2. stream'[s] = Append(stream[s], R)
    BY <1>1, <1>4, SendFacts DEF EmpTypeOK
  <2> QED
    BY <1>2, <1>4, <2>1, <2>2
<1>6. \A r \in 0 .. Rounds :
        /\ r \in Int /\ cut[r] \in Int /\ new[r] \in Nat
        /\ r >= R => new[r] = cut[r] + 1
        /\ r < R => new[r] = cut[r]
  BY <1>3, <1>4
<1>7. \A r \in Round :
        /\ r = R => Written(s, r)' = Written(s, r) + 1
        /\ r # R => Written(s, r)' = Written(s, r)
        /\ Read(Succ(s), r)' = Read(Succ(s), r)
        /\ Written(s, r) \in Int /\ Read(Succ(s), r) \in Int /\ Read(Succ(s), r) >= 0
        /\ r > R => Written(s, r) = 0
        /\ r >= R => Written(s, r) < Size[r]
  <2> TAKE r \in Round
  <2>1. /\ Written(s, r)' = IF r = R THEN Written(s, r) + 1 ELSE Written(s, r)
        /\ Read(Succ(s), r)' = Read(Succ(s), r)
    BY <1>1, <1>4, SendFacts
  <2>2. /\ Written(s, r) \in Int /\ r > R => Written(s, r) = 0
    BY <1>1, <1>4, CountFacts
  <2>3. Read(Succ(s), r) \in Int /\ Read(Succ(s), r) >= 0
    BY <1>4, CountFacts
  <2>4. Written(s, R) < Size[R]
    BY <1>1, <1>4, SendFacts
  <2>5. r \in Int /\ Size[r] \in Int /\ Size[r] > 0
    BY SizeFact
  <2>6. r >= R => r = R \/ r > R
    BY <1>4, <2>5
  <2>7. Written(s, r) \in Int
    BY <1>4, CountFacts
  <2> QED
    BY <2>1, <2>2, <2>3, <2>4, <2>5, <2>6, <2>7
<1>8. round'[s] \in Int /\ round'[s] >= R
  BY <1>1, <1>4, SendFacts
<1>9. /\ cut[0] = 0 /\ cut[Rounds] = len
      /\ \A q, x \in 0 .. Rounds : q <= x => cut[q] <= cut[x]
  BY <1>2 DEF Pipe
<1>10. \A r \in Round :
         /\ cut[r] - cut[r - 1] = Written(s, r) - Read(Succ(s), r)
         /\ \A i \in Nat : cut[r - 1] < i /\ i <= cut[r] => stream[s][i] = r
         /\ Read(Succ(s), r) = Size[r] => cut[r] = 0
         /\ r >= R => cut[r] = len
  BY <1>1, <1>2 DEF Pipe
<1>11. new[0] = 0 /\ new[Rounds] = len + 1
  <2>1. 0 < R /\ R <= Rounds
    BY <1>4, EmpAssumption DEF Round
  <2> QED
    BY <1>6, <1>9, <2>1, CutFacts
<1>12. \A q, x \in 0 .. Rounds : q <= x => new[q] <= new[x]
  <2> SUFFICES ASSUME NEW q \in 0 .. Rounds, NEW x \in 0 .. Rounds, q <= x
               PROVE  new[q] <= new[x]
    OBVIOUS
  <2>1. cut[q] <= cut[x]
    BY <1>9
  <2>2. x < R => q < R
    BY <1>4, <1>6
  <2> QED
    BY <1>4, <1>6, <2>1, <2>2
<1>13. ASSUME NEW r \in Round
       PROVE  /\ new[r] - new[r - 1] = Written(s, r)' - Read(Succ(s), r)'
              /\ \A i \in Nat : new[r - 1] < i /\ i <= new[r] => stream'[s][i] = r
              /\ Read(Succ(s), r)' = Size[r] => new[r] = 0
              /\ r >= round'[s] => new[r] = len + 1
  <2>1. /\ r \in Int /\ r > 0 /\ r - 1 \in 0 .. Rounds /\ r \in 0 .. Rounds
        /\ cut[r] \in Nat /\ cut[r - 1] \in Nat
    BY CutFacts
  <2>2. cut[r - 1] <= cut[r] /\ cut[r] <= len
    BY <1>9, <2>1, CutFacts, EmpAssumption
  <2>3. /\ r < R => new[r] = cut[r] /\ new[r - 1] = cut[r - 1]
        /\ r = R => new[r] = cut[r] + 1 /\ new[r - 1] = cut[r - 1] /\ cut[r] = len
        /\ r > R => /\ new[r] = cut[r] + 1 /\ new[r - 1] = cut[r - 1] + 1
                    /\ cut[r] = len /\ cut[r - 1] = len
    <3>1. r > R => cut[r] = cut[r - 1]
      BY <1>7, <1>10, <2>1, <2>2
    <3> QED
      BY <1>4, <1>6, <1>10, <2>1, <3>1
  <2>4. new[r] - new[r - 1] = Written(s, r)' - Read(Succ(s), r)'
    <3>1. cut[r] - cut[r - 1] = Written(s, r) - Read(Succ(s), r)
      BY <1>10
    <3> QED
      BY <1>4, <1>7, <2>1, <2>3, <3>1
  <2>5. ASSUME NEW i \in Nat, new[r - 1] < i, i <= new[r]
        PROVE  stream'[s][i] = r
    <3>1. CASE i <= len
      <4>1. cut[r - 1] < i /\ i <= cut[r]
        BY <1>4, <1>5, <2>1, <2>3, <2>5, <3>1
      <4>2. stream[s][i] = r
        BY <1>10, <4>1
      <4>3. i \in 1 .. len
        BY <1>5, <2>1, <3>1, <4>1
      <4> QED
        BY <1>5, <4>2, <4>3
    <3>2. CASE i > len
      <4>1. i = len + 1 /\ r = R
        BY <1>4, <1>5, <2>1, <2>2, <2>3, <2>5, <3>2
      <4> QED
        BY <1>5, <4>1
    <3> QED
      BY <1>5, <3>1, <3>2
  <2>6. ASSUME Read(Succ(s), r)' = Size[r]
        PROVE  new[r] = 0
    <3>1. Read(Succ(s), r) = Size[r] /\ Size[r] \in Int /\ cut[r] = 0
      BY <1>7, <1>10, <2>6, SizeFact
    <3>2. cut[r] - cut[r - 1] = Written(s, r) - Read(Succ(s), r)
      BY <1>10
    <3>3. ~ (r >= R)
      BY <1>7, <2>1, <2>2, <3>1, <3>2
    <3> QED
      BY <1>4, <2>1, <2>3, <3>1, <3>3
  <2>7. r >= round'[s] => new[r] = len + 1
    BY <1>4, <1>8, <2>1, <2>3
  <2> QED
    BY <2>4, <2>5, <2>6, <2>7
<1>14. Pipe(s, new)'
  BY <1>5, <1>11, <1>12, <1>13 DEF Pipe
<1>15. new \in [0 .. Rounds -> Nat]
  BY <1>3, <1>6
<1> QED
  BY <1>14, <1>15

\* The first unit in the connection is one of the exchange its reader is in.
LEMMA HeadFact ==
  ASSUME EmpInv, NEW s \in Server, RecvData(s), NEW cut \in [0 .. Rounds -> Nat],
         Pipe(Pred(s), cut)
  PROVE  /\ cut[round[s] - 1] = 0 /\ cut[round[s]] > 0
         /\ Head(stream[Pred(s)]) = round[s] /\ Len(stream[Pred(s)]) > 0
<1>1. PICK R : R = round[s]
  OBVIOUS
<1>2. PICK p : p = Pred(s)
  OBVIOUS
<1>3. /\ EmpTypeOK /\ p \in Server /\ Succ(p) = s /\ R \in Round /\ R \in Int /\ R > 0
      /\ R \in 0 .. Rounds /\ R - 1 \in 0 .. Rounds
  BY <1>1, <1>2, RecvFacts, RingFacts, CutFacts DEF EmpInv
<1>4. stream[p] \in Seq(Round) /\ stream[p] # <<>>
  BY <1>2, <1>3, RecvFacts DEF EmpTypeOK
<1>5. Len(stream[p]) \in Nat /\ Len(stream[p]) > 0 /\ Head(stream[p]) = stream[p][1]
  BY <1>4
<1>6. cut[R - 1] = 0
  <2>1. CASE R = 1
    BY <1>2, <2>1 DEF Pipe
  <2>2. CASE R # 1
    <3>1. R - 1 \in Round /\ R - 1 < R
      BY <1>3, <2>2, EmpAssumption DEF Round
    <3>2. Read(s, R - 1) = Size[R - 1]
      BY <1>1, <1>3, <3>1, CountFacts
    <3> QED
      BY <1>2, <1>3, <3>1, <3>2 DEF Pipe
  <2> QED
    BY <2>1, <2>2
<1>7. cut[R] > 0
  <2>1. CASE round[p] <= R
    <3>1. cut[R] = Len(stream[p])
      <4>1. round[p] \in Int
        BY <1>3, EmpAssumption DEF EmpTypeOK
      <4> QED
        BY <1>2, <1>3, <2>1, <4>1 DEF Pipe
    <3> QED
      BY <1>5, <3>1
  <2>2. CASE ~ (round[p] <= R)
    <3>1. round[p] \in Int
      BY <1>3, EmpAssumption DEF EmpTypeOK
    <3>2. Written(p, R) = Size[R]
      BY <1>3, <2>2, <3>1, CountFacts
    <3>3. Read(s, R) < Size[R] /\ Read(s, R) \in Int /\ Size[R] \in Int
      BY <1>1, <1>3, RecvFacts, CountFacts, SizeFact
    <3>4. cut[R] - cut[R - 1] = Written(p, R) - Read(s, R)
      BY <1>2, <1>3 DEF Pipe
    <3>5. cut[R] \in Nat
      BY <1>3
    <3> QED
      BY <1>6, <3>2, <3>3, <3>4, <3>5
  <2> QED
    BY <2>1, <2>2
<1>8. stream[p][1] = R
  <2>1. cut[R - 1] < 1 /\ 1 <= cut[R]
    <3>1. cut[R] \in Nat
      BY <1>3
    <3> QED
      BY <1>6, <1>7, <3>1
  <2> QED
    BY <1>2, <1>3, <2>1 DEF Pipe
<1> QED
  BY <1>1, <1>2, <1>5, <1>6, <1>7, <1>8

\* A unit that is read is taken from the front of the connection.
LEMMA RecvPipe ==
  ASSUME EmpInv, NEW s \in Server, RecvData(s), NEW cut \in [0 .. Rounds -> Nat],
         Pipe(Pred(s), cut)
  PROVE  \E new \in [0 .. Rounds -> Nat] : Pipe(Pred(s), new)'
<1>1. PICK R : R = round[s]
  OBVIOUS
<1>2. PICK p : p = Pred(s)
  OBVIOUS
<1>3. PICK len : len = Len(stream[p])
  OBVIOUS
<1>4. PICK new : new = [r \in 0 .. Rounds |-> IF r >= R THEN cut[r] - 1 ELSE cut[r]]
  OBVIOUS
<1>5. /\ EmpTypeOK /\ p \in Server /\ Succ(p) = s /\ R \in Round /\ R \in Int
      /\ R > 0 /\ R \in 0 .. Rounds /\ R - 1 \in 0 .. Rounds
  BY <1>1, <1>2, RecvFacts, RingFacts, CutFacts DEF EmpInv
<1>6. /\ len \in Nat /\ len > 0 /\ Len(stream'[p]) = len - 1
      /\ \A i \in 1 .. len - 1 : stream'[p][i] = stream[p][i + 1]
  <2>1. stream[p] \in Seq(Round) /\ stream[p] # <<>>
    BY <1>2, <1>5, RecvFacts DEF EmpTypeOK
  <2>2. stream'[p] = Tail(stream[p])
    <3>1. stream' = [stream EXCEPT ![p] = Tail(stream[p])]
      BY <1>2, <1>5, RecvFacts
    <3>2. stream \in [Server -> Seq(Round)]
      BY <1>5 DEF EmpTypeOK
    <3> QED
      BY <1>5, <3>1, <3>2
  <2> QED
    BY <1>3, <2>1, <2>2
<1>7. cut[R - 1] = 0 /\ cut[R] > 0
  BY <1>1, HeadFact
<1>8. /\ cut[0] = 0 /\ cut[Rounds] = len
      /\ \A q, x \in 0 .. Rounds : q <= x => cut[q] <= cut[x]
  BY <1>2, <1>3 DEF Pipe
<1>9. \A r \in Round :
        /\ cut[r] - cut[r - 1] = Written(p, r) - Read(s, r)
        /\ \A i \in Nat : cut[r - 1] < i /\ i <= cut[r] => stream[p][i] = r
        /\ Read(s, r) = Size[r] => cut[r] = 0
        /\ r >= round[p] => cut[r] = len
  BY <1>2, <1>3, <1>5 DEF Pipe
<1>10. \A r \in 0 .. Rounds :
         /\ r \in Int /\ cut[r] \in Int /\ cut[r] >= 0
         /\ r >= R => new[r] = cut[r] - 1 /\ cut[r] > 0
         /\ r < R => new[r] = cut[r] /\ cut[r] = 0
  <2> TAKE r \in 0 .. Rounds
  <2>1. r \in Int /\ cut[r] \in Nat /\ cut[R] \in Nat
    BY <1>5
  <2>2. r >= R => cut[R] <= cut[r]
    BY <1>5, <1>8
  <2>3. r < R => cut[r] <= cut[R - 1]
    BY <1>5, <1>8, <2>1
  <2> QED
    BY <1>4, <1>5, <1>7, <2>1, <2>2, <2>3
<1>11. \A r \in Round :
         /\ r = R => Read(s, r)' = Read(s, r) + 1
         /\ r # R => Read(s, r)' = Read(s, r)
         /\ Written(p, r)' = Written(p, r)
         /\ Written(p, r) \in Int /\ Written(p, r) <= Size[r]
         /\ r > R => Read(s, r) = 0
         /\ Read(s, r) \in Int /\ Size[r] \in Int /\ Size[r] > 0
  <2> TAKE r \in Round
  <2>1. Read(s, r)' = IF r = R THEN Read(s, r) + 1 ELSE Read(s, r)
    BY <1>1, <1>5, RecvFacts
  <2>2. Written(p, r)' = Written(p, r)
    BY <1>5, RecvFacts
  <2>3. Written(p, r) \in Int /\ Written(p, r) <= Size[r]
    BY <1>5, CountFacts
  <2>4. (r > R => Read(s, r) = 0) /\ Read(s, r) \in Int
    BY <1>1, <1>5, CountFacts
  <2> QED
    BY <2>1, <2>2, <2>3, <2>4, SizeFact
<1>12. round'[p] \in Int /\ round[p] \in Int /\ round'[p] >= round[p]
  BY <1>5, RecvFacts
<1>13. new[0] = 0 /\ new[Rounds] = len - 1
  <2>1. 0 < R /\ R <= Rounds
    BY <1>5, EmpAssumption DEF Round
  <2> QED
    BY <1>8, <1>10, <2>1, CutFacts
<1>14. \A q, x \in 0 .. Rounds : q <= x => new[q] <= new[x]
  <2> SUFFICES ASSUME NEW q \in 0 .. Rounds, NEW x \in 0 .. Rounds, q <= x
               PROVE  new[q] <= new[x]
    OBVIOUS
  <2>1. cut[q] <= cut[x]
    BY <1>8
  <2>2. x < R => q < R
    BY <1>5, <1>10
  <2> QED
    BY <1>5, <1>10, <2>1, <2>2
<1>15. ASSUME NEW r \in Round
       PROVE  /\ new[r] - new[r - 1] = Written(p, r)' - Read(s, r)'
              /\ \A i \in Nat : new[r - 1] < i /\ i <= new[r] => stream'[p][i] = r
              /\ Read(s, r)' = Size[r] => new[r] = 0
              /\ r >= round'[p] => new[r] = len - 1
  <2>1. /\ r \in Int /\ r > 0 /\ r - 1 \in 0 .. Rounds /\ r \in 0 .. Rounds
        /\ cut[r] \in Nat /\ cut[r - 1] \in Nat
    BY CutFacts
  <2>2. cut[r - 1] <= cut[r] /\ cut[r] <= len
    BY <1>8, <2>1, CutFacts, EmpAssumption
  <2>3. cut[r] - cut[r - 1] = Written(p, r) - Read(s, r)
    BY <1>9
  <2>4. new[r] - new[r - 1] = Written(p, r)' - Read(s, r)'
    <3>1. CASE r < R
      <4>1. new[r] = cut[r] /\ new[r - 1] = cut[r - 1]
        BY <1>5, <1>10, <2>1, <3>1
      <4>2. Written(p, r)' = Written(p, r) /\ Read(s, r)' = Read(s, r)
        BY <1>5, <1>11, <2>1, <3>1
      <4> QED
        BY <2>3, <4>1, <4>2
    <3>2. CASE r = R
      BY <1>5, <1>10, <1>11, <2>1, <2>3, <3>2
    <3>3. CASE r > R
      BY <1>5, <1>10, <1>11, <2>1, <2>3, <3>3
    <3> QED
      BY <1>5, <2>1, <3>1, <3>2, <3>3
  <2>5. ASSUME NEW i \in Nat, new[r - 1] < i, i <= new[r]
        PROVE  stream'[p][i] = r
    <3>1. r >= R /\ i >= 1
      BY <1>5, <1>10, <2>1, <2>5
    <3>2. new[r] = cut[r] - 1 /\ cut[r - 1] <= new[r - 1] + 1
      BY <1>5, <1>10, <2>1, <3>1
    <3>3. cut[r - 1] < i + 1 /\ i + 1 <= cut[r] /\ i + 1 \in Nat
      <4>1. new[r - 1] \in Int
        BY <1>5, <1>10, <2>1
      <4> QED
        BY <2>1, <2>5, <3>2, <4>1
    <3>4. stream[p][i + 1] = r
      BY <1>9, <3>3
    <3>5. i \in 1 .. len - 1
      BY <1>6, <2>1, <2>2, <3>1, <3>3
    <3> QED
      BY <1>6, <3>4, <3>5
  <2>6. ASSUME Read(s, r)' = Size[r]
        PROVE  new[r] = 0
    <3>1. CASE r = R
      <4>1. Read(s, r) = Size[r] - 1
        BY <1>11, <2>6, <3>1
      <4>2. cut[r] <= 1
        BY <1>7, <1>11, <2>1, <2>3, <3>1, <4>1
      <4> QED
        BY <1>5, <1>10, <2>1, <3>1, <4>2
    <3>2. CASE r # R
      <4>1. r < R
        BY <1>5, <1>11, <2>1, <2>6, <3>2
      <4> QED
        BY <1>10, <2>1, <4>1
    <3> QED
      BY <3>1, <3>2
  <2>7. r >= round'[p] => new[r] = len - 1
    BY SMTT(30), <1>5, <1>6, <1>9, <1>10, <1>12, <2>1
  <2> QED
    BY <2>4, <2>5, <2>6, <2>7
<1>16. Pipe(p, new)'
  BY <1>5, <1>6, <1>13, <1>14, <1>15 DEF Pipe
<1>17. new \in [0 .. Rounds -> Nat]
  BY <1>4, <1>10
<1> QED
  BY <1>2, <1>16, <1>17

\* A connection that nothing is written to or read from stays as it is.
LEMMA PipeKept ==
  ASSUME NEW p \in Server, NEW cut \in [0 .. Rounds -> Nat], Pipe(p, cut),
         stream'[p] = stream[p],
         \A r \in Round : /\ Written(p, r)' = Written(p, r)
                          /\ Read(Succ(p), r)' = Read(Succ(p), r),
         round'[p] \in Int, round[p] \in Int, round'[p] >= round[p]
  PROVE  Pipe(p, cut)'
<1>1. \A r \in Round : r \in Int
  BY SizeFact
<1> QED
  BY <1>1 DEF Pipe

\* A write keeps the invariant.
LEMMA SendInv ==
  ASSUME EmpInv, NEW s \in Server, SendData(s)
  PROVE  EmpInv'
<1>1. EmpTypeOK /\ EmpTypeOK'
  BY SendFacts DEF EmpInv
<1>2. Pipes'
  <2> SUFFICES ASSUME NEW p \in Server
               PROVE  \E cut \in [0 .. Rounds -> Nat] : Pipe(p, cut)'
    BY DEF Pipes
  <2>1. PICK cut \in [0 .. Rounds -> Nat] : Pipe(p, cut)
    BY DEF EmpInv, Pipes
  <2>2. CASE p = s
    BY <2>1, <2>2, SendPipe
  <2>3. CASE p # s
    <3>1. stream' = [stream EXCEPT ![s] = Append(stream[s], round[s])]
      BY <1>1, SendFacts
    <3>2. stream'[p] = stream[p]
      BY <1>1, <2>3, <3>1 DEF EmpTypeOK
    <3>3. \A r \in Round : /\ Written(p, r)' = Written(p, r)
                           /\ Read(Succ(p), r)' = Read(Succ(p), r)
      BY <1>1, <2>3, SendFacts, RingFacts
    <3>4. round'[p] \in Int /\ round[p] \in Int /\ round'[p] >= round[p]
      BY <1>1, SendFacts
    <3> QED
      BY <2>1, <3>2, <3>3, <3>4, PipeKept
  <2> QED
    BY <2>2, <2>3
<1>3. ReadRight'
  <2>1. got' = got /\ \A t \in Server, r \in Round : Read(t, r)' = Read(t, r)
    BY <1>1, SendFacts
  <2>2. ASSUME NEW t \in Server, NEW r \in Round
        PROVE  got'[t][r] = IF Read(t, r)' > 0 THEN {r} ELSE {}
    <3>1. got[t][r] = IF Read(t, r) > 0 THEN {r} ELSE {}
      BY DEF EmpInv, ReadRight
    <3>2. got' = got /\ Read(t, r)' = Read(t, r)
      BY <2>1
    <3> QED
      BY <3>1, <3>2
  <2> QED
    BY <2>2 DEF ReadRight
<1> QED
  BY <1>1, <1>2, <1>3 DEF EmpInv

\* A read keeps the invariant.
LEMMA RecvInv ==
  ASSUME EmpInv, NEW s \in Server, RecvData(s)
  PROVE  EmpInv'
<1>1. EmpTypeOK /\ EmpTypeOK'
  BY RecvFacts DEF EmpInv
<1>2. Pipes'
  <2> SUFFICES ASSUME NEW p \in Server
               PROVE  \E cut \in [0 .. Rounds -> Nat] : Pipe(p, cut)'
    BY DEF Pipes
  <2>1. PICK cut \in [0 .. Rounds -> Nat] : Pipe(p, cut)
    BY DEF EmpInv, Pipes
  <2>2. CASE p = Pred(s)
    BY <2>1, <2>2, RecvPipe
  <2>3. CASE p # Pred(s)
    <3>1. stream' = [stream EXCEPT ![Pred(s)] = Tail(stream[Pred(s)])]
      BY <1>1, RecvFacts
    <3>2. stream'[p] = stream[p]
      BY <1>1, <2>3, <3>1 DEF EmpTypeOK
    <3>3. Succ(p) # s /\ Succ(p) \in Server
      BY <2>3, RingFacts
    <3>4. \A r \in Round : /\ Written(p, r)' = Written(p, r)
                           /\ Read(Succ(p), r)' = Read(Succ(p), r)
      BY <1>1, <3>3, RecvFacts
    <3>5. round'[p] \in Int /\ round[p] \in Int /\ round'[p] >= round[p]
      BY <1>1, RecvFacts
    <3> QED
      BY <2>1, <3>2, <3>4, <3>5, PipeKept
  <2> QED
    BY <2>2, <2>3
<1>3. ReadRight'
  <2>1. PICK cut \in [0 .. Rounds -> Nat] : Pipe(Pred(s), cut)
    BY RingFacts DEF EmpInv, Pipes
  <2>2. Head(stream[Pred(s)]) = round[s]
    BY <2>1, HeadFact
  <2>3. round[s] \in Round
        /\ got' = [got EXCEPT ![s][round[s]] = got[s][round[s]] \cup {Head(stream[Pred(s)])}]
    BY <1>1, RecvFacts
  <2>4. ASSUME NEW t \in Server, NEW r \in Round
        PROVE  got'[t][r] = IF t = s /\ r = round[s] THEN got[t][r] \cup {r} ELSE got[t][r]
    <3>1. got \in [Server -> [Round -> SUBSET Round]]
      BY <1>1 DEF EmpTypeOK
    <3> QED
      BY <2>2, <2>3, <3>1
  <2>5. ASSUME NEW t \in Server, NEW r \in Round
        PROVE  got'[t][r] = IF Read(t, r)' > 0 THEN {r} ELSE {}
    <3>1. Read(t, r)' = IF t = s /\ r = round[s] THEN Read(t, r) + 1 ELSE Read(t, r)
      BY <1>1, RecvFacts
    <3>2. got[t][r] = IF Read(t, r) > 0 THEN {r} ELSE {}
      BY DEF EmpInv, ReadRight
    <3>3. Read(t, r) \in Int /\ Read(t, r) >= 0
      BY <1>1, CountFacts
    <3>4. CASE t = s /\ r = round[s]
      <4>1. got'[t][r] = got[t][r] \cup {r}
        BY <2>4, <3>4
      <4>2. got[t][r] \cup {r} = {r}
        BY <3>2
      <4>3. Read(t, r)' > 0
        BY <3>1, <3>3, <3>4
      <4> QED
        BY <4>1, <4>2, <4>3
    <3>5. CASE ~ (t = s /\ r = round[s])
      BY <2>4, <3>1, <3>2, <3>5
    <3> QED
      BY <3>4, <3>5
  <2> QED
    BY <2>5 DEF ReadRight
<1> QED
  BY <1>1, <1>2, <1>3 DEF EmpInv

\* The transfers' invariant holds whatever happens to the servers before.
LEMMA EmpInvCorrect == Spec => []EmpInv
<1>1. Init => EmpInv
  BY EmpInitInv
<1>2. EmpInv /\ [Next]_vars => EmpInv'
  <2> SUFFICES ASSUME EmpInv, [Next]_vars
               PROVE  EmpInv'
    OBVIOUS
  <2>1. ASSUME UNCHANGED emp
        PROVE  EmpInv'
    <3>1. UNCHANGED round /\ UNCHANGED half /\ UNCHANGED moved /\ UNCHANGED stream
          /\ UNCHANGED got
      BY <2>1 DEF emp
    <3>2. EmpTypeOK'
      BY <3>1 DEF EmpInv, EmpTypeOK
    <3>3. \A s \in Server, r \in Round :
            Written(s, r)' = Written(s, r) /\ Read(s, r)' = Read(s, r)
      BY <3>1 DEF Written, Read, Sent, Received
    <3>4. Pipes'
      BY <3>1, <3>3, RingFacts DEF EmpInv, Pipes, Pipe
    <3>5. ReadRight'
      BY <3>1, <3>3 DEF EmpInv, ReadRight
    <3> QED
      BY <3>2, <3>4, <3>5 DEF EmpInv
  <2>2. ASSUME NEW s \in Server, SendData(s) \/ RecvData(s)
        PROVE  EmpInv'
    BY <2>2, SendInv, RecvInv
  <2> QED
    BY <2>1, <2>2 DEF Next, vars
<1> QED
  BY <1>1, <1>2, PTL DEF Spec

-----------------------------------------------------------------------------
(* The transfers implement the abstract exchange.                          *)

\* The abstract ring is the same ring.
LEMMA SameRing == /\ Abstract!Server = Server
                  /\ Abstract!Round = Round
                  /\ \A s \in Server : Abstract!Pred(s) = Pred(s)
<1>1. Abstract!Server = Server /\ Abstract!Round = Round
  BY DEF Abstract!Server, Abstract!Round, Server, Round
<1>2. Server = {0, 1, 2} /\ Pred(0) = 2 /\ Pred(1) = 0 /\ Pred(2) = 1
  BY DEF Server, NumServers, Pred
<1> QED
  BY <1>1, <1>2 DEF Abstract!Pred, NumServers

\* A server has published its vector when it has written some of it, server 0
\* when it has read the whole of its predecessor's.
LEMMA PublishingFacts ==
  ASSUME EmpTypeOK, NEW s \in Server, round[s] \in Round
  PROVE  /\ Publishing(s) <=> half[s] = 2 \/ (s # 0 /\ moved[s] > 0)
         /\ Written(s, round[s]) > 0 => Publishing(s)
<1>1. Publishing(s) <=> half[s] = 2 \/ (s # 0 /\ moved[s] > 0)
  BY TransferFacts DEF Publishing
<1>2. half[s] \in {1, 2} /\ moved[s] \in Nat /\ round[s] \in Int
  BY SizeFact DEF EmpTypeOK
<1> QED
  BY <1>1, <1>2 DEF Written, Sent

\* Whoever has read a unit of an exchange finds its predecessor's vector
\* published.
LEMMA ReadIsPublished ==
  ASSUME EmpInv, NEW s \in Server, round[s] \in Round, NEW p \in Server,
         Written(p, round[s]) > 0
  PROVE  publishedBar[p] >= round[s] /\ publishedBar[p] \in Int
<1>1. EmpTypeOK /\ round[s] \in Int /\ round[p] \in Int
  BY EmpAssumption DEF EmpInv, EmpTypeOK
<1>2. publishedBar[p] = IF Publishing(p) THEN round[p] ELSE round[p] - 1
  BY DEF publishedBar
<1>3. round[p] >= round[s]
  BY <1>1, CountFacts
<1>4. CASE round[p] = round[s]
  BY <1>1, <1>2, <1>4, PublishingFacts
<1>5. CASE round[p] > round[s]
  BY <1>1, <1>2, <1>5
<1> QED
  BY <1>1, <1>3, <1>4, <1>5

\* What has been read was written before.
WrittenAhead == \A s \in Server, r \in Round : Written(Pred(s), r) >= Read(s, r)

\* The invariant of the connections says so.
LEMMA WrittenFirst == EmpInv => WrittenAhead
<1> SUFFICES ASSUME EmpInv, NEW s \in Server, NEW r \in Round
             PROVE  Written(Pred(s), r) >= Read(s, r)
  BY DEF WrittenAhead
<1>1. Pred(s) \in Server /\ Succ(Pred(s)) = s
  BY RingFacts
<1>2. PICK cut \in [0 .. Rounds -> Nat] : Pipe(Pred(s), cut)
  BY <1>1 DEF EmpInv, Pipes
<1>3. /\ r \in 0 .. Rounds /\ r - 1 \in 0 .. Rounds /\ cut[r] \in Nat /\ cut[r - 1] \in Nat
      /\ r - 1 <= r
  BY CutFacts
<1>4. cut[r - 1] <= cut[r]
  BY <1>2, <1>3 DEF Pipe
<1>5. cut[r] - cut[r - 1] = Written(Pred(s), r) - Read(s, r)
  BY <1>1, <1>2 DEF Pipe
<1>6. Written(Pred(s), r) \in Int /\ Read(s, r) \in Int
  BY <1>1, CountFacts DEF EmpInv
<1> QED
  BY <1>3, <1>4, <1>5, <1>6

\* A finished exchange used the vector of that exchange.
UsedRight ==
  \A s \in Server, r \in Round : usedBar[s][r] = IF r < round[s] THEN r ELSE 0

\* What was read shows it.
LEMMA UsedFacts == EmpInv => UsedRight
<1> SUFFICES ASSUME EmpInv, NEW s \in Server, NEW r \in Round
             PROVE  usedBar[s][r] = IF r < round[s] THEN r ELSE 0
  BY DEF UsedRight
<1>1. r < round[s] => Read(s, r) > 0
  BY CountFacts, SizeFact DEF EmpInv
<1>2. r < round[s] => got[s][r] = {r}
  BY <1>1 DEF EmpInv, ReadRight
<1> QED
  BY <1>2 DEF usedBar

\* A transfer that is not the last of its half is invisible, unless it is the
\* first unit of a vector; the end of server 0's reading and the first unit of
\* another server publish; the end of the second half finishes.
LEMMA TransferRefines ==
  ASSUME EmpInv, EmpInv', NEW s \in Server, SendData(s) \/ RecvData(s)
  PROVE  [Abstract!Publish(s) \/ Abstract!Finish(s)]_(Abstract!vars)
<1>1. /\ EmpTypeOK /\ EmpTypeOK' /\ round[s] \in Round /\ Advance(s)
      /\ Pred(s) \in Server /\ Succ(Pred(s)) = s
  BY SendFacts, RecvFacts, RingFacts DEF EmpInv, SendData, RecvData
<1>2. /\ round[s] \in Int /\ moved[s] \in Nat /\ half[s] \in {1, 2}
      /\ Size[round[s]] \in Int /\ Size[round[s]] > 0 /\ moved[s] < Size[round[s]]
      /\ 1 <= round[s] /\ round[s] <= Rounds /\ Rounds \in Int
  BY <1>1, SizeFact, EmpAssumption DEF EmpTypeOK, Round
<1>3. /\ SendData(s) => half[s] = (IF s = 0 THEN 2 ELSE 1)
      /\ RecvData(s) => half[s] = (IF s = 0 THEN 1 ELSE 2)
  BY <1>1, TransferFacts DEF SendData, RecvData
<1>4. \A t \in Server \ {s} : /\ publishedBar'[t] = publishedBar[t]
                              /\ finishedBar'[t] = finishedBar[t]
  BY <1>1, AdvanceFacts DEF publishedBar, finishedBar, Publishing
<1>5. /\ publishedBar[s] = (IF half[s] = 2 \/ (s # 0 /\ moved[s] > 0) THEN round[s]
                                                                  ELSE round[s] - 1)
      /\ publishedBar'[s] = (IF half'[s] = 2 \/ (s # 0 /\ moved'[s] > 0) THEN round'[s]
                                                                     ELSE round'[s] - 1)
      /\ finishedBar[s] = round[s] - 1 /\ finishedBar'[s] = round'[s] - 1
  <2>1. Transfers(s)[1] = "send" <=> s # 0
    BY <1>1, TransferFacts
  <2> QED
    BY <2>1 DEF publishedBar, finishedBar, Publishing
<1>6. /\ \A t \in Server, r \in Round : usedBar[t][r] = IF r < round[t] THEN r ELSE 0
      /\ \A t \in Server, r \in Round : usedBar'[t][r] = IF r < round'[t] THEN r ELSE 0
  <2>1. UsedRight /\ UsedRight'
    BY UsedFacts, PTL
  <2> QED
    BY <2>1 DEF UsedRight
<1>7. /\ publishedBar = [t \in Server |-> publishedBar[t]]
      /\ publishedBar' = [t \in Server |-> publishedBar'[t]]
      /\ finishedBar = [t \in Server |-> finishedBar[t]]
      /\ finishedBar' = [t \in Server |-> finishedBar'[t]]
      /\ usedBar = [t \in Server |-> [r \in Round |-> usedBar[t][r]]]
      /\ usedBar' = [t \in Server |-> [r \in Round |-> usedBar'[t][r]]]
  BY Zenon DEF publishedBar, finishedBar, usedBar
<1>8. ASSUME round'[s] = round[s]
      PROVE  finishedBar' = finishedBar /\ usedBar' = usedBar
  <2>1. \A t \in Server : finishedBar'[t] = finishedBar[t] /\ round'[t] = round[t]
    BY <1>1, <1>4, <1>5, <1>8, AdvanceFacts
  <2>2. \A t \in Server, r \in Round : usedBar'[t][r] = usedBar[t][r]
    BY <1>6, <2>1
  <2> QED
    BY <1>7, <2>1, <2>2
<1>9. ASSUME round'[s] = round[s], publishedBar'[s] = publishedBar[s]
      PROVE  UNCHANGED Abstract!vars
  <2>1. \A t \in Server : publishedBar'[t] = publishedBar[t]
    BY <1>4, <1>9
  <2> QED
    BY <1>7, <1>8, <1>9, <2>1 DEF Abstract!vars
<1>10. ASSUME round'[s] = round[s], publishedBar[s] = round[s] - 1, publishedBar'[s] = round[s]
       PROVE  Abstract!Publish(s)
  <2>1. publishedBar' = [publishedBar EXCEPT ![s] = @ + 1]
    BY <1>2, <1>4, <1>7, <1>10
  <2>2. publishedBar[s] = finishedBar[s] /\ publishedBar[s] < Rounds
    BY <1>2, <1>5, <1>10
  <2> QED
    BY <1>8, <1>10, <2>1, <2>2 DEF Abstract!Publish
<1>11. CASE round'[s] = round[s]
  <2>1. \/ half'[s] = half[s] /\ moved'[s] = moved[s] + 1
        \/ half[s] = 1 /\ half'[s] = 2
    BY <1>1, <1>2, <1>11, AdvanceFacts
  <2>2. \/ publishedBar'[s] = publishedBar[s]
        \/ publishedBar[s] = round[s] - 1 /\ publishedBar'[s] = round[s]
    BY <1>2, <1>5, <1>11, <2>1
  <2> QED
    BY <1>9, <1>10, <1>11, <2>2
<1>12. CASE round'[s] # round[s]
  <2>1. half[s] = 2 /\ half'[s] = 1 /\ round'[s] = round[s] + 1 /\ moved'[s] = 0
    BY <1>1, <1>12, AdvanceFacts
  <2>2. publishedBar[s] = round[s] /\ publishedBar'[s] = round[s]
    BY <1>2, <1>5, <2>1
  <2>3. publishedBar' = publishedBar
    BY <1>4, <1>7, <2>2
  <2>4. finishedBar' = [finishedBar EXCEPT ![s] = @ + 1]
    BY <1>2, <1>4, <1>5, <1>7, <2>1
  <2>5. usedBar' = [usedBar EXCEPT ![s][round[s]] = round[s]]
    <3>1. \A t \in Server \ {s} : round'[t] = round[t]
      BY <1>1, AdvanceFacts
    <3>2. \A r \in Round : r \in Int
      BY SizeFact
    <3>3. \A t \in Server, r \in Round :
            usedBar'[t][r] = IF t = s /\ r = round[s] THEN round[s] ELSE usedBar[t][r]
      BY <1>2, <1>6, <2>1, <3>1, <3>2
    <3> QED
      BY <1>1, <1>7, <3>3
  <2>6. publishedBar[Pred(s)] >= round[s] /\ publishedBar[Pred(s)] \in Int
    <3>1. PICK R \in Round : R = round[s]
      BY <1>1
    <3>2. Read(s, R)' = Size[R] /\ Size[R] > 0 /\ Size[R] \in Int
      <4>1. R < round'[s]
        BY <1>2, <2>1, <3>1
      <4> QED
        BY <4>1, SizeFact DEF Read
    <3>3. WrittenAhead'
      BY WrittenFirst, PTL
    <3>4. Pred(s) # s
      BY RingFacts
    <3>5. Written(Pred(s), R)' = Written(Pred(s), R)
      BY <1>1, <3>4, SendFacts, RecvFacts
    <3>6. Written(Pred(s), R)' >= Read(s, R)'
      BY <3>3 DEF WrittenAhead
    <3>7. Written(Pred(s), R) \in Int
      BY <1>1, CountFacts
    <3>8. Written(Pred(s), R) > 0
      BY <3>2, <3>5, <3>6, <3>7
    <3> QED
      BY <1>1, <3>1, <3>8, ReadIsPublished
  <2>7. finishedBar[s] < publishedBar[s] /\ finishedBar[s] < publishedBar[Pred(s)]
        /\ finishedBar[s] + 1 = round[s]
    BY <1>2, <1>5, <2>2, <2>6
  <2> QED
    BY <2>3, <2>4, <2>5, <2>7, SameRing DEF Abstract!Finish
<1> QED
  BY <1>11, <1>12

\* EmpImplementsExchange, safety: whatever the sizes of the vectors and the
\* capacity of the connections, a server reads in each exchange its
\* predecessor's vector of that exchange and nothing else.
THEOREM EmpExchangeImplemented == Spec => EmpImplementsExchange
<1>1. Init => Abstract!Init
  <2> SUFFICES ASSUME Init
               PROVE  Abstract!Init
    OBVIOUS
  <2>1. \A s \in Server : ~ Publishing(s) /\ round[s] = 1
    BY DEF Init, Publishing, Transfers
  <2>2. /\ publishedBar = [s \in Server |-> 0]
        /\ finishedBar = [s \in Server |-> 0]
    BY <2>1 DEF publishedBar, finishedBar
  <2>3. usedBar = [s \in Server |-> [r \in Round |-> 0]]
    BY <2>1, SizeFact DEF usedBar
  <2> QED
    BY <2>2, <2>3, SameRing DEF Abstract!Init
<1>2. EmpInv /\ EmpInv' /\ [Next]_vars => [Abstract!Next]_(Abstract!vars)
  <2> SUFFICES ASSUME EmpInv, EmpInv', [Next]_vars
               PROVE  [Abstract!Next]_(Abstract!vars)
    OBVIOUS
  <2>1. ASSUME UNCHANGED emp
        PROVE  UNCHANGED Abstract!vars
    BY <2>1
       DEF emp, Abstract!vars, publishedBar, finishedBar, usedBar, Publishing
  <2>2. ASSUME NEW s \in Server, SendData(s) \/ RecvData(s)
        PROVE  [Abstract!Next]_(Abstract!vars)
    BY <2>2, TransferRefines, SameRing DEF Abstract!Next
  <2> QED
    BY <2>1, <2>2 DEF Next, vars
<1> QED
  BY <1>1, <1>2, EmpInvCorrect, PTL DEF Spec, Abstract!Spec, EmpImplementsExchange

=============================================================================
