------------------------------- MODULE StartUp -------------------------------
(***************************************************************************)
(* How the three servers and the script that runs them get ready.  A       *)
(* server's main thread (runServer, StartSystemInit) starts its gRPC       *)
(* services, then the completion-queue (CQ) thread, then waits, creates    *)
(* the stub to its successor, makes the two TCP connections of the EMP     *)
(* ring and sends its PRF key to its successor, once and without looking   *)
(* at the Status.  The CQ thread of the successor stores the key and       *)
(* prints "DONE WITH SETUP".  The script starts all servers, reads their   *)
(* logs until each shows that line, and starts them all anew when one      *)
(* exits or when they take too long.                                       *)
(*                                                                         *)
(* Nothing keeps a client from sending a query earlier: the query service  *)
(* is there as soon as a server is built.                                  *)
(***************************************************************************)
EXTENDS Integers, FiniteSets, Sequences

CONSTANTS
  Retries,   \* how often the script starts the servers again
  MaxExits,  \* bound on servers that exit while they start
  NoKey      \* prfKey1 before it is set

\* The ports are laid out for three servers.
NumServers == 3
Server     == 0 .. NumServers - 1
Succ(s) == (s + 1) % NumServers
Pred(s) == (s + 2) % NumServers

ASSUME StartUpAssumption ==
  Retries \in Nat /\ MaxExits \in Nat /\ NoKey \notin Server

VARIABLES
  main,     \* main[s]: where the main thread of s is
  made,     \* made[s]: how many of its two EMP connections s has
  port,     \* port[s]: the port on which s expects its predecessor
  stub,     \* stub[s]: multStub has been created
  keyCall,  \* keyCall[s]: the SendSystemInit call of s
  prfKey1,  \* prfKey1[s]: the server whose prfKey0 it is
  log,      \* the servers whose log shows "DONE WITH SETUP"
  ready,    \* the servers that the script knows to be ready
  script,   \* what the script is doing
  retries,  \* starts after the first
  exits     \* servers that have exited by themselves

servers  == <<main, made, port, stub, keyCall, prfKey1, log>>
runner   == <<ready, script, retries>>
upVars   == <<servers, runner, exits>>

\* "built": the gRPC services answer.  "waiting": the CQ thread runs, the main
\* thread sleeps.  "connecting": in the constructors of NetIO.  "calling": in
\* SendSystemInit.  "joined": in t.join, for ever.
MainState == {"launched", "built", "waiting", "connecting", "calling",
              "joined", "exited"}

StartUpTypeOK ==
  /\ main \in [Server -> MainState]
  /\ made \in [Server -> 0 .. 2]
  /\ port \in [Server -> {"closed", "listening", "connected"}]
  /\ stub \in [Server -> BOOLEAN]
  /\ keyCall \in [Server -> {"none", "sent", "answered", "failed"}]
  /\ prfKey1 \in [Server -> Server \cup {NoKey}]
  /\ log \subseteq Server
  /\ ready \subseteq Server
  /\ script \in {"starting", "started", "failed"}
  /\ retries \in 0 .. Retries
  /\ exits \in 0 .. MaxExits

\* All processes are new and have done nothing.
Launched ==
  /\ main = [s \in Server |-> "launched"]
  /\ made = [s \in Server |-> 0]
  /\ port = [s \in Server |-> "closed"]
  /\ stub = [s \in Server |-> FALSE]
  /\ keyCall = [s \in Server |-> "none"]
  /\ prfKey1 = [s \in Server |-> NoKey]
  /\ log = {}
  /\ ready = {}

StartUpInit == Launched /\ script = "starting" /\ retries = 0 /\ exits = 0

Alive(s)   == main[s] # "exited"
GrpcUp(s)  == main[s] \notin {"launched", "exited"}
CQRuns(s)  == main[s] \notin {"launched", "built", "exited"}

-----------------------------------------------------------------------------
(* The main thread of server s.                                            *)

Step(s, from, to) == main[s] = from /\ main' = [main EXCEPT ![s] = to]

Build(s) ==
  /\ Step(s, "launched", "built")
  /\ UNCHANGED <<made, port, stub, keyCall, prfKey1, log, runner, exits>>

StartCQ(s) ==
  /\ Step(s, "built", "waiting")
  /\ UNCHANGED <<made, port, stub, keyCall, prfKey1, log, runner, exits>>

\* sleep(10) is over: channels to the successor, which connect when needed.
MakeStubs(s) ==
  /\ Step(s, "waiting", "connecting")
  /\ stub' = [stub EXCEPT ![s] = TRUE]
  /\ UNCHANGED <<made, port, keyCall, prfKey1, log, runner, exits>>

\* Mutant of Connections: every server waits to be called first.
ConnectionsAlike(s) == <<"accept", "connect">>

\* The order of the connections: server 0 calls first, the others wait first.
Connections(s) ==
  IF s = 0 THEN <<"connect", "accept">> ELSE <<"accept", "connect">>

Making(s, how) ==
  main[s] = "connecting" /\ made[s] < 2 /\ Connections(s)[made[s] + 1] = how

\* NetIO(nullptr, port): bind and listen.
Listen(s) ==
  /\ Making(s, "accept")
  /\ port[s] = "closed"
  /\ port' = [port EXCEPT ![s] = "listening"]
  /\ UNCHANGED <<main, made, stub, keyCall, prfKey1, log, runner, exits>>

\* accept returns the predecessor's connection.
Accept(s) ==
  /\ Making(s, "accept")
  /\ port[s] = "connected"
  /\ made' = [made EXCEPT ![s] = @ + 1]
  /\ UNCHANGED <<main, port, stub, keyCall, prfKey1, log, runner, exits>>

\* NetIO(address, port): connect is tried until it succeeds, which it does
\* as soon as the successor listens; the successor may accept it later.
Connect(s) ==
  /\ Making(s, "connect")
  /\ port[Succ(s)] = "listening" /\ Alive(Succ(s))
  /\ port' = [port EXCEPT ![Succ(s)] = "connected"]
  /\ made' = [made EXCEPT ![s] = @ + 1]
  /\ UNCHANGED <<main, stub, keyCall, prfKey1, log, runner, exits>>

\* Mutant of SendKey: the key is sent before the ring is connected.
SendKeyEarly(s) ==
  /\ Step(s, "connecting", "calling")
  /\ keyCall' = [keyCall EXCEPT ![s] = IF GrpcUp(Succ(s)) THEN "sent" ELSE "failed"]
  /\ UNCHANGED <<made, port, stub, prfKey1, log, runner, exits>>

\* Both connections are there: SendSystemInit, which fails at once if nobody
\* answers at the successor's address.
SendKey(s) ==
  /\ made[s] = 2
  /\ Step(s, "connecting", "calling")
  /\ keyCall' = [keyCall EXCEPT ![s] = IF GrpcUp(Succ(s)) THEN "sent" ELSE "failed"]
  /\ UNCHANGED <<made, port, stub, prfKey1, log, runner, exits>>

\* The call is over, one way or the other: its Status is not looked at.
Join(s) ==
  /\ keyCall[s] # "sent"
  /\ Step(s, "calling", "joined")
  /\ UNCHANGED <<made, port, stub, keyCall, prfKey1, log, runner, exits>>

Main(s) == \/ Build(s) \/ StartCQ(s) \/ MakeStubs(s) \/ Listen(s) \/ Accept(s)
           \/ Connect(s) \/ SendKey(s) \/ Join(s)

\* The CQ thread of s: CallData::Proceed of an INIT call.  It registers the
\* next one, FinishSystemInit stores the key and prints, and Finish answers.
FinishSystemInit(s) ==
  /\ CQRuns(s)
  /\ keyCall[Pred(s)] = "sent"
  /\ prfKey1' = [prfKey1 EXCEPT ![s] = Pred(s)]
  /\ log' = log \cup {s}
  /\ keyCall' = [keyCall EXCEPT ![Pred(s)] = "answered"]
  /\ UNCHANGED <<main, made, port, stub, runner, exits>>

\* A server exits by itself (a port is taken, a file is missing): calls to it
\* fail and nobody can connect to it.  Its own call may arrive or not.
Exit(s) ==
  /\ script = "starting" /\ Alive(s)
  /\ exits < MaxExits
  /\ exits' = exits + 1
  /\ main' = [main EXCEPT ![s] = "exited"]
  /\ \E own \in {keyCall[s], "none"} :
       keyCall' = [t \in Server |->
         IF t = s THEN own
         ELSE IF Succ(t) = s /\ keyCall[t] = "sent" THEN "failed"
         ELSE keyCall[t]]
  /\ UNCHANGED <<made, port, stub, prfKey1, log, runner>>

-----------------------------------------------------------------------------
(* The script (start_servers, start_servers_retry).                        *)

ReadLog(s) ==
  /\ script = "starting"
  /\ s \in log
  /\ ready' = ready \cup {s}
  /\ UNCHANGED <<servers, script, retries, exits>>

\* Mutant of AllReady: one server's log is taken for all.
OneReady == ready # {}

AllReady == ready = Server

Started ==
  /\ script = "starting"
  /\ AllReady
  /\ script' = "started"
  /\ UNCHANGED <<servers, ready, retries, exits>>

\* Stop all servers, then start them again or give up.
Restart ==
  /\ script = "starting"
  /\ IF retries < Retries
     THEN /\ retries' = retries + 1
          /\ main' = [s \in Server |-> "launched"]
          /\ made' = [s \in Server |-> 0]
          /\ port' = [s \in Server |-> "closed"]
          /\ stub' = [s \in Server |-> FALSE]
          /\ keyCall' = [s \in Server |-> "none"]
          /\ prfKey1' = [s \in Server |-> NoKey]
          /\ log' = {}
          /\ ready' = {}
          /\ UNCHANGED script
     ELSE /\ script' = "failed"
          /\ main' = [s \in Server |-> "exited"]
          /\ UNCHANGED <<made, port, stub, keyCall, prfKey1, log, ready, retries>>
  /\ UNCHANGED exits

NoticeExit == (\E s \in Server : ~Alive(s)) /\ Restart

\* A minute has passed and some log lacks the line.
TimeOut == ~AllReady /\ Restart

StartUpNext ==
  \/ \E s \in Server : Main(s) \/ FinishSystemInit(s) \/ Exit(s) \/ ReadLog(s)
  \/ Started \/ NoticeExit \/ TimeOut

-----------------------------------------------------------------------------
(* Properties.                                                             *)

\* SendSystemInit is called once, with no deadline, no waiting for the peer
\* and no look at the Status, and still it reaches a successor that listens:
\* the upstream EMP connection, made before, shows that its services are up.
KeyReachesPeer ==
  exits = 0 => \A s \in Server : keyCall[s] # "failed"

\* Once the script lets queries in, every server has what a query's exchanges
\* use: the predecessor's key, the stub and both connections.  A server's own
\* line only shows that its predecessor has got that far.
StartedIsReady ==
  script = "started" =>
    \A s \in Server : Alive(s) =>
      /\ prfKey1[s] = Pred(s)
      /\ stub[s]
      /\ made[s] = 2

\* The servers' waits for each other come to an end: unless they are given up
\* for another reason, the ring is started.
EventuallyStarted == <>(script # "starting")

=============================================================================
