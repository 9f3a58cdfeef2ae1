# A TLA+ model of CL-FS3R

CL-FS3R answers aggregate queries (`SUM ... WHERE`) over a table that is secret-shared between three
servers: no server learns the data or the predicate. This directory holds a TLA+ model of the
program, the TLC configurations that check it on small instances, and TLAPS proofs about it.

What is modelled is the default build: shares travel over gRPC, and without a CMake build type
assertions are executed (`assert(cq->Next(...))`, `server/core/server.cpp:2253`, is the loop condition
of a server thread). The `USE_EMP` build has a module of its own for what it changes, the exchange
(`EmpExchange`); the malicious mode is modelled where the code has it for table queries (`EvalFilter`).
Line numbers are those of the repository; paths are relative to `src/`.

## 1. The system

### Components, their state and operations

| Component | State | Operations | Hard behaviour | What makes it correct |
|---|---|---|---|---|
| **Share exchange** (`server.cpp` `RSSReshare`, `Multiply`, `FinishMultiply`, `CallData`) | a mailbox of one vector (`multReceivedShares`), `multLock`, two condition variables, a completion queue (CQ) | send to the successor, take from the predecessor | worker threads, CQ thread and transport interleave; messages carry no round and no query | every vector is used in its own round, none is lost or overwritten, no thread sleeps for ever |
| **Query handlers and their callers** (the `Send*AggQuery` handlers, `client.cpp` `AggQuery` and the like) | one handler per server and query; the client's completion queue | ask all servers, check, throw, answer, add up | a handler that throws tells its peers nothing; the client ignores errors | the client never adds up some of the shares; the next query meets an empty ring |
| **Query evaluation** (`EvalFilter`, `VBEvalFilter`, `VBFSSAggFilterQuery`, `BOEvalFilter`, `BOFSSEvalFilter`) | shared vectors, rows of zero shares, `prfCounter` | dot products, reshare, AND, OR, aggregation | three servers at different paces must stay aligned in masks and in replicated shares; words wrap in two moduli | the client's sum is the exact answer |
| **Client: dealing and gathering** (`client.cpp`, `common.cpp`) | a PRNG, meta data of tables | split shares, place halves of key pairs, add up answers | which half goes to which server | as above |
| **Client: decomposition of predicates** (`GenerateCombined*Filter`, `vdcf.cpp`) | the filters under construction | intervals to leaves (block x offset), comparisons | unsigned edges, intervals that begin or end in the middle of a block | leaves are disjoint and select exactly the interval |
| **FSS keys** (`keys.cpp`, `fss-core/*DPF*`, `*DCF*`) | seeds and control bits along a path; arrays of results | generate, evaluate on windows | two servers walk on and off the path separately; two moduli; windows | two halves add up to the function, at every element |
| **Key vectors** (`DPFTable.cpp`, `DCFTable.cpp`, `server.cpp:737-831`) | vectors of keys at client and servers | generate, serialize, append, evaluate, clear | vectors outlive a query, and queries share them | a query is evaluated with its own keys |
| **Aggregate tree** (`AggTree.cpp`, `Tree.cpp`) | two trees per server, `next_free` | append in two phases, roll-up, query | six trees must have the same shape; roll-up moves and deletes nodes on shares | aggregates of all nodes are exact |
| **Table store** (`server.cpp:190-350`, `table_storage.cpp`) | tables, value lists, append pointers | create, replace, update, batch update, append | failing calls are ignored by the client | the three servers hold shares of the same rows |
| **System initialisation** (`runServer`, `StartSystemInit`, `NetIO`, `FinishSystemInit`, `scripts/bench_compare.py`) | `prfKey0`, `prfKey1`, stubs, sockets, logs | start, connect the ring, deal PRF keys, wait, restart | order of start-up, blocking connections, one call that nobody repeats | start-up ends, and whoever is let in finds everything in place |
| **EMP transport** (`net_io_channel.h`, `server.cpp` under `USE_EMP`) | two TCP connections per server | write and read vectors | vectors larger than the buffers, order of send and receive | no cyclic wait, no unit read in a wrong exchange |
| **Malicious mode** | MAC columns, `alpha`, accumulators | MAC checks | masks and coefficients that must agree | honest servers pass the checks |
| Bench, tests, scripts; vendored and generated code | | | | |

### How they interact

    script --- starts, reads logs, restarts -----------------> server 0, 1, 2
    server s --- SendSystemInit, two TCP connections --------> server s+1
    client --- SendXInit, SendXBatchedUpdate, SendXUpdate ---> tables of server 0, 1, 2 (one after the other)
    client --- SendXAggQuery (three asynchronous calls) -----> worker of the query at server 0, 1, 2
    worker of s --- Aggregate.SendMult (blocking) -----------> CQ thread of s+1 --- mailbox ---> worker of s+1
    client --- SendATAppend1 x 3, then SendATAppend2 x 3 ----> both aggregate trees of server 0, 1, 2

A query is one handler invocation at each server. It alternates local work with exchanges: in an
exchange, a server sends one vector to its successor and takes one from its predecessor. The
synchronous service of a server runs handlers concurrently; one thread accepts the predecessor's
`SendMult` calls from the completion queue. Secret data is replicated: server *s* holds shares *s*
and *s+1* of three.

## 2. Modules

| Module | Models | Correspondence |
|---|---|---|
| `MultRing` | the share exchange | `pc[s][q]`, `round[s][q]`: the worker of query q at s. `wire`, `posted`: the transport and the registered `CallData`. `cqState`, `cqMsg`: the CQ thread. `slot`: `multReceivedShares`. Steps between two acquisitions of `multLock` are one action. `got` is a history variable; a message's query and round are read by properties only. `Spec` has no failing calls, `FaultySpec` adds `CallFails` |
| `RoundExchange` | what the exchange promises | `Publish(s)`, `Finish(s)`: in round r a server uses its predecessor's vector of round r |
| `MultRingRefinement` | the refinement mapping | published when `SendMult` is called, finished when the mailbox is emptied |
| `MultRingInv` | the inductive invariant `IInv` | see section 5 |
| `QueryLifecycle` | a client's queries, one after another, and their handlers; EXTENDS `MultRing` | `handler[s][q]`, `reply[s][q]`: the handler and the status of its call; `refusal[q]`: who will find the request invalid, and ahead of which exchange; `result[q]`: whose answers were added up. Steps of a running handler are `MultRing`'s `Worker` |
| `StartUp` | servers and script until the ring is started | `main[s]`: the main thread; `made[s]`, `port[s]`: the constructors of `NetIO`; `keyCall[s]`, `prfKey1[s]`: `SendSystemInit` and its handler; `script`, `ready`, `log`: `start_servers` of `bench_compare.py` |
| `EmpExchange` | one query's exchanges under `USE_EMP`; EXTENDS `StartUp`, refines `RoundExchange` | `stream[s]`: what is on the connection to the successor; `half[s]`, `moved[s]`: how far `send_data` or `recv_data` is |
| `QueryPlans` | the five handlers as straight-line plans | `Reshare`, `Fill`, `Combine` in the order of the code, with the numbering of mask rows, which differs between handlers |
| `RSSQuery` | one query, from shares to sum | composes `QueryPlans` with `RoundExchange` (INSTANCE `Ring`); `mem[s]`: the handler's vectors, `zero[s]`: `zero_shares`, `counter[s]`: `prfCounter`; columns of MACs and their coefficients in malicious requests |
| `PrivateAggregate` | what a query promises | one action: answer with the exact aggregate |
| `RangeLeaves` | the decomposition of points and ranges, and the plan of FSS comparisons (`makePlan`, `GenCompareVector`) | sets of leaves, each a set of blocks and a set of offsets |
| `FilterBuilder` | the client's loop over the predicates of a query | `Emit`, `Throw`, `Send` |
| `FSSKey` | generation and evaluation of a DPF or DCF key pair | the client adds a level (`Extend`) with the correction words of `keyGen`; each server takes one step of its path at a time, on or off the secret path. The generator is a constant |
| `FSSKeyInv` | the inductive invariant `KeyInv` | section 5 |
| `FSSWindow` | evaluation on a window | which element of the array a point's value is written to |
| `FilterKeys` | where keys of `AggQuery`'s conditions are kept | `made[c][t]`: the client's vector, `keys[s][t]`: the server's, shared by all queries of the table |
| `AggTree` | trees, two-phase append, roll-up, query | a node is named by its path; `tree[s][0]`, `tree[s][1]` are the two trees of s; -1 stands for "none", with the unsigned order of the code |
| `TableStore` | tables at three servers and the client that loads them | an operation is a list of calls, any of which may be lost |
| `TableStoreInv` | the inductive invariant `IInv` of `TableStore` | section 5 |
| `AggTreeInv` | the inductive invariant of `AggTree` | what a tree's flags and shares say between two appends, and what an append in progress has made of them |
| `RecursionFacts` | induction, folds, iterated functions and remainders, for the proofs | nothing of the code |
| `MC*` | instances for TLC | constants, input sets |
| `*_proofs` | TLAPS proofs about `MultRing` (with its refinement), `QueryLifecycle`, `EmpExchange` (with `StartUp`), `RSSQuery`, `FilterBuilder`, `FSSKey`, `TableStore`, `AggTree`; `MultRing_proofs` holds those about `QueryLifecycle` too | section 5 |

Modules are composed in two ways. Where threads matter, a module extends another and keeps its actions:
`QueryLifecycle` the exchange, `EmpExchange` the start-up. Elsewhere composition is by refinement. `MultRing` and
`EmpExchange` implement `RoundExchange`, and `RSSQuery` is built on `RoundExchange`, so that threads and
mailboxes do not multiply with the data of a query. `RSSQuery` in turn implements `PrivateAggregate`.
`RangeLeaves` says what the leaves are that `RSSQuery` combines: the requests of `MCRSSQuery` are the leaves that
`RangeLeaves` computes, as they evaluate at a bucket. That a key pair evaluates to shares of its function, as
`RSSQuery` and `RangeLeaves` take for granted, is `SharesExact` of `FSSKey`.

Operators whose comment begins with "Mutant of" are plausible mistakes; no specification uses them.
For every property there is one that makes TLC find a violation.

### Abstractions

* *Exchange.* A vector is a record of its query and round. A call ends well or with an error that the
  caller ignores; after an error the vector may have been delivered or not.
* *Handlers.* A request is invalid at a server or it is not, ahead of a given exchange; all checks of the
  handlers come ahead of an `RSSReshare`, so a handler stops between two exchanges. A call of the client that is
  lost may or may not have reached its handler.
* *Start-up.* Ten seconds of sleep and the script's minute are transitions without a duration. Neither is
  relied on. A connection attempt goes on until it succeeds, as `NetIO`'s does.
* *EMP.* A byte stream is a sequence of units, a connection's buffers hold `Capacity` of them, and a
  transfer moves one unit at a time. Tags of the units are read by properties only.
* *Query.* Rows of a table do not influence each other, so one row with two buckets is modelled: the
  row's own bucket, and one for all others. `uint128_t` is a word of three bits, `group_mod` (2^125)
  is 4; the relation that matters is that one divides the other, and sums wrap in both. Random words
  and the PRF are fixed functions without symmetry: the properties are equalities that must hold for
  every choice, and a mistake in placement or masking would show for this one.
* *Keys.* In `RSSQuery` a pair of FSS keys is what it evaluates to and where its randomness comes from:
  `clkey` reseeds with `srand(time(NULL))`, so keys generated in the same second are equal. In `FSSKey` the
  AES-based generator is an arbitrary function of the seed; blocks are sets of bits, so that XOR is
  symmetric difference.
* *Tables.* A share is named by the split it comes from. Shares of a row add up to its value exactly if
  they come from the same split, so no arithmetic is needed.
* *Trees.* Aggregates are words of ten bits, with random shares. finishAppend takes an index as
  `uint32_t`; the indices of the model are smaller.

## 3. Runs

| Run | Instance | Properties | Size (states) |
|---|---|---|---|
| `one_query` | 3 servers, 4 exchanges (1 and 4 by `RSSReshare`) | `TypeOK`, `RoundMatch`, `NeighbourSkew`, `IInv`; `ImplementsExchange` | 51,997 |
| `two_queries` | 3 servers, 2 queries of one exchange | `Conservation`, `NoLostWakeup`; `Termination` | 169,000 |
| `query_lifecycle` | 3 servers, 2 queries of one client, 2 exchanges, a check ahead of both, one fault | `AllOrNothing`, `OwnVectors`, `CleanBetween`, `NoDuplicate`, `NoLostWakeup`; `EventuallyReturned` | 256,989 |
| `start_up` | one exit, one restart, then a query of 3 exchanges over connections of 2 units | `KeyReachesPeer`, `StartedIsReady`; `EventuallyStarted`, `EmpImplementsExchange`, `EventuallyAnswered` | 9,111 |
| `exact_answers` | five handlers, one to three predicates, AND and OR, `EvalFilter` also malicious | `TypeOK`, `Replicated`, `MasksCancel`; `ImplementsAggregate` | 82,576 |
| `range_filters` | 4 blocks of 4 buckets, two predicates, all boundaries | `TypeOK`, `LeavesDisjoint`, `LeavesExact`, `WritesInside` | seconds |
| `fss_keys` | 3 levels, seeds of 2 bits, words modulo 8, three kinds of keys, all windows | `TypeOK`, `SharesExact`, `SlotExact`, `WindowFilled`, `KeyInv` | seconds |
| `tree_appends` | 8 leaves, 13 entries, queries from the 7th entry on | `TypeOK`, `CopiesAgree`, `SlotFound`, `AggregatesExact`, `RecentLeaves`, `QueryExact` | 2,933 |
| `table_loads` | 4 kinds of tables, 2 rows, batches of one, 4 operations, any call may be lost | `TypeOK`, `DamageContained` | 3.3 million |
| `or_of_overlapping` | violation of `ExactResult` | finding 1 | |
| `second_tick` | violation of `ExactResult` | finding 2 | |
| `stale_keys` | violation of `OwnConditions` | finding 3 | |

What they show:

* **one_query.** However workers, CQ threads and calls interleave, a vector is used in the round it was
  sent in, although nothing in a message says which round that is (`RoundMatch`), and neighbours are at most
  one exchange apart, which is why a mailbox of one vector is enough (`NeighbourSkew`). The ring makes the
  progress that `RoundExchange` asks for. Four rounds exceed the number of vectors that
  can be between two neighbours (one in the mailbox, one with the CQ thread) by two.
* **two_queries.** Workers of two queries share one mailbox. The code does not promise
  that a query gets its own vectors, so `RoundMatch` is not asked for; what holds is that every vector is
  taken exactly once (`Conservation`), that no thread sleeps when what it waits for is there
  (`NoLostWakeup`), and that no cycle of blocked workers and full mailboxes forms (`Termination`). Two
  queries of two exchanges have well over a million states, too many for a run of a few
  minutes; the two safety properties are proved for any number of queries and exchanges.
* **query_lifecycle.** The client prints errors and adds up the other answers, so one would expect the sum of
  two shares now and then. It never happens unless one of the client's own calls was lost: when a server
  refuses alone, or a `SendMult` fails and its vector is gone, the successor never answers
  (`AllOrNothing`). The price is that such a query never returns; a query that all servers accept, or
  all refuse at the same check, does (`EventuallyReturned`). The next query finds an empty ring and uses only its own
  vectors, although nothing names them (`CleanBetween`, `OwnVectors`). A worker whose call failed goes on, and its
  late vector may come to a full mailbox: still no vector is used twice and nobody sleeps beside what it
  waits for (`NoDuplicate`, `NoLostWakeup`). Two exchanges with a check ahead
  of each cover a refusal before anything is sent and one between exchanges; the sets of refusing servers
  are one of each size, which are all up to rotation. One fault is enough to lose a vector or an answer;
  after it, no further query is asked.
* **start_up.** The three constructors' waits for each other end, because server 0 connects before it accepts
  (`EventuallyStarted`). `SendSystemInit` is called once and its status is ignored, and still it
  arrives (`KeyReachesPeer`). Each server's log line speaks of its predecessor's progress, not its own, yet once all
  three are there a query finds key, stub and connections at every server (`StartedIsReady`). Under
  `USE_EMP`, vectors of three units over buffers of two are never mixed up and never block in a cycle,
  because server 0 reads first. One exit and one restart reach every action of the script; a second would
  repeat the first.
* **exact_answers.** Every handler returns the exact answer at every relative pace of the servers. In the
  malicious requests the sums of the MACs pass the client's assertions as well. OR is
  asked for predicates that exclude each other and keys are generated within one second; the runs
  `or_of_overlapping` and `second_tick` show what happens otherwise. DPF and DCF queries (`AggQuery`)
  repeat one condition, as the bench and the tests do; `stale_keys` shows why.
* **range_filters.** Blocks of four have a first, an inner and a last offset, and four blocks leave room
  for intervals within a block, of two adjacent blocks, and with an inner part.
  `scripts/README_bench_compare.md:47` describes the `bo-*-range` modes as single-sided; the non-FSS block-offset
  mode supports every interval, and the FSS modes throw unless one boundary is an end of the domain.
* **fss_keys.** At every point, also those the servers reach after leaving the secret path at any
  level, the two shares add up (`SharesExact`); on every window, an element of the array holds the value of its
  own index (`SlotExact`) and no element is left unwritten (`WindowFilled`). Three levels have a first, a middle and a
  last one, which the code treats differently.
* **tree_appends.** Thirteen entries fill the tree and roll it up three times. `QueryExact` holds when
  the three key pairs of a bound are generated within one second; with different seconds it would fail
  for the reason of finding 2.
* **table_loads.** If no call is lost, the servers hold the client's rows. If calls are lost, a single
  update spoils only its row, a lost batch of a value list is repaired by the next (`AddValList` never
  empties its requests), and append pointers that have come apart stay so until the table is created anew.
  The pointer moves on at a full table; four operations are enough to load two rows and append three.

### Findings

1. `OrFilters` computes x + y + xy, three for a row that both predicates select (`server.cpp:600`).
2. `GenerateCombinedVBFSSFilter` deals the second key of a pair to the server that does not hold the pair's
   share; the answer is right only while all three pairs are equal, that is, generated in the same second
   (`client.cpp:931`, `keys.cpp:7-11`).
3. `DPFTableClient` and `DCFTableClient` keep every key they generate and send the first: a second
   condition on the same table is evaluated as the first one (`DPFTable.cpp:53`).

Seen while modelling, without a run:

* `EvalFilter` masks four chunks of `len / 4` rows; the rest of a window that is not a multiple of four is
  multiplied with memory that was never written (`server.cpp:802`).
* `rollup` takes maxima and minima of additive shares (`Tree.cpp:129`); trees of depth 3 never return from
  their first roll-up (`Tree.cpp:25`), those of depth 2 abort when full.
* A second `AggTreeAppend` that begins before the first is finished aborts the servers (`AggTree.cpp:120`). So does
  an append after one server missed an `AggTreeAppend2`; the client goes on with an empty path (`client.cpp:438`).
* `eval_agg_tree` numbers nodes as if none was empty (`AggTree.cpp:336`), which matters only in trees with
  empty inner nodes.
* A domain of one block (`logBlockNum` = 0, which `client.cpp:1598` allows) gives keys of no levels, whose evaluation
  reads a word that is not there (`DPFServer.cpp:116`).
* The bound of a DCF that should include the last bucket wraps to 0 (`keys.cpp:74`, `DCFClient.cpp:215`).
* Malicious mode: coefficients of the MACs agree only while servers draw the same numbers
  (`server.cpp:133-134`); the client's `alpha` is that of the table registered last (`client.cpp:129`, `180`,
  `258`); the vector handlers pass no accumulators; `Multiply` under `USE_EMP` copies from beyond a vector
  (`server.cpp:664`).

## 4. Fairness

* `MultRing`: weak fairness of the CQ thread of every server and of every worker's steps. The threads are
  operating-system threads that never wait but in `cq->Next`, on a condition variable, for a mutex that is
  held for a few instructions, or in a call. A call on the wire arrives eventually (gRPC over TCP,
  no deadline is set). No call has to fail.
* `QueryLifecycle`: the same for handlers and CQ threads, and weak fairness of the client's return once every
  answer is there. No query has to be asked and no call has to be lost.
* `StartUp`, `EmpExchange`: weak fairness of each server's main thread, of its handler of `SendSystemInit`, of the
  script reading a log and going on, and of the transfers. None for `Exit` and `TimeOut`: that start-up ends does not
  rely on the script losing patience.
* `RSSQuery`: weak fairness of each server's steps and of the client's gathering. That a server's wait for a
  round ends is what `MultRing` and `EmpExchange` show: the refinement of `MultRing` includes the fairness of
  `RoundExchange`; the one of `EmpExchange` is safety, and `EventuallyAnswered` says that its rounds end.
* `FilterBuilder`, `FSSKey`, `FilterKeys`, `AggTree`, `TableStore` are checked for safety only.

`CHECK_DEADLOCK FALSE` is used where the system may really stop: after a refusal by one server or a failed
call (`query_lifecycle`), after a start that was given up or a query that was answered (`start_up`), and after
the client's last operation (`table_loads`, `stale_keys`).

## 5. Proofs

Checked by TLAPS for every value of the constants that satisfies the named assumptions.

**The exchange of one query** (`MultRing_proofs`), for rings of any length >= 2 and any
number of rounds; `OneQuery` is assumed by name where it is needed.

* `TypeCorrect`: the type invariant, for any number of queries and failures.
* `InvCorrect`: `IInv` of `MultRingInv`, for one query whose calls do not fail. "Every vector is used in its
  round" is not inductive: it says nothing of vectors on their way. `IInv` locates them. For a server s and
  its predecessor p it compares two counters, how many vectors of p have been deposited and how many s has
  used. They are equal and the mailbox is empty, or they differ by one and the mailbox holds the vector of
  that very round (`Mailbox`); a predecessor that is blocked in `SendMult` has its vector on the wire or with the
  CQ thread of s (`InFlight`); who sleeps has nothing to wake up for (`Sleepers`); what was used so far was
  of its own round (`History`). Each action moves one counter, by one.
* `RoundsMatch`, `SkewBounded`, `CleanAfterwards` follow from `IInv`.
* `ExchangeImplemented`: the ring implements `RoundExchange`, safety. Calling `SendMult` is `Publish`, taking the
  vector is `Finish`, with or without having slept; everything else is a stutter. `Mailbox` gives the guard of
  `Finish`, `History` its effect.

**The exchange of any queries, with failing calls** (`MultRing_proofs`). `NoWakeupLost`, `NeverDuplicated` and
`AllConserved`. Counters do not help when queries overtake each other. The invariant `DeliveryInv` says instead
where each vector is: on the wire, with the CQ thread, in the mailbox or used, in at most one of these, and in one of them exactly
if it was sent and no call failed.

**A client's queries** (`MultRing_proofs`), for three servers (`ThreeServers`), any number of queries, exchanges, checks and faults:
`AllOrNothingAlways`, `AlwaysCleanBetween`, `AlwaysOwnVectors`. `LifecycleSpec` implements `FaultySpec`, so what is proved of
delivery applies. `ClientInv` adds that a call's status tells where its handler ended, that queries before the
one being asked have left nothing, and that every exchange a handler finished used up one vector of its
predecessor's same query. The step that matters is a counting argument (`AllUsed`): a handler that has used K
vectors, all among its predecessor's first K, has used them all. So a handler that answers shows that its predecessor finished every
exchange, hence did not throw (`PredAnswers`); round the ring of three, one answer implies three (`AllOrNone`).
That queries use their own vectors round by round needs one more invariant, `RoundsInOrder`, for a ring without faults.

**Start-up** (`EmpExchange_proofs`), for any number of restarts and exits: `StartUpTyped`, `KeyAlwaysReaches`,
`StartedAlwaysReady`. The invariant `UpInv` says what each observation of a server shows about its neighbour: a
connection it has made shows that the neighbour has come as far as that connection in its own order, and a log line shows that the
predecessor had both connections and sent its key.

**The EMP exchange** (`EmpExchange_proofs`), for any number of exchanges, sizes and buffers: `EmpExchangeImplemented`, safety.
`EmpInv` relates, for each connection, how much of which exchange has been written and read; what
lies between the two positions is what is on the stream, in order.

**The decomposition of predicates** (`FilterBuilder_proofs`), for any number of blocks, block size, kind of query
and boundaries. `AlwaysExact`: the leaves select exactly the buckets between the boundaries.
`AlwaysDisjoint`: no bucket is in two of them. `AlwaysInside`: no index runs outside of its vector.
`BuilderTyped`: a query is sent with all its predicates or not at all. The argument is arithmetic on
block and offset of a bucket, b * BlockSize + o, one lemma per kind of query, and the invariant that
the leaves built so far are those of supported predicates.

**FSS keys** (`FSSKey_proofs`), for any depth, seeds, generator, modulus and payload: `SharesCorrect`, `KeyInvCorrect`,
`TypeCorrect`. `SharesExact` speaks of the end of an evaluation; `KeyInv` of every level: while a server is on the secret path, the two
nodes have opposite control bits and the results so far differ by what the level's words correct; once off the path, the
nodes are the same and their words cancel (`OppositeOrSameCorrect`).

`SlotCorrect` and `WindowFilledCorrect` are about windows, of any aligned power of two. The recursion of
`contigEvalOne*Large` carries an index into the array and an index into the domain, and each is halved and moved on its own.
`Frame` gives the arguments of every call in closed form, `NextFrames` goes from one level to the next, and `CallsAre`
to all of them. A call has followed the bits of its *own* index although it inherits its node from a call with another
one: below a piece that starts at a multiple of its size, the bits that are followed so far are the same (`BitsSame`). Every
element is then written for its own index (`ResultsAre`). `BitsOrder` relates the order of points, first differing
bit first, to that of the numbers that queries are about.

**A query at the servers** (`RSSQuery_proofs`), for any number of predicates and leaves, windows of
any length, AND and OR, and servers at any pace. Three layers for masks and replication:

* *Plans.* A plan is put together from pieces of handlers. `Piece` says of a sequence of instructions what
  it may rely on (vectors written before it), what it writes, and that every combination takes its mask from a row that the last
  `Fill` before it made. Pieces can be put one after another (`PieceConcat`), chains of combinations and loops over
  predicates are pieces, and so are the plans of all five handlers (`PlanRuns`). This is where the different numbering of mask rows
  in `EvalFilter`, `VBEvalFilter` and the others matters: an instruction that read a row of an earlier `Fill`, or of none, would
  not be a piece.
* *Paces.* `BaseInv` says where a server is in the plan: `ExIn(plan, pc - 1)`, the number of exchanges in what it has
  executed, is the number of rounds it has finished, plus one while it waits; its neighbours are at most one round
  away. It is what `Replicated` and `MasksCancel` lack to be inductive, since both compare servers that are at the same place only.
* *Data.* `MasksAlwaysCancel`: `MaskInv` asserts one function c for all servers such that whoever has executed
  n instructions has drawn c[n] numbers, and that the zero shares of a server are those that the last `Fill` before its place makes,
  drawn from the two keys at c[n]. The differences add up to zero round the ring. `AlwaysReplicated`: `ThirdInv` asserts a
  history h for each server, h[n] being its own third of every vector after n instructions. What
  a server keeps as first share is its predecessor's history, what it keeps as second share its own, and what is on its way is
  the history's entry of the round. h is defined by the plan alone, so that servers at the same place agree.

  `MasksAlwaysCancel` has two hypotheses. `PrfNumbers`: PRF values are integers. `FourChunks`: `Window` is a multiple of four if there is
  a request for `EvalFilter`, which masks four chunks of `len / 4` rows and leaves the remaining rows to whatever the
  memory held (`server.cpp:802`); without it the statement is false of the code. `AlwaysReplicated` has none.

That the result is the right one is `AlwaysExact`, and with it the servers and the client implement `PrivateAggregate`
(`ImplementsAggregateSafety`). Values are only related up to a number that changes with every run, so all
equations are modulo `Group` (`Same`). Four more steps:

* *Servers.* `ExactInv` adds to the histories h what the vectors in them are: the vector that a combination sends is the
  server's local product of the histories' vectors plus its zero share (`SentOK`), a reshared one is the local sum,
  and the answer is the local product of value and filter (`AnswerOK`). It needs `BaseInv`, `MaskInv` and `ThirdInv`, and is
  the invariant that all of them together make inductive (`AnswersStep`).
* *Opening.* Three local products of replicated thirds add up to the product of the sums, the masks to zero. So a
  combination of x and y opens to x * y, or to x * y + x + y where `OrFilters` adds both operands, which is a truth value
  as long as not both are 1; and the three answers open to value times filter (`AnswersAdd`).
* *Inputs.* The dot product of shared unit vectors with a row opens to 1 exactly if the row satisfies the condition (`DotsAdd`),
  and the sum of a predicate's leaves to the number of leaves that hold (`InputsMeanBits`), the fold over the leaves being unfolded by
  `SumDefined`. Keys stand for what they evaluate to (section 2), which is what `SharesCorrect` of `FSSKey_proofs` is about.
* *Plans.* Executed on bits in the clear, the plan of each of the five handlers evaluates the query's predicates and combines
  them (`LeadsPlan`), and the last vector is the filter `Selected` of `PrivateAggregate` (`FilterValue`).

The hypotheses are `PrfNumbers`, `FourChunks`, `RandNumbers` (random words are numbers), and `Answerable` of every request: the value fits
in the group, at most one leaf of a predicate holds (what `AlwaysDisjoint` of `FilterBuilder` shows of the leaves that clients
build), at most one of the predicates under an OR holds, and the three key pairs of a vDPF or vDCF query are generated in one second.
The last two are what the code needs and does not check: the runs `or_of_overlapping` and `second_tick` ask queries that
are not `Answerable`, and the result is wrong. TLC evaluates `Answerable` on the requests of all three runs (`RequestsAnswerable`).

`AlwaysTyped` is `TypeOK`. Words are reduced wherever they are stored, so that much is plain; what is not is that every word that a step reads
has been written. `TypeInv` therefore says besides what is on its way (`MessagesOK`: the message of the n-th exchange fits the
n-th exchange of the plan), that a server in the middle of a product has copied its first operand (`VectorsOK`), and that a combination finds
its mask among those of the last `Fill` before it, and in malicious mode its coefficients too (`FilledOK`), although a resharing
writes over the coefficients: no plan reshares between a `Fill` and the combinations that use it, which is part of
`Piece`. A resharing finds the coefficients that its own send drew (`CoeffOK`). Hypotheses: `PrfWords` (the generator draws words),
`RandNumbers`, `FourChunks`, and `RequestsFit`: numbers, leaves with as many conditions as their handler reads, and MACs for `EvalFilter` only,
as in the code. Without the last, `CoeffIndex` would divide by zero for a table of fewer than four rows.

**Tables** (`TableStore_proofs`), for any kinds, number of rows, batch size and number of operations: `TablesTyped`,
`DamageAlwaysContained`. `DamageContained` speaks of a client at rest; in the middle of an operation servers differ. `IInv` says
that the calls that are left are the end of one load or one update (`CallsOK`), that
a server has what the client wants, except rows which a call that is left will write or a lost call has spoiled
(`ServersOK`), and that every append was an operation of its own (`PointersOK`), so pointers do not
run away. Every row is in exactly one batch of a load (`RowCarried`), which is why a load repairs everything once the
table has been created.

**Aggregate trees** (`AggTree_proofs`), for one client, trees of any depth from four, any entries and any random words:
`AlwaysTyped`, `AlwaysSlotFound`, `CopiesAlwaysAgree`, `AlwaysWellFormed`, and for sums `AggregatesAlwaysExact`. None of these is
inductive: whether an append finds a place depends on which leaves there are, and in the middle of an append servers
differ. `IInv` of `AggTreeInv` says that there are three shares T of *one* tree with the entries of the log, and that every server has
its two of them, or what the append under way has made of them (`ServersOK`): grown if `AggTreeAppend1` has reached it, finished if
`AggTreeAppend2` has. The client knows the paths of the servers it has called (`ClientOK`). T itself changes only when
the last server has finished. What has to be shown of it, `RestOK`, is about one tree:

* *Shape.* `getAppendParent` goes by two flags, `midIdx` and `rightIdx` being -1. `ShapeOK` says what they mean: a node's `rightIdx`
  is set exactly if its last leaf is there, and its `midIdx` exactly if the last leaf of its left child is; and no leaf is there
  without everything on its left. So a descent ends above a free leaf or in a full tree (`FreeParentFact`), the loop of
  `appendFromParent` keeps it so (`AppendShape`), and so does a roll-up of a full tree (`RolledReady`), the new right half
  being empty except for its flags.
* *Copies.* The path depends on the shape only, hence every server finds the same (`SameFree`, `SameFinished`).
* *Values.* The shares of a node add up to the aggregate of its children (`SharesOK`). Roll-ups add share by share, which is right for
  sums (`OpenedSum`, `RolledShares`), and needs that no server has "none" where another has a share (`Split`). The client's new
  shares add up to the old value of every ancestor plus the new one (`SharedFact`), and so do the ancestors of the new leaf (`GrewShares`).

`AlwaysWellFormed` is `RestInv`, what `IInv` says between two appends; it is proved and part of no run. `AggregatesAlwaysExact` assumes `AggFunc = "sum"`: maxima of shares are no shares of the maximum (`Tree.cpp:129`). All
assume that one client appends, as in the repository; with two the assertions do fail (section 3).

**Induction, recursion, sums and remainders** (`RecursionFacts`). The library's induction theorems take an operator as a parameter and cannot be
used here, but `LeastElement` follows from the library's well-foundedness of the naturals, and induction over a set of numbers
from it (`Induction`, `BoundedInduction`). That a recursive function f[n] is what its definition says then has to be shown by
constructing it (`Iteration`, `FoldDefined`): approximations exist up to every n, and agree. `UpdateAll` of a batch
(`UpdateAllSteps`), the loops of `QueryPlans`, and in `AggTree` the way down to a free place, the loop back up and the sum of all
entries (`DescentDefined`, `ClimbsDefined`, `TotalsDefined`) are unfolded that way. A sum over a set takes its elements in an order that nobody
knows; `SumOrder` shows that any element can come first, which makes such a sum a recursion over numbers (`SumDefined`, `SumUnique`).

**Only model-checked.** Liveness (`Termination`, `EventuallyReturned`, `EventuallyStarted`, `EventuallyAnswered`, the
fairness in the refinements of `RoundExchange` by `MultRing` and of `PrivateAggregate` by `RSSQuery`) is beyond the prover. `ImplementsAggregateSafety` says that a
result is right, not that there is one: that the client's assertions about the MACs of malicious requests pass, so that they are
answered, is checked by the exact run only. So are
`RecentLeaves` and `QueryExact` of `AggTree`, which count leaves and sum over sets of nodes.

## 6. Not modelled

* *Two concurrent queries with data.* The exchange mixes up their vectors and `prfCounter` is not
  protected (`server.cpp:709`); `MultRing` covers the threads of this case, `RSSQuery` has one query.
* *Aggregate trees* with two clients, lost calls, depths below 4, and multi-threaded evaluation
  (depth 14 and more); MACs of trees. Queries are checked at depth 4 only. After a lost `AggTreeAppend2` the program reads outside of an empty path,
  and a model that stopped there would promise what the code does not.
* *Tables* that are replaced while a query reads them; two clients that update a table (`server.cpp:309`), whose
  calls interleave at the servers without any protection. The repository runs one client.
* *`FINISH` events* of `CallData`, which only delete themselves.
* *Conversions and input*: serialization of vectors and keys (blocks and words are copied as they are),
  batching of updates, the parser of queries, addresses and configuration files.
* *`HighSpeedNetIO`*, the one-bit group of FSS keys and interval containment (`dcf_generate`), which nothing calls.
* *Bench and tests*, apart from the start of the servers; vendored code (libOTe, gRPC stubs generated from
  `query.proto`, `json.hpp`, libPSI).

Most of the repository's lines are of that last kind: the program itself has about 9,000 lines of C++,
of which 3,800 are modelled; the remainder is mostly declarations, messages being filled in and read out,
timing and printing. AES, the PRNG and gRPC appear in the model by what the program relies on.

## 7. What could be added

* Proofs about the MACs of malicious requests, and of `QueryExact`.
* `RSSQuery` with two queries and the shared `prfCounter`.
* `AggTree` with two clients.
