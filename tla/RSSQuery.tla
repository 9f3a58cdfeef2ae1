------------------------------- MODULE RSSQuery -------------------------------
(***************************************************************************)
(* One aggregate query, from the shares that the client deals to the sum   *)
(* that it returns.  The three servers run the same plan (QueryPlans) over *)
(* vectors of shares, at their own pace, and exchange shares in rounds.    *)
(* The exchange itself is RoundExchange, which MultRing implements.        *)
(*                                                                         *)
(* Shares.  Dealt data is split in three, and server s holds share s and   *)
(* share s+1.  A vector of a handler is a pair of components (res0, res1): *)
(* after an exchange, server s holds in res1 its own third of the value    *)
(* and in res0 the third of its predecessor.  Words are uint128_t, reduced *)
(* modulo Word; DPF and DCF keys add up modulo Group only (group_mod), and *)
(* the client reduces the answer modulo Group.                             *)
(*                                                                         *)
(* Columns.  In malicious mode, which only EvalFilter supports, a vector   *)
(* has a second half: the MACs of its elements, alpha times their values.  *)
(* What is exchanged is also added up with common random coefficients, and *)
(* the client asserts that the MACs of these sums, and of the answer, fit. *)
(*                                                                         *)
(* Rows are independent, so one row of the tables is modelled, with two    *)
(* buckets: bucket 1 is the row's and bucket 2 stands for the others.      *)
(***************************************************************************)
EXTENDS QueryPlans, FiniteSetsExt, TLC

CONSTANTS
  Word,         \* number of values of a word
  Group,        \* group_mod
  Requests,     \* queries that the client may send
  Window,       \* number of rows of the table (windowSize)
  MaxRounds,    \* bound on the exchanges of a plan
  NoResult,
  Rand(_, _),   \* random word number tag of a generator with a given seed
  Prf(_, _)     \* prfFieldElem

ASSUME GroupAssumption ==
  Group \in Nat \ {0} /\ Word \in Nat \ {0} /\ Word % Group = 0

ASSUME SizeAssumption == Window \in Nat \ {0} /\ MaxRounds \in Nat

\* A predicate is a sequence of leaves and a leaf one of conditions, with their
\* truth values at row row.
ASSUME RequestAssumption ==
  \A q \in Requests :
    /\ q.kind \in {"filter", "vb", "vbfss", "bo", "bofss"}
    /\ q.preds \in Seq(Seq(Seq({0, 1}))) \ {<<>>}
    /\ \A p \in DOMAIN q.preds : q.preds[p] # <<>>
    /\ q.row \in 0 .. Window - 1

Words == 0 .. Word - 1

VARIABLES
  query,        \* the request, with the randomness behind it
  plan,         \* what its handler does after the dot products
  pc,           \* pc[s]: index in the plan, 0 before the dot products
  mem,          \* mem[s][v]: server s's <<res0, res1>> of vector v
  operand,      \* operand[s]: copy of the first operand (tmp0, tmp1)
  zero,         \* zero[s][row]: zero_shares
  coeff,        \* coeff[s][i]: <<rand_coeff_shares0, 1>> of a set or a row
  check,        \* check[s]: lin_comb_accumulator and its MAC
  counter,      \* counter[s]: prfCounter
  outbox,       \* outbox[s][r]: vector of shares that s sends in round r
  answer,       \* answer[s]: res, mac and the two sums in the response of s
  result,       \* what the client returns
  published, finished, used

ring == <<published, finished, used>>
masks == <<zero, coeff, counter>>
vars == <<query, plan, pc, mem, operand, masks, check, outbox, answer, result, ring>>

Ring == INSTANCE RoundExchange WITH NumServers <- 3, Rounds <- MaxRounds

Server == Ring!Server
Prev(s) == Ring!Pred(s)
Next3(s) == (s + 1) % 3

\* Column 1 holds values, column 2 MACs; alpha is 0 in semi-honest mode.
Malicious == query.alpha # 0
Columns   == IF Malicious THEN 1 .. 2 ELSE 1 .. 1
MacFactor == Cardinality(Columns)

\* Column k of a vector's two components.
Column(v, k) == <<v[1][k], v[2][k]>>

\* Elements of a vector, MACs included (len).
VectorLen == MacFactor * Window

LeafCount == [p \in DOMAIN query.preds |-> Len(query.preds[p])]
Leaves    == UNION {{p} \X DOMAIN query.preds[p] : p \in DOMAIN query.preds}

-----------------------------------------------------------------------------
(* What the client deals.                                                  *)

\* splitIntoArithmeticShares: share j of x.
Split(x, tag, j) ==
  LET r(i) == Rand(query.seed, Append(tag, i))
  IN  IF j < 2 THEN r(j) ELSE (x - r(0) - r(1)) % Word

\* Server s's two shares of the row's one-hot vector, at bucket b.
TableShare(part, b, s, slot) ==
  Split(IF b = 1 THEN 1 ELSE 0, <<part, b>>, (s + slot) % 3)

ValueShare(s, slot) == Split(query.value, <<"value", 0>>, (s + slot) % 3)

UsesKeys == query.kind \in {"filter", "vbfss", "bofss"}

\* The query vector of a condition, at bucket b: the row satisfies it or not.
\* Keys for the MACs have alpha as their payload.
QueryEntry(bit, b, k) ==
  (IF b = 1 THEN bit ELSE 1 - bit) * (IF k = 1 THEN 1 ELSE query.alpha)

\* Pair j of the two halves of a query vector.  Vectors are masked with fresh
\* words.  Keys evaluate to halves that add up modulo Group; those of constant
\* comparisons add up modulo Word, which is more than anything here needs.
\* Keys come from a generator reseeded with the time (clkey), so those
\* generated in the same second are equal, and the client of a DPF or DCF
\* table serializes the first keys that it ever generated.
PairSeed(j) == IF query.kind = "filter" THEN query.clock[0] ELSE query.clock[j]

\* GenerateBaseVBFilter and GenerateBaseBOFilter put the random half of pairs 1
\* and 2 second.
RandomSlot(j) == IF UsesKeys \/ j = 0 THEN 0 ELSE 1

Half(c, bit, b, j, slot, k) ==
  LET modulus == IF UsesKeys THEN Group ELSE Word
      r == IF UsesKeys THEN Rand(PairSeed(j), Append(c, b) \o [i \in 1 .. k - 1 |-> k]) % Group
           ELSE Rand(query.seed, c \o <<b, j>>)
  IN  IF slot = RandomSlot(j) THEN r ELSE (QueryEntry(bit, b, k) - r) % modulus

\* Slot 0 of pair j is at server j; slot 1 is at the server that holds the
\* same table share (share j) second, or, for DPF, DCF and VBFSS keys, at the
\* other one.
PairAt(s, slot) ==
  IF slot = 0 THEN s
  ELSE IF query.kind \in {"filter", "vbfss"} THEN Prev(s) ELSE Next3(s)

-----------------------------------------------------------------------------
(* A server's handler.                                                     *)

\* Dot product of one condition with the row, with one half of the shares.
Dot(s, part, c, bit, slot, k) ==
  LET term(b) == Half(c, bit, b, PairAt(s, slot), slot, k) * TableShare(part, b, s, slot)
  IN  (term(1) + term(2)) % Word

DotPair(s, part, c, bit) ==
  [i \in 1 .. 2 |-> [k \in Columns |-> Dot(s, part, c, bit, i - 1, k)]]

\* The equal conditions of a DPF or DCF query get equal keys.
Key(part, p, l) == IF query.kind = "filter" THEN <<part, 1, 1>> ELSE <<part, p, l>>

\* Leaves that are summed before anything else; only VBFSS has several.
SumOfLeaves(s, p) ==
  LET dot(l) == DotPair(s, "onehot", Key("onehot", p, l), query.preds[p][l][1])
      sum(i, k) == MapThenSumSet(LAMBDA l : dot(l)[i][k], DOMAIN query.preds[p])
  IN  [i \in 1 .. 2 |-> [k \in Columns |-> sum(i, k) % Word]]

Inputs(s) ==
  IF query.kind \in {"bo", "bofss"}
  THEN LET bits(v) == query.preds[v[2]][v[3]][IF v[1] = "block" THEN 1 ELSE 2]
           in == UNION {{Block(at[1], at[2]), Offset(at[1], at[2])} : at \in Leaves}
       IN  [v \in in |-> DotPair(s, v[1], v, bits(v))]
  ELSE [v \in {Pred(p) : p \in DOMAIN query.preds} |-> SumOfLeaves(s, v[2])]

\* The key evaluations and dot products, before the first exchange.  BOFSS
\* does them predicate by predicate; they depend on nothing in between.
Evaluate(s) ==
  /\ pc[s] = 0
  /\ pc' = [pc EXCEPT ![s] = 1]
  /\ mem' = [mem EXCEPT ![s] = Inputs(s)]
  /\ UNCHANGED <<query, plan, operand, masks, check, outbox, answer, result, ring>>

Running(s) == pc[s] \in 1 .. Len(plan)
Instr(s) == plan[pc[s]]

\* Mutant of ZeroShare: the two values are added.
ZeroShareSum(s, idx) ==
  (Prf(query.prfKey[Prev(s)], counter[s] + idx)
     + Prf(query.prfKey[s], counter[s] + idx)) % Word

\* GetNextSecretShareOfZero(idx); prfKey1 is the predecessor's prfKey0.
ZeroShare(s, idx) ==
  (Prf(query.prfKey[Prev(s)], counter[s] + idx)
     - Prf(query.prfKey[s], counter[s] + idx)) % Word

\* GetNextSecretShareOfRandCoeff(idx).
RandCoeff(s, idx) ==
  <<Prf(query.prfKey[s], counter[s] + idx), Prf(query.prfKey[Prev(s)], counter[s] + idx)>>

\* EvalFilter fills four chunks of len / 4 elements each.
NumChunks == 4
ChunkSize == VectorLen \div NumChunks
Filled == query.kind = "filter" => query.row < NumChunks * ChunkSize

\* The PRF input of the coefficient of the query's row, as element row of a
\* Fill of rows rows: a chunk begins at the index of its zero shares and has
\* half as many coefficients.  (Windows are a multiple of four.)
CoeffIndex(row, rows) ==
  LET half == ChunkSize \div 2
  IN  row * VectorLen + (query.row \div half) * ChunkSize + (query.row % half)
        + rows * VectorLen

\* Zero shares for a whole chain of combinations.  What malloc returned stays
\* in the elements that are not filled.
FillZeros(s) ==
  /\ Running(s)
  /\ Instr(s).op = "fill"
  /\ LET first == Instr(s).first
         rows  == first .. first + Instr(s).rows - 1
     IN /\ IF Filled
            THEN zero' = [zero EXCEPT ![s] =
                            [row \in rows |-> ZeroShare(s, row * VectorLen + query.row)]]
            ELSE \E w \in Words : zero' = [zero EXCEPT ![s] = [row \in rows |-> w]]
        /\ coeff' = [coeff EXCEPT ![s] =
                        IF Malicious
                        THEN [row \in rows |-> RandCoeff(s, CoeffIndex(row, Instr(s).rows))]
                        ELSE <<>>]
  /\ counter' = [counter EXCEPT ![s] = @ + MacFactor * Instr(s).rows * VectorLen]
  /\ pc' = [pc EXCEPT ![s] = @ + 1]
  /\ UNCHANGED <<query, plan, mem, operand, check, outbox, answer, result, ring>>

\* RSSReshareInnerLoop on every vector, the coefficients, and the send.  All
\* elements of a vector, MACs included, get the same mask.
SendReshare(s) ==
  /\ Running(s)
  /\ Instr(s).op = "reshare"
  /\ Ring!Publish(s)
  /\ LET regs   == Instr(s).regs
         sets   == DOMAIN regs
         mask(i) == ZeroShare(s, (i - 1) * Len(regs) + VectorLen)
         own(i) == [k \in Columns |->
                      (mem[s][regs[i]][1][k] + mem[s][regs[i]][2][k] + mask(i)) % Word]
         index(v) == CHOOSE i \in sets : regs[i] = v
         coeffIndex(i) == Len(regs) * VectorLen + (i - 1) * Len(regs) + VectorLen
     IN  /\ mem' = [mem EXCEPT ![s] = [v \in DOMAIN mem[s] |->
                      IF v \in Range(regs) THEN <<mem[s][v][1], own(index(v))>>
                      ELSE mem[s][v]]]
         /\ outbox' = [outbox EXCEPT ![s] = Append(@, [i \in sets |-> own(i)])]
         /\ coeff' = [coeff EXCEPT ![s] =
                         IF Malicious THEN [i \in sets |-> RandCoeff(s, coeffIndex(i))]
                         ELSE <<>>]
         /\ counter' = [counter EXCEPT ![s] = @ + MacFactor * Len(regs) * VectorLen]
  /\ UNCHANGED <<query, plan, pc, operand, zero, check, answer, result>>

\* The vector of shares that s uses in its current round.
Received(s) == outbox[Prev(s)][used'[s][finished'[s]]]

\* Mutant of LocalProduct: a cross term is missing.
LocalProductShort(x, y) == x[1] * y[1] + x[2] * y[1]

\* One server's part of the product of two shared words.
LocalProduct(x, y) == x[1] * y[1] + x[2] * y[1] + x[1] * y[2]

\* AddToBatchMACCheck: what vector v adds to the accumulators with
\* coefficients c.  Nothing is added up in semi-honest mode.
CheckTerm(v, c) ==
  [k \in 1 .. 2 |-> IF Malicious THEN LocalProduct(Column(v, k), c) ELSE 0]

FinishReshare(s) ==
  /\ Running(s)
  /\ Instr(s).op = "reshare"
  /\ Ring!Finish(s)
  /\ LET regs == Instr(s).regs
         index(v) == CHOOSE i \in DOMAIN regs : regs[i] = v
         new(v) == <<Received(s)[index(v)], mem[s][v][2]>>
         terms(k) == MapThenSumSet(LAMBDA i : CheckTerm(new(regs[i]), coeff[s][i])[k],
                                   DOMAIN regs)
     IN  /\ mem' = [mem EXCEPT ![s] = [v \in DOMAIN mem[s] |->
                      IF v \in Range(regs) THEN new(v) ELSE mem[s][v]]]
         /\ check' = IF Malicious
                     THEN [check EXCEPT ![s] = [k \in 1 .. 2 |-> (@[k] + terms(k)) % Word]]
                     ELSE check
  /\ pc' = [pc EXCEPT ![s] = @ + 1]
  /\ UNCHANGED <<query, plan, operand, masks, outbox, answer, result>>

\* Multiply up to the send: the product goes to the second component of the
\* destination, which is also the first operand when a chain accumulates.
\* The MAC of x is multiplied by the value of y, and is not masked.
SendProduct(s) ==
  /\ Running(s)
  /\ Instr(s).op \in {"and", "or"}
  /\ Ring!Publish(s)
  /\ LET in == Instr(s)
         x  == mem[s][in.x]
         y  == mem[s][in.y]
         own == [k \in Columns |->
                   (LocalProduct(Column(x, k), Column(y, 1))
                      + IF k = 1 THEN zero[s][in.row] ELSE 0) % Word]
         old == IF in.dst \in DOMAIN mem[s] THEN mem[s][in.dst][1]
                ELSE [k \in Columns |-> 0]
     IN  /\ operand' = [operand EXCEPT ![s] = x]
         /\ mem' = [mem EXCEPT ![s] = [v \in DOMAIN @ \cup {in.dst} |->
                                        IF v = in.dst THEN <<old, own>> ELSE mem[s][v]]]
         /\ outbox' = [outbox EXCEPT ![s] = Append(@, <<own>>)]
  /\ UNCHANGED <<query, plan, pc, masks, check, answer, result>>

\* What OrFilters adds to one component of the product.
OrTerm(op, x, y) == IF op = "or" THEN x + y ELSE 0

\* Mutant of Completed: OR completes the received component only.
CompletedHalf(op, product, x, y) ==
  [i \in 1 .. 2 |-> [k \in Columns |->
     (product[i][k] + IF i = 1 THEN OrTerm(op, x[i][k], y[i][k]) ELSE 0) % Word]]

\* The result of a combination, from the product of its operands.
Completed(op, product, x, y) ==
  [i \in 1 .. 2 |-> [k \in Columns |->
     (product[i][k] + OrTerm(op, x[i][k], y[i][k])) % Word]]

\* The rest of Multiply, which adds the product to the accumulators, and of
\* AndFilters or OrFilters.
FinishProduct(s) ==
  /\ Running(s)
  /\ Instr(s).op \in {"and", "or"}
  /\ Ring!Finish(s)
  /\ LET in == Instr(s)
         product == <<Received(s)[1], mem[s][in.dst][2]>>
     IN  /\ mem' = [mem EXCEPT ![s][in.dst] =
                       Completed(in.op, product, operand[s], mem[s][in.y])]
         /\ check' = IF Malicious
                     THEN [check EXCEPT ![s] = [k \in 1 .. 2 |->
                             (@[k] + CheckTerm(product, coeff[s][in.row])[k]) % Word]]
                     ELSE check
  /\ pc' = [pc EXCEPT ![s] = @ + 1]
  /\ UNCHANGED <<query, plan, operand, masks, outbox, answer, result>>

\* The aggregation loop and the response.
Respond(s) ==
  /\ pc[s] = Len(plan) + 1
  /\ answer[s] = NoResult
  /\ LET v == <<ValueShare(s, 0), ValueShare(s, 1)>>
         filter == mem[s][FilterReg(query.kind)]
     IN  answer' = [answer EXCEPT ![s] =
                      [agg   |-> [k \in Columns |-> LocalProduct(v, Column(filter, k)) % Word],
                       check |-> check[s]]]
  /\ UNCHANGED <<query, plan, pc, mem, operand, masks, check, outbox, result, ring>>

\* The sum of a column of the three responses, in the client's uint128_t.
SumOf(field, k) == (answer[0][field][k] + answer[1][field][k] + answer[2][field][k]) % Word

\* The two assertions of AggQuery; the client stops where one fails.
Verified ==
  LET fits(field) ==
        ((SumOf(field, 1) % Group) * query.alpha) % Group = SumOf(field, 2) % Group
  IN  Malicious => fits("agg") /\ fits("check")

\* Mutant of Gather: the sum is not reduced modulo group_mod.
GatherUnreduced ==
  /\ result = NoResult
  /\ \A s \in Server : answer[s] # NoResult
  /\ Verified
  /\ result' = SumOf("agg", 1)
  /\ UNCHANGED <<query, plan, pc, mem, operand, masks, check, outbox, answer, ring>>

\* The client has the three responses, adds them up, reduces the sums and
\* checks the MACs.
Gather ==
  /\ result = NoResult
  /\ \A s \in Server : answer[s] # NoResult
  /\ Verified
  /\ result' = SumOf("agg", 1) % Group
  /\ UNCHANGED <<query, plan, pc, mem, operand, masks, check, outbox, answer, ring>>

Returned == result # NoResult /\ UNCHANGED vars

-----------------------------------------------------------------------------
Init ==
  /\ query \in Requests
  /\ plan = Plan(query.kind, LeafCount, query.isAnd)
  /\ pc = [s \in Server |-> 0]
  /\ mem = [s \in Server |-> <<>>]
  /\ operand = [s \in Server |-> <<>>]
  /\ zero = [s \in Server |-> <<>>]
  /\ coeff = [s \in Server |-> <<>>]
  /\ check = [s \in Server |-> <<0, 0>>]
  /\ counter = [s \in Server |-> 0]
  /\ outbox = [s \in Server |-> <<>>]
  /\ answer = [s \in Server |-> NoResult]
  /\ result = NoResult
  /\ Ring!Init

Step(s) ==
  \/ Evaluate(s) \/ FillZeros(s)
  \/ SendReshare(s) \/ FinishReshare(s)
  \/ SendProduct(s) \/ FinishProduct(s)
  \/ Respond(s)

Next == (\E s \in Server : Step(s)) \/ Gather \/ Returned

Spec == Init /\ [][Next]_vars

\* Every server goes on with the query and the client reads the responses.
FairSpec == Spec /\ (\A s \in Server : WF_vars(Step(s))) /\ WF_vars(Gather)

-----------------------------------------------------------------------------
(* Properties.                                                             *)

Shares == [1 .. 2 -> [Columns -> Words]]

TypeOK ==
  /\ \A s \in Server :
       /\ pc[s] \in 0 .. Len(plan) + 1
       /\ \A v \in DOMAIN mem[s] : mem[s][v] \in Shares
       /\ \A row \in DOMAIN zero[s] : zero[s][row] \in Words
       /\ operand[s] \in Shares \cup {<<>>}
       /\ \A i \in DOMAIN coeff[s] : coeff[s][i] \in Words \X Words
       /\ check[s] \in Words \X Words
       /\ counter[s] \in Nat
       /\ Len(outbox[s]) = published[s]
       /\ answer[s] # NoResult =>
            answer[s] \in [agg : [Columns -> Words], check : Words \X Words]
  /\ result \in (0 .. Group - 1) \cup {NoResult}

\* Between two instructions, not in the middle of an exchange.
AtRest(s) == published[s] = finished[s]

\* The vectors that the instructions before server s's current one wrote.
Written(s) ==
  UNION {IF plan[i].op = "reshare" THEN Range(plan[i].regs) ELSE {plan[i].dst} :
           i \in {j \in 1 .. Len(plan) : j < pc[s] /\ plan[j].op \in Exchanges}}

\* After any number of exchanges, a server and its predecessor hold the same
\* third of every vector: what RSSReshare, Multiply and OrFilters do to the
\* received component at one server they do to the sent one at the other,
\* and both took part in the same exchanges in the same order.
Replicated ==
  \A s \in Server :
    pc[s] = pc[Prev(s)] /\ AtRest(s) /\ AtRest(Prev(s)) =>
      \A v \in Written(s) : mem[s][v][1] = mem[Prev(s)][v][2]

\* Whatever the servers' paces, the masks that they use for the same
\* combination add up to zero: their PRF counters moved alike in every
\* exchange before, though each handler moves them by other amounts.
MasksCancel ==
  (\A s \in Server : pc[s] = pc[0] /\ Running(s) /\ Instr(s).op \in {"and", "or"}) =>
    LET row == Instr(0).row
    IN  (zero[0][row] + zero[1][row] + zero[2][row]) % Word = 0

Aggregate == INSTANCE PrivateAggregate

\* Every query is answered, and with the value of the row exactly if the
\* predicates select it: no step of five different plans, no mask, no word
\* that wraps and no pace of the servers changes the result, or, in malicious
\* mode, makes the client's assertions fail.
ImplementsAggregate == Aggregate!Spec

\* The queries that the handlers answer exactly: the value fits in the group,
\* a leaf has as many conditions as its handler expects, at most one leaf of a
\* predicate holds, and at most one predicate of those that are combined by OR
\* (sums and OrFilters count, where a disjunction does not); a client of a
\* vector DPF or DCF query generates its three pairs of keys in one second.
Answerable(q) ==
  /\ q.value \in 0 .. Group - 1
  /\ \A p \in DOMAIN q.preds : \A l \in DOMAIN q.preds[p] :
       Len(q.preds[p][l]) = IF q.kind \in {"bo", "bofss"} THEN 2 ELSE 1
  /\ \A p \in DOMAIN q.preds : \A l, m \in DOMAIN q.preds[p] :
       Aggregate!LeafHolds(q.preds[p][l]) /\ Aggregate!LeafHolds(q.preds[p][m]) => l = m
  /\ ~q.isAnd => \A p, r \in DOMAIN q.preds :
       Aggregate!PredHolds(q.preds[p]) /\ Aggregate!PredHolds(q.preds[r]) => p = r
  /\ q.kind = "vbfss" => q.clock[0] = q.clock[1] /\ q.clock[0] = q.clock[2]

\* The result alone, for the runs that show where the code differs.
ExactResult == result # NoResult => result = Aggregate!Exact(query)

=============================================================================
