----------------------------- MODULE FilterKeys -----------------------------
(***************************************************************************)
(* Where the FSS keys of AggQuery's conditions are kept.  A client has one *)
(* vector of generated keys for each of its tables; a server has one       *)
(* vector of received keys for each table, for all the queries it is       *)
(* evaluating.  A query's handler appends its keys one by one, evaluates   *)
(* every key in the vector of the last condition's table and then clears   *)
(* that vector.                                                            *)
(*                                                                         *)
(* A key (of a range, the pair of its two keys) is the value it selects;   *)
(* what generating and evaluating one does is in FSSKey.  A server's first *)
(* and second vector of a table are changed together and are one here.     *)
(***************************************************************************)
EXTENDS Integers, Sequences, SequencesExt

CONSTANTS
  Tables,    \* DPF and DCF tables
  Values,    \* what a condition may ask for: a point, or a range
  Clients,   \* client processes
  Queries,   \* numbered in the order in which they are asked
  Servers,   \* the query servers
  MaxConds,  \* bound on the conditions of a query
  Nothing    \* a result that was allocated and never written

VARIABLES
  made,      \* made[c][t]: the keys client c has generated for table t
  client,    \* client[q]: the client that asked q
  conds,     \* conds[q]: the conditions of q; empty before q is asked
  request,   \* request[q]: the keys in the request
  parsed,    \* parsed[s][q]: how many of them s has deserialized
  handler,   \* handler[s][q]: how far s is with q
  keys,      \* keys[s][t]: the vector of table t at server s
  filter     \* filter[s][q]: what each condition was evaluated to

vars == <<made, client, conds, request, parsed, handler, keys, filter>>

Condition  == [table : Tables, value : Values]
Conditions == UNION {[1 .. n -> Condition] : n \in 1 .. MaxConds}

Init ==
  /\ made = [c \in Clients |-> [t \in Tables |-> <<>>]]
  /\ client \in [Queries -> Clients]
  /\ conds = [q \in Queries |-> <<>>]
  /\ request = [q \in Queries |-> <<>>]
  /\ parsed = [s \in Servers |-> [q \in Queries |-> 0]]
  /\ handler = [s \in Servers |-> [q \in Queries |-> "none"]]
  /\ keys = [s \in Servers |-> [t \in Tables |-> <<>>]]
  /\ filter = [s \in Servers |-> [q \in Queries |-> <<>>]]

Finished(q) == \A s \in Servers : handler[s][q] = "finished"

\* A client's vectors after the first i conditions of cs: each condition is
\* generated three times, once for each pair of servers.
Generated(c, cs, i) ==
  [t \in Tables |->
     made[c][t] \o
       FlattenSeq([j \in 1 .. i |-> IF cs[j].table = t
                                   THEN <<cs[j].value, cs[j].value, cs[j].value>>
                                   ELSE <<>>])]

\* The table's metadata is registered again: its vector starts anew.
Register(c, t) ==
  /\ made[c][t] # <<>>
  /\ made' = [made EXCEPT ![c][t] = <<>>]
  /\ UNCHANGED <<client, conds, request, parsed, handler, keys, filter>>

\* GenerateCombinedFilter and the three calls: serialize_keys takes the first
\* key of the table's vector.
Ask(q, cs) ==
  /\ conds[q] = <<>>
  /\ \A p \in Queries : p < q => conds[p] # <<>>
                                 /\ (client[p] = client[q] => Finished(p))
  /\ conds' = [conds EXCEPT ![q] = cs]
  /\ request' = [request EXCEPT ![q] =
       [i \in DOMAIN cs |-> Head(Generated(client[q], cs, i)[cs[i].table])]]
  /\ made' = [made EXCEPT ![client[q]] = Generated(client[q], cs, Len(cs))]
  /\ handler' = [s \in Servers |-> [handler[s] EXCEPT ![q] = "parsing"]]
  /\ UNCHANGED <<client, parsed, keys, filter>>

\* deserialize_key of the next base filter.
Deserialize(s, q) ==
  /\ handler[s][q] = "parsing"
  /\ parsed[s][q] < Len(conds[q])
  /\ LET i == parsed[s][q] + 1 IN
       keys' = [keys EXCEPT ![s][conds[q][i].table] = Append(@, request[q][i])]
  /\ parsed' = [parsed EXCEPT ![s][q] = @ + 1]
  /\ UNCHANGED <<made, client, conds, request, handler, filter>>

LastTable(q) == conds[q][Len(conds[q])].table

\* parallel_eval of the last base filter's table, the i-th key into the i-th
\* result.  A key beyond the query's results is written past their end.
Evaluate(s, q) ==
  /\ handler[s][q] = "parsing"
  /\ parsed[s][q] = Len(conds[q])
  /\ filter' = [filter EXCEPT ![s][q] =
       [i \in DOMAIN conds[q] |->
          IF i <= Len(keys[s][LastTable(q)]) THEN keys[s][LastTable(q)][i]
          ELSE Nothing]]
  /\ handler' = [handler EXCEPT ![s][q] = "evaluated"]
  /\ UNCHANGED <<made, client, conds, request, parsed, keys>>

\* key.clear, when the evaluating threads have been joined.
Clear(s, q) ==
  /\ handler[s][q] = "evaluated"
  /\ keys' = [keys EXCEPT ![s][LastTable(q)] = <<>>]
  /\ handler' = [handler EXCEPT ![s][q] = "finished"]
  /\ UNCHANGED <<made, client, conds, request, parsed, filter>>

Next ==
  \/ \E c \in Clients, t \in Tables : Register(c, t)
  \/ \E q \in Queries : \E cs \in Conditions : Ask(q, cs)
  \/ \E s \in Servers, q \in Queries :
       Deserialize(s, q) \/ Evaluate(s, q) \/ Clear(s, q)

Spec == Init /\ [][Next]_vars

-----------------------------------------------------------------------------
\* Every condition of a query is evaluated to the selection it asks for,
\* whatever was asked before, of the same table or at the same time.
OwnConditions ==
  \A s \in Servers, q \in Queries :
    handler[s][q] = "finished" =>
      \A i \in DOMAIN conds[q] : filter[s][q][i] = conds[q][i].value

=============================================================================
