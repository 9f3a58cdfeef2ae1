----------------------------- MODULE TableStore -----------------------------
(***************************************************************************)
(* A table at the three servers, and the client that loads and updates it. *)
(*                                                                         *)
(* A row is split into three shares; server s keeps share s in its first   *)
(* table and share s + 1 in its second one.  An operation of the client is *)
(* a sequence of calls, one after the other; their answers are empty and   *)
(* their Status is ignored, so that a call that fails leaves the servers   *)
(* with different tables.                                                  *)
(*                                                                         *)
(* A share is <<split, j>>: the j-th share of what was split for the row.  *)
(* The shares of a row add up to its value iff they are of the same split. *)
(* A row stands for a column of a DCF or DPF table, for an entry of a      *)
(* value list, and for a row of both tables of a block-offset table.       *)
(***************************************************************************)
EXTENDS Integers, SequencesExt

CONSTANTS
  Kinds,      \* of tables: "val" (value list), "fss" (DCF and DPF tables),
              \* "onehot" and "bo"
  Window,     \* number of rows
  Chunk,      \* number of updates in a batch
  MaxOps      \* bound: number of the client's operations

ASSUME SizeAssumption == Window \in Nat \ {0} /\ Chunk \in Nat \ {0} /\ MaxOps \in Nat
ASSUME KindAssumption == Kinds \subseteq {"val", "fss", "onehot", "bo"}

VARIABLES
  kind,       \* of the table
  table,      \* table[s]: the table of server s, or Absent
  up,         \* up[s]: server s has not crashed
  calls,      \* the calls that the client still has to make
  ops,        \* number of operations that the client has started
  want,       \* what the servers should have in the end, for the properties
  hurt        \* what lost calls may have spoiled, for the properties

vars == <<kind, table, up, calls, ops, want, hurt>>

Server     == 0 .. 2
Row        == 0 .. Window - 1
APPEND_LOC == -1
POINTER    == -2          \* the write pointer, as a member of hurt
Absent     == <<>>
Zero       == <<0, 0>>    \* the split whose shares are all 0
Splits     == {Zero} \union ((1 .. MaxOps) \X Row)

\* The shares of a split that server s gets.
Shares(split, s) == [first |-> <<split, s>>, second |-> <<split, (s + 1) % 3>>]

-----------------------------------------------------------------------------
(* A server.                                                               *)

Fresh(s) == [rows |-> [r \in Row |-> Shares(Zero, s)], ptr |-> 0]

\* Where an update goes.
Location(t, loc) == IF loc = APPEND_LOC THEN t.ptr ELSE loc

\* Mutant of InRange: the bound itself is taken for a row.
InRangeOff(loc) == loc <= Window

\* updateRank and oneHotTableUpdateRank throw for other locations.
InRange(loc) == loc < Window

Written(rows, loc, row) ==
  [r \in DOMAIN rows \union {loc} |-> IF r = loc THEN row ELSE rows[r]]

\* An update of a table.  An append moves the pointer even if the
\* table is full and nothing is written.
Update(t, u) ==
  LET loc == Location(t, u.loc)
  IN  [rows |-> IF InRange(loc) THEN Written(t.rows, loc, u.shares) ELSE t.rows,
       ptr  |-> IF u.loc = APPEND_LOC THEN t.ptr + 1 ELSE t.ptr]

\* A batch.  No update of a batch throws: their locations are rows.
UpdateAll(t, batch) ==
  FoldLeft(Update, t, batch)

-----------------------------------------------------------------------------
(* The client.                                                             *)

\* AddValList goes on for one batch too many if Chunk divides Window.
Batches == IF kind = "val" THEN Window \div Chunk + 1 ELSE (Window + Chunk - 1) \div Chunk

\* Mutant of CarriedFrom: every batch begins with empty requests.
CarriedFromFresh(b) == (b - 1) * Chunk

\* Batch b carries the rows from CarriedFrom(b) on that are below CarriedTo(b).
\* AddValList never empties its requests.
CarriedFrom(b) == IF kind = "val" THEN 0 ELSE (b - 1) * Chunk
CarriedTo(b)   == IF b * Chunk < Window THEN b * Chunk ELSE Window

\* An update of a row, as server s gets it.
UpdateOf(split, loc, s) == [loc |-> loc, shares |-> Shares(split, s)]

\* The i-th call of AddValList, AddDCFTable, AddDPFTable, AddOneHotTable and
\* AddBOTable: phase 0 creates the table, the phases after it are the batches.
\* A phase calls one server after the other.
LoadCall(n, i) ==
  LET b == (i - 1) \div 3
      s == (i - 1) % 3
  IN  [to |-> s, phase |-> b,
       batch |-> IF b = 0 THEN <<>>
                 ELSE [k \in 1 .. CarriedTo(b) - CarriedFrom(b) |->
                         LET r == CarriedFrom(b) + k - 1 IN UpdateOf(<<n, r>>, r, s)]]

LoadCalls(n) == [i \in 1 .. 3 * (Batches + 1) |-> LoadCall(n, i)]

\* The calls of a single update.
RunCalls(n, loc) ==
  [i \in 1 .. 3 |->
     [to |-> i - 1, phase |-> -1, batch |-> <<UpdateOf(<<n, 0>>, loc, i - 1)>>]]

Init ==
  /\ kind \in Kinds
  /\ table = [s \in Server |-> Absent]
  /\ up = [s \in Server |-> TRUE]
  /\ calls = <<>>
  /\ ops = 0
  /\ want = [rows |-> [r \in Row |-> Zero], ptr |-> 0]
  /\ hurt = {}

Idle == calls = <<>>

\* The table is created, or replaced, and filled with new data.
Load ==
  /\ Idle /\ ops < MaxOps
  /\ ops' = ops + 1
  /\ calls' = LoadCalls(ops')
  /\ want' = [rows |-> [r \in Row |-> <<ops', r>>], ptr |-> 0]
  /\ hurt' = {}
  /\ UNCHANGED <<kind, table, up>>

\* RunDCFUpdate, RunDPFUpdate; the servers take such calls for the other
\* kinds of tables as well.  Nobody appends to a full table of the kinds that
\* do not check locations: it would write outside of it.
Run(loc) ==
  LET at == IF loc = APPEND_LOC THEN want.ptr ELSE loc IN
  /\ Idle /\ 0 < ops /\ ops < MaxOps
  /\ kind \in {"val", "fss"} /\ loc = APPEND_LOC =>
       \A s \in Server : table[s] # Absent => table[s].ptr < Window
  /\ ops' = ops + 1
  /\ calls' = RunCalls(ops', loc)
  /\ want' = [rows |-> IF at < Window THEN Written(want.rows, at, <<ops', 0>>) ELSE want.rows,
              ptr  |-> IF loc = APPEND_LOC THEN want.ptr + 1 ELSE want.ptr]
  /\ hurt' = hurt \ {at}
  /\ UNCHANGED <<kind, table, up>>

Called == Head(calls)
Replied == calls' = Tail(calls) /\ UNCHANGED <<kind, ops, want>>

\* SendListInit, SendDCFInit, SendDPFInit, SendOneHotTableInit,
\* SendBOTableInit.
Create ==
  /\ ~ Idle /\ Called.phase = 0 /\ up[Called.to]
  /\ table' = [table EXCEPT ![Called.to] = Fresh(Called.to)]
  /\ Replied
  /\ UNCHANGED <<up, hurt>>

\* The handlers of updates and of batches of updates.
Store ==
  /\ ~ Idle /\ Called.phase # 0 /\ up[Called.to] /\ table[Called.to] # Absent
  /\ table' = [table EXCEPT ![Called.to] = UpdateAll(@, Called.batch)]
  /\ Replied
  /\ UNCHANGED <<up, hurt>>

\* There is no such table: a null pointer is followed, except for BO tables,
\* whose handler throws.
NoTable ==
  /\ ~ Idle /\ Called.phase # 0 /\ up[Called.to] /\ table[Called.to] = Absent
  /\ up' = [up EXCEPT ![Called.to] = kind = "bo"]
  /\ Replied
  /\ UNCHANGED <<table, hurt>>

\* What a lost call leaves different from what the client wants: nothing, if
\* a later batch carries the rows again.
Harm ==
  LET locs == {Called.batch[k].loc : k \in DOMAIN Called.batch} IN
  CASE Called.phase = 0 -> Row \union {POINTER}
    [] Called.phase > 0 /\ kind = "val" /\ Called.phase < Batches -> {}
    [] APPEND_LOC \in locs -> Row \union {POINTER}
    [] OTHER -> locs

\* A call that does not get to its server; the client ignores the Status.
Lose ==
  /\ ~ Idle
  /\ Replied
  /\ hurt' = hurt \union Harm
  /\ UNCHANGED <<table, up>>

Next ==
  \/ Load
  \/ \E loc \in Row \union {APPEND_LOC} : Run(loc)
  \/ Create
  \/ Store
  \/ NoTable
  \/ Lose

Spec == Init /\ [][Next]_vars

-----------------------------------------------------------------------------
ShareSet == Splits \X Server
RowSet   == [first : ShareSet, second : ShareSet]

\* Tables have the rows that were asked for, whatever was appended to them.
TypeOK ==
  /\ kind \in Kinds
  /\ \A s \in Server : table[s] = Absent \/
       table[s] \in [rows : [Row -> RowSet], ptr : 0 .. MaxOps]
  /\ DOMAIN table = Server
  /\ up \in [Server -> BOOLEAN]
  /\ ops \in 0 .. MaxOps
  /\ want \in [rows : [Row -> Splits], ptr : 0 .. MaxOps]
  /\ hurt \subseteq Row \union {POINTER}

\* Between two operations, the three servers have the shares of the client's
\* last value of every row, except where a lost call did damage: one in an
\* update of a row spoils that row until it is written again, one in an
\* earlier batch of a value list spoils nothing, and only a new table repairs
\* write pointers that have come apart.
DamageContained ==
  Idle /\ ops > 0 /\ POINTER \notin hurt =>
    \A s \in Server :
      /\ up[s] /\ table[s] # Absent
      /\ table[s].ptr = want.ptr
      /\ \A r \in Row \ hurt : table[s].rows[r] = Shares(want.rows[r], s)
=============================================================================
