------------------------------- MODULE AggTree -------------------------------
(***************************************************************************)
(* The aggregate tree of the servers and the client's two-phase append.    *)
(*                                                                         *)
(* A server keeps two trees of the same shape, one with share s and one    *)
(* with share s+1 of the aggregate of every node.  The client asks every   *)
(* server for the path from the next free node to the root (AggTreeAppend1),*)
(* adds the value up in the clear, and writes fresh shares back            *)
(* (AggTreeAppend2).  A full tree is rolled up: the oldest half loses its  *)
(* leaves, and the servers aggregate on their shares.                      *)
(*                                                                         *)
(* A query (AggTreeQuery) has three pairs of comparison keys for each of   *)
(* its two bounds; every server multiplies what its keys select with its   *)
(* shares, level by level, and the client adds the answers up.             *)
(*                                                                         *)
(* A node is named by the path that leads to it; its depth is the length   *)
(* of the path.  Indices and aggregates are unsigned, and -1 stands for    *)
(* none; no share of an aggregate is -1.  finishAppend takes an index as a *)
(* uint32_t, so that no index is -1 and none wraps around.                 *)
(***************************************************************************)
EXTENDS Integers, SequencesExt

CONSTANTS
  Depth,          \* maxDepth: leaves are at Depth - 1
  AggFunc,        \* "sum" or "mx"
  Clients,
  Entries,        \* Entries[n]: the [idx, val] that the n-th append may have
  Queries,        \* the [l, r, clock] that a query may have: leaves below l and
                  \* above r; clock[k] is the second when key pair k is generated
  FirstQuery,     \* number of entries before there are queries
  Word,           \* number of values of a word
  Group,          \* the modulus of the keys and of answers; divides Word
  Rand(_, _, _)   \* random word j of element i in the n-th append

\* Depth 1 would not even be built, and 3 is never rolled up: fillEmptySubtree
\* only stops at depth maxDepth - 2 and does not end below it.
ASSUME DepthAssumption == Depth \in Nat /\ Depth >= 4
ASSUME WordAssumption == Word \in Nat \ {0}
ASSUME EntriesAssumption == Entries \in Seq(SUBSET [idx : Nat, val : 0 .. Word - 1])
ASSUME RandAssumption ==
  \A n \in 0 .. Len(Entries), i \in 1 .. Depth, j \in 0 .. 1 : Rand(n, i, j) \in 0 .. Word - 1

VARIABLES
  tree,      \* tree[s][c]: path -> node; c = 0 for first, 1 for second
  nextFree,  \* nextFree[s]: next_free of both trees
  crashed,   \* crashed[s]: an assertion of server s failed
  client,    \* client[c]: the append or query that c is busy with
  log        \* the entries appended so far, for the properties

vars == <<tree, nextFree, crashed, client, log>>

Server == 0 .. 2
Slot   == 0 .. 1
None   == -1
NULL   == <<"NULL">>

PathsTo(d) == UNION {[1 .. n -> {"L", "R"}] : n \in 0 .. d}
Paths == PathsTo(Depth - 1)
Parent(p) == Front(p)
Inner == {p \in Paths : Len(p) <= Depth - 2}

EmptyNode == [left |-> None, mid |-> None, right |-> None, agg |-> None]

\* uint64_t: -1 is larger than any index.
UMin(a, b) == IF a = None THEN b ELSE IF b = None THEN a ELSE IF a < b THEN a ELSE b
UMax(a, b) == IF None \in {a, b} THEN None ELSE IF a < b THEN b ELSE a

\* computeAggregate.
Aggregate(a, b) ==
  IF a = None THEN b ELSE IF b = None THEN a
  ELSE IF AggFunc = "sum" THEN (a + b) % Word ELSE UMax(a, b)

-----------------------------------------------------------------------------
(* One tree.                                                               *)

\* RootNode: all nodes but the leaves.
EmptyTree == [p \in Inner |-> EmptyNode]

\* One step down from node p: to a child that has a free place, or NULL.
Descend(t, p) ==
  LET l == Append(p, "L")  r == Append(p, "R") IN
  IF p = NULL \/ {l, r} \cap DOMAIN t = {} THEN p
  ELSE IF l \in DOMAIN t /\ t[p].mid = None THEN l
  ELSE IF r \in DOMAIN t /\ t[p].right = None THEN r
  ELSE NULL

\* getAppendParent without the roll-up: a node that has a free place, or NULL.
FreeParent(t) ==
  LET down[k \in 0 .. Depth - 2] == IF k = 0 THEN <<>> ELSE Descend(t, down[k - 1])
  IN  down[Depth - 2]

\* Where the nodes of a rolled-up tree come from, below the three new ones:
\* <<L, L, ..>> from <<L, ..>>, <<L, R, ..>> from <<R, L, ..>> and
\* <<R, L, ..>> from <<R, R, ..>>.
Origin(p) ==
  LET rest == SubSeq(p, 3, Len(p)) IN
  CASE p[1] = "L" /\ p[2] = "L" -> <<"L">> \o rest
    [] p[1] = "L" /\ p[2] = "R" -> <<"R", "L">> \o rest
    [] p[1] = "R" /\ p[2] = "L" -> <<"R", "R">> \o rest

\* Mutant of OldRoot: its aggregate is not computed again.
OldRootStale(t) ==
  LET rl == t[<<"R", "L">>]
  IN  [t[<<>>] EXCEPT !.mid = rl.left, !.right = rl.right]

\* The old root, now the left child, with what was left of the new root.
OldRoot(t) ==
  LET rl == t[<<"R", "L">>]
  IN  [left |-> t[<<>>].left, mid |-> rl.left, right |-> rl.right,
       agg |-> Aggregate(t[<<"L">>].agg, rl.agg)]

\* The old right child; its rightIdx is left as it was.
NewRoot(t) ==
  LET old == OldRoot(t)  rr == t[<<"R", "R">>]
  IN  [left |-> old.left, mid |-> UMin(old.right, rr.left), right |-> t[<<"R">>].right,
       agg |-> Aggregate(old.agg, rr.agg)]

\* A new node for what was right of the new root.
NewRight(t) ==
  LET rr == t[<<"R", "R">>]
  IN  [left |-> rr.left, mid |-> rr.right, right |-> rr.right, agg |-> rr.agg]

\* Mutant of TooDeep: the leaves on the left are deleted too.
TooDeepEarly(p) == Len(p) >= Depth - 1 /\ p[1] = "L"

\* The nodes that a roll-up deletes.
TooDeep(p) == Len(p) >= Depth

\* rollup: rotate left, put what is right of the new root beside an empty
\* subtree, and delete the nodes that are now too deep.
RollUp(t) ==
  LET below == {p \in PathsTo(Depth) : Len(p) >= 2}
      fresh == {p \in below : p \in Inner /\ <<p[1], p[2]>> = <<"R", "R">>}
      moved == {p \in below : /\ <<p[1], p[2]>> # <<"R", "R">>
                              /\ Origin(p) \in DOMAIN t /\ ~TooDeep(p)}
  IN  [p \in {<<>>, <<"L">>, <<"R">>} \cup moved \cup fresh |->
         CASE p = <<>>    -> NewRoot(t)
           [] p = <<"L">> -> OldRoot(t)
           [] p = <<"R">> -> NewRight(t)
           [] p \in fresh -> EmptyNode
           [] p \in moved -> t[Origin(p)]]

\* The node that rollup returns: the first one of the empty subtree.
FirstFresh == [i \in 1 .. Depth - 2 |-> IF i <= 2 THEN "R" ELSE "L"]

\* The aggregates from node p up to the root.
PathUp(t, p) == [i \in 1 .. Len(p) + 1 |-> t[SubSeq(p, 1, Len(p) + 1 - i)].agg]

\* The free place below p; both may be taken.
Place(t, p) ==
  IF Append(p, "L") \notin DOMAIN t THEN Append(p, "L") ELSE Append(p, "R")
IsFull(t, p) == {Append(p, "L"), Append(p, "R")} \subseteq DOMAIN t

\* Mutant of Widen: a left child that is full is not noted.
WidenNever(node, side, child, childRight) ==
  IF side = "L"
  THEN [node EXCEPT !.left = IF @ = None THEN child.left ELSE UMin(@, child.left)]
  ELSE [node EXCEPT !.mid = IF @ = None THEN child.left ELSE UMin(@, child.left),
                    !.right = IF @ = None THEN child.right ELSE UMax(@, child.right)]

\* The indices of a node whose child on the given side has grown; childRight
\* is the rightIdx of the child's right child, or none.  A left child is full
\* once its right child is, and midIdx notes that.
Widen(node, side, child, childRight) ==
  IF side = "L"
  THEN [node EXCEPT
          !.left = IF @ = None THEN child.left ELSE UMin(@, child.left),
          !.mid = IF childRight = None THEN @
                  ELSE IF @ = None THEN child.right + 1 ELSE UMax(@, child.right + 1)]
  ELSE [node EXCEPT
          !.mid = IF @ = None THEN child.left ELSE UMin(@, child.left),
          !.right = IF @ = None THEN child.right ELSE UMax(@, child.right)]

\* Update of the inner node p, after its child on the given side.
Climb(t, p, side, agg) ==
  LET child == Append(p, side)
      right == Append(child, "R")
      childRight == IF right \in DOMAIN t THEN t[right].right ELSE None
  IN  [t EXCEPT ![p] = [Widen(@, side, t[child], childRight) EXCEPT !.agg = agg]]

\* appendFromParent: a new leaf below p, and the nodes above it from the bottom
\* up; aggs[1] is the leaf's and aggs[i + 1] the i-th ancestor's aggregate.
AppendBelow(t, p, idx, aggs) ==
  LET leaf == Place(t, p)
      n == Len(leaf)
      new == [left |-> idx, mid |-> idx, right |-> idx, agg |-> aggs[1]]
      up[k \in 0 .. n] ==
        IF k = 0 THEN [q \in DOMAIN t \cup {leaf} |-> IF q = leaf THEN new ELSE t[q]]
        ELSE Climb(up[k - 1], SubSeq(leaf, 1, n - k), leaf[n - k + 1], aggs[k + 1])
  IN  up[n]

-----------------------------------------------------------------------------
(* A server: the handlers AggTreeAppend1 and AggTreeAppend2.               *)

\* What a server answers: the paths in both of its trees.
BothPaths(t, p) == [i \in Slot |-> PathUp(t[i], p)]

\* getAppendPath on both trees, which have the same shape.
Append1(s, c) ==
  /\ client[c].pc = "append1"
  /\ client[c].to = s
  /\ ~crashed[s]
  /\ LET free   == FreeParent(tree[s][0])
         grown  == [i \in Slot |-> IF free = NULL THEN RollUp(tree[s][i]) ELSE tree[s][i]]
         parent == IF free = NULL THEN FirstFresh ELSE free
     IN  IF nextFree[s] # NULL \/ Len(parent) # Depth - 2
         THEN crashed' = [crashed EXCEPT ![s] = TRUE] /\ UNCHANGED <<tree, nextFree, client>>
         ELSE /\ tree' = [tree EXCEPT ![s] = grown]
              /\ nextFree' = [nextFree EXCEPT ![s] = parent]
              /\ client' = [client EXCEPT
                   ![c].parents = Append(@, BothPaths(grown, parent)),
                   ![c].pc = IF s = 2 THEN "combine" ELSE @,
                   ![c].to = (s + 1) % 3]
              /\ UNCHANGED crashed
  /\ UNCHANGED log

\* Mutant of ShareOf: the second tree gets the share of the wrong neighbour.
ShareOfPrevious(s, i) == (s + 2 * i) % 3

\* The share in tree i of server s.
ShareOf(s, i) == (s + i) % 3

\* finishAppend on both trees.
Append2(s, c) ==
  /\ client[c].pc = "append2"
  /\ client[c].to = s
  /\ ~crashed[s]
  /\ IF nextFree[s] = NULL \/ (nextFree[s] # NULL /\ IsFull(tree[s][0], nextFree[s]))
     THEN crashed' = [crashed EXCEPT ![s] = TRUE] /\ UNCHANGED <<tree, nextFree, client, log>>
     ELSE /\ tree' = [tree EXCEPT ![s] = [i \in Slot |->
                        AppendBelow(@[i], nextFree[s], client[c].entry.idx,
                                    client[c].shares[ShareOf(s, i)])]]
          /\ nextFree' = [nextFree EXCEPT ![s] = NULL]
          /\ client' = [client EXCEPT ![c].pc = IF s = 2 THEN "idle" ELSE @,
                                      ![c].to = (s + 1) % 3]
          /\ log' = IF s = 2 THEN Append(log, client[c].entry) ELSE log
          /\ UNCHANGED crashed

-----------------------------------------------------------------------------
(* A client: AggTreeAppend.                                                *)

Idle == [pc |-> "idle", to |-> 0, entry |-> [idx |-> 0, val |-> 0],
         parents |-> <<>>, shares |-> [j \in 0 .. 2 |-> <<>>],
         query |-> [l |-> 0, r |-> 0, clock |-> <<>>], answers |-> <<>>, result |-> NULL]

\* Mutant of Local: what the last append has read is still there.
LocalReused(c) == client[c]

\* The local variables of an append.
Local(c) == Idle

Busy == Cardinality({c \in Clients : client[c].pc # "idle"})

StartAppend(c) ==
  /\ client[c].pc = "idle"
  /\ Len(log) + Busy < Len(Entries)
  /\ \E entry \in Entries[Len(log) + Busy + 1] :
       client' = [client EXCEPT ![c] = [Local(c) EXCEPT !.pc = "append1", !.entry = entry]]
  /\ UNCHANGED <<tree, nextFree, crashed, log>>

\* Element i of the path: -1 if it has no value yet, or the sum of the shares.
Combined(parents, i) ==
  IF parents[1][0][i] = None THEN None
  ELSE (parents[1][0][i] + parents[2][0][i] + parents[3][0][i]) % Word

\* combineArithmeticShares, propagateNewVal and splitIntoArithmeticShares.
Combine(c) ==
  /\ client[c].pc = "combine"
  /\ LET parents == client[c].parents
         val     == client[c].entry.val
         aggs    == [i \in 1 .. Len(parents[1][0]) + 1 |->
                       IF i = 1 THEN val ELSE Aggregate(Combined(parents, i - 1), val)]
         r(j, i) == Rand(Len(log), i, j)
     IN  client' = [client EXCEPT
           ![c].pc = "append2",
           ![c].shares = [j \in 0 .. 2 |-> [i \in DOMAIN aggs |->
              IF j < 2 THEN r(j, i) ELSE (aggs[i] - r(0, i) - r(1, i)) % Word]]]
  /\ UNCHANGED <<tree, nextFree, crashed, log>>

-----------------------------------------------------------------------------
(* A query: AggTreeQuery of the client and of the servers.                 *)

Side == {"l", "r"}
Sum(S, value(_)) == FoldSet(LAMBDA e, acc : value(e) + acc, 0, S)

\* The place of a node in its level, from the left, and in breadth-first order.
Rank == [p \in Paths |->
           FoldLeft(LAMBDA a, side : 2 * a + (IF side = "L" THEN 0 ELSE 1), 0, p)]
Number(p) == 2 ^ Len(p) - 1 + Rank[p]

\* Mutant of LastLeaf: zeros are appended to the index instead of ones.
FirstLeaf(n) ==
  LET d == CHOOSE d \in 0 .. Depth - 1 : 2 ^ d <= n + 1 /\ n + 1 < 2 ^ (d + 1)
  IN  (n + 1 - 2 ^ d) * 2 ^ (Depth - 1 - d)

\* An inner node is projected to its last leaf; n is its breadth-first number.
LastLeaf(n) ==
  LET d == CHOOSE d \in 0 .. Depth - 1 : 2 ^ d <= n + 1 /\ n + 1 < 2 ^ (d + 1)
  IN  (n + 2 - 2 ^ d) * 2 ^ (Depth - 1 - d) - 1
Selects(q, side, leaf) == IF side = "l" THEN leaf < q.l ELSE leaf > q.r

\* What the first (role 0) or second key of pair k gives for a leaf.  clkey
\* reseeds its generator with the time.
KeyShare(k, role, q, side, leaf) ==
  LET r == Rand(q.clock[k], leaf, IF side = "l" THEN 0 ELSE 1) % Group
  IN  IF role = 0 THEN r ELSE ((IF Selects(q, side, leaf) THEN 1 ELSE 0) - r) % Group

ChildAggVals(t, p) ==
  Sum({Append(p, "L"), Append(p, "R")} \cap DOMAIN t, LAMBDA q : t[q].agg)

\* eval_agg_tree with key[leaf]: level d without what its parents already have.
\* It does not go below a node without a value, but counts the nodes it visits
\* as if there were no such node.
EvalAggTree(t, key) ==
  LET visited == {p \in DOMAIN t : \A n \in 1 .. Len(p) : t[SubSeq(p, 1, n)].agg # None}
      counted(p) == Cardinality({q \in visited : Number(q) < Number(p)})
      of == [p \in visited |-> key[LastLeaf(counted(p))]]
      level(d) == {p \in visited : Len(p) = d}
      res(d) == Sum(level(d), LAMBDA p : of[p] * t[p].agg)
      child(d) == Sum(level(d), LAMBDA p : of[p] * ChildAggVals(t, p))
  IN  [d \in 0 .. Depth - 1 |-> res(d) - (IF d = 0 THEN 0 ELSE child(d - 1))]

StartQuery(c) ==
  /\ client[c].pc = "idle"
  /\ Len(log) >= FirstQuery
  /\ \E q \in Queries :
       client' = [client EXCEPT ![c] = [Idle EXCEPT !.pc = "query", !.query = q]]
  /\ UNCHANGED <<tree, nextFree, crashed, log>>

\* Server s has the first key of pair s for its first tree and the second key
\* of pair s - 1 for its second tree.
Answer(s, q) ==
  LET eval == [i \in Slot, side \in Side |->
        EvalAggTree(tree[s][i], [leaf \in 0 .. 2 ^ (Depth - 1) - 1 |->
                         KeyShare((s + 2 * i) % 3, i, q, side, leaf)])]
  IN  [side \in Side |-> [d \in 0 .. Depth - 1 |->
         (eval[0, side][d] + eval[1, side][d]) % Word]]

AggTreeQuery(s, c) ==
  /\ client[c].pc = "query"
  /\ s \notin DOMAIN client[c].answers
  /\ ~crashed[s]
  /\ LET answer == Answer(s, client[c].query)
     IN  client' = [client EXCEPT ![c].answers =
                    [x \in DOMAIN @ \cup {s} |-> IF x = s THEN answer ELSE @[x]]]
  /\ UNCHANGED <<tree, nextFree, crashed, log>>

Gather(c) ==
  /\ client[c].pc = "query"
  /\ DOMAIN client[c].answers = Server
  /\ client' = [client EXCEPT
       ![c].pc = "idle",
       ![c].result = [side \in Side |-> [d \in 0 .. Depth - 1 |->
          (Sum(Server, LAMBDA s : client[c].answers[s][side][d]) % Word) % Group]]]
  /\ UNCHANGED <<tree, nextFree, crashed, log>>

\* All entries are appended.
Appended == Len(log) = Len(Entries) /\ UNCHANGED vars

-----------------------------------------------------------------------------
Init ==
  /\ tree = [s \in Server |-> [i \in Slot |-> EmptyTree]]
  /\ nextFree = [s \in Server |-> NULL]
  /\ crashed = [s \in Server |-> FALSE]
  /\ client = [c \in Clients |-> Idle]
  /\ log = <<>>

Next ==
  \/ \E c \in Clients :
       \/ StartAppend(c) \/ Combine(c) \/ StartQuery(c) \/ Gather(c)
       \/ \E s \in Server : Append1(s, c) \/ Append2(s, c) \/ AggTreeQuery(s, c)
  \/ Appended

Spec == Init /\ [][Next]_vars

-----------------------------------------------------------------------------
Index == Nat \cup {None}
Node  == [left : Index, mid : Index, right : Index, agg : Index]

TypeOK ==
  /\ \A s \in Server, i \in Slot :
       /\ DOMAIN tree[s][i] \subseteq Paths
       /\ \A p \in DOMAIN tree[s][i] : tree[s][i][p] \in Node
  /\ \A s \in Server : nextFree[s] \in Inner \cup {NULL} /\ crashed[s] \in BOOLEAN
  /\ \A c \in Clients : /\ client[c].pc \in {"idle", "append1", "combine", "append2", "query"}
                        /\ DOMAIN client[c].answers \subseteq Server
                        /\ client[c].to \in Server
                        /\ Len(client[c].parents) <= 3

AtRest == \A c \in Clients : client[c].pc = "idle"

\* What server s has in its second tree, the next server has in its first one,
\* through all roll-ups: the client asserts so before it adds the shares up.
CopiesAgree == AtRest => \A s \in Server : tree[s][1] = tree[(s + 1) % 3][0]

\* No assertion of a server fails: an append is always offered a node above
\* the leaves that has a free place, however often the tree was rolled up.
SlotFound == \A s \in Server : ~crashed[s]

\* The aggregate of a node in the clear.
Value(p) ==
  IF tree[0][0][p].agg = None THEN None
  ELSE (tree[0][0][p].agg + tree[1][0][p].agg + tree[2][0][p].agg) % Word

AggregateOf(entries) == FoldLeft(LAMBDA a, e : Aggregate(a, e.val), None, entries)

\* The root has the aggregate of all entries and every node with children that
\* of its children, though the servers rolled up on shares.
AggregatesExact ==
  AtRest =>
    /\ Value(<<>>) = AggregateOf(log)
    /\ \A p \in DOMAIN tree[0][0] :
         {Append(p, "L"), Append(p, "R")} \subseteq DOMAIN tree[0][0] =>
           Value(p) = Aggregate(Value(Append(p, "L")), Value(Append(p, "R")))

\* How many leaves are to the right of leaf p.
LeavesAfter(t, p) ==
  Cardinality({q \in DOMAIN t : Len(q) = Depth - 1 /\ Rank[q] > Rank[p]})

\* A roll-up never costs the latest 2^(Depth - 2) entries their leaves, and
\* leaves are in the order of the appends.
RecentLeaves ==
  AtRest =>
    \A k \in 0 .. Min({Len(log), 2 ^ (Depth - 2)}) - 1 :
      \E p \in DOMAIN tree[0][0] :
        /\ Len(p) = Depth - 1
        /\ LeavesAfter(tree[0][0], p) = k
        /\ Value(p) = log[Len(log) - k].val

\* A query returns what check_agg_tree_correctness of the unit test computes in
\* the clear: on every level the selected aggregates, but not those of children
\* of selected nodes.  Over all levels, that is the sum of the selected leaves.
QueryExact ==
  \A c \in Clients : client[c].result # NULL =>
    LET nodes == DOMAIN tree[0][0]
        leaf(p) == Rank[p \o [i \in 1 .. Depth - 1 - Len(p) |-> "R"]]
    IN  \A side \in Side :
          LET chosen == {p \in nodes : Selects(client[c].query, side, leaf(p))}
              on(d) == {p \in chosen : Len(p) = d}
              below(d) == {p \in nodes : Len(p) = d /\ d > 0 /\ Front(p) \in chosen}
              result == client[c].result[side]
          IN  /\ \A d \in DOMAIN result :
                   result[d] = (Sum(on(d), Value) - Sum(below(d), Value)) % Group
              /\ Sum(DOMAIN result, LAMBDA d : result[d]) % Group
                   = Sum(on(Depth - 1), Value) % Group

=============================================================================
