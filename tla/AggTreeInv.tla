------------------------------ MODULE AggTreeInv ------------------------------
(***************************************************************************)
(* What holds of the three shares of a tree between two appends: the       *)
(* inductive invariant of AggTree.                                         *)
(***************************************************************************)
EXTENDS AggTree

Dir == {"L", "R"}

\* The last leaf below p, and whether it is there.
LastOf(p) == [i \in 1 .. Depth - 1 |-> IF i <= Len(p) THEN p[i] ELSE "R"]
Full(D, p) == LastOf(p) \in D

\* The first k steps of path p.
Top(p, k) == SubSeq(p, 1, k)

\* A place below p is filled after those to its left, with a leaf or what a
\* roll-up has made one.  A node's rightIdx says whether its last leaf is there
\* and its midIdx whether that of its left child is.
TreeOK(t) ==
  /\ Inner \subseteq DOMAIN t /\ DOMAIN t \subseteq Paths /\ t \in [DOMAIN t -> Node]
RightOK(t, p) == t[p].right # None <=> Full(DOMAIN t, p)
MidOK(t, p)   == t[p].mid # None <=> Full(DOMAIN t, Append(p, "L"))
LeafOK(t, q)  ==
  /\ t[q].left # None
  /\ \A k \in 0 .. Depth - 2 :
       /\ t[Top(q, k)].left # None
       /\ q[k + 1] = "R" => Full(DOMAIN t, Append(Top(q, k), "L"))

ShapeOK(t) ==
  /\ TreeOK(t)
  /\ \A p \in DOMAIN t : RightOK(t, p)
  /\ \A p \in Inner : Len(p) < Depth - 2 => MidOK(t, p)
  /\ \A q \in DOMAIN t \ Inner : LeafOK(t, q)

\* Trees with equal nodes, but for the aggregates.
SameShape(t, u) ==
  /\ DOMAIN t = DOMAIN u
  /\ \A p \in DOMAIN t : /\ t[p].left = u[p].left /\ t[p].mid = u[p].mid
                         /\ t[p].right = u[p].right

\* Three shares of an aggregate, or none, and what they stand for.
Val == {None} \cup 0 .. Word - 1
Split(a, b, c) ==
  /\ a \in Val /\ b \in Val /\ c \in Val
  /\ b = None <=> a = None
  /\ c = None <=> a = None
Opened(a, b, c) == IF a = None THEN None ELSE (a + b + c) % Word

\* The aggregate of node p in the clear; T[j] is the j-th share of the tree.
Clear(T, p) ==
  IF p \notin DOMAIN T[0] THEN None ELSE Opened(T[0][p].agg, T[1][p].agg, T[2][p].agg)

\* A node's aggregate is that of its children, and the root's that of all entries.
ValuesOK(T) ==
  /\ DOMAIN T[0] = DOMAIN T[1] /\ DOMAIN T[0] = DOMAIN T[2]
  /\ \A p \in DOMAIN T[0] : Split(T[0][p].agg, T[1][p].agg, T[2][p].agg)
ChildrenOK(T) ==
  \A p \in Inner : Clear(T, p) = Aggregate(Clear(T, Append(p, "L")), Clear(T, Append(p, "R")))
SharesOK(T, entries) ==
  ValuesOK(T) /\ ChildrenOK(T) /\ Clear(T, <<>>) = AggregateOf(entries)

\* The shares A[j] stand for the aggregates of the nodes on the way to e with
\* the value val.
SharesSent(T, e, A, val) ==
  \A k \in 0 .. Depth - 1 :
    /\ Split(A[0][Depth - k], A[1][Depth - k], A[2][Depth - k])
    /\ Opened(A[0][Depth - k], A[1][Depth - k], A[2][Depth - k]) = Aggregate(Clear(T, Top(e, k)), val)

RestOK(T, entries) ==
  /\ \A j \in Server : ShapeOK(T[j]) /\ SameShape(T[0], T[j])
  /\ AggFunc = "sum" => SharesOK(T, entries)

-----------------------------------------------------------------------------
\* What getAppendPath makes of a tree, and the node that it returns.
Offered(t) == IF FreeParent(t) = NULL THEN FirstFresh ELSE FreeParent(t)
Grown(t) == IF FreeParent(t) = NULL THEN RollUp(t) ELSE t

\* What finishAppend makes of it then.
Finished(t, idx, aggs) == AppendBelow(Grown(t), Offered(t), idx, aggs)

\* AggTreeAppend1 has reached the servers below Served, AggTreeAppend2 those
\* below Done.
Served(c) ==
  LET cl == client[c] IN
  IF cl.pc = "append1" THEN cl.to ELSE IF cl.pc \in {"combine", "append2"} THEN 3 ELSE 0
Done(c) == IF client[c].pc = "append2" THEN client[c].to ELSE 0

\* What server s has answered to AggTreeAppend1.
PathOf(T, s) == [i \in Slot |-> PathUp(Grown(T[ShareOf(s, i)]), Offered(T[0]))]

EntrySet == [idx : Nat, val : 0 .. Word - 1]

\* The servers have the shares T of a tree with the entries of the log, or what
\* the append of client c has made of them so far.
ServersOK(c, T) ==
  /\ DOMAIN tree = Server /\ DOMAIN nextFree = Server /\ DOMAIN crashed = Server
  /\ \A s \in Server :
       /\ ~ crashed[s]
       /\ nextFree[s] = IF Done(c) <= s /\ s < Served(c) THEN Offered(T[0]) ELSE NULL
       /\ tree[s] = [i \in Slot |->
            LET t == T[ShareOf(s, i)] IN
            IF s < Done(c) THEN Finished(t, client[c].entry.idx, client[c].shares[ShareOf(s, i)])
            ELSE IF s < Served(c) THEN Grown(t) ELSE t]

\* Client c knows the paths of the servers that it has called, and its shares
\* are those of the new aggregates.
IsClient(cl) ==
  cl = [pc |-> cl.pc, to |-> cl.to, entry |-> cl.entry, parents |-> cl.parents,
        shares |-> cl.shares, query |-> cl.query, answers |-> cl.answers, result |-> cl.result]

ClientOK(c, T) ==
  LET cl == client[c] IN
  /\ DOMAIN client = Clients /\ IsClient(cl)
  /\ cl.pc \in {"idle", "append1", "combine", "append2", "query"}
  /\ cl.to \in Server /\ DOMAIN cl.answers \subseteq Server /\ Len(cl.parents) <= 3
  /\ cl.pc \notin {"append1", "append2"} => cl.to = 0
  /\ cl.pc \in {"append1", "combine", "append2"} =>
       /\ cl.entry \in EntrySet /\ Len(log) < Len(Entries)
       /\ cl.parents = [k \in 1 .. Served(c) |-> PathOf(T, k - 1)]
  /\ cl.pc = "append2" =>
       /\ cl.shares \in [Server -> [1 .. Depth -> Index]]
       /\ AggFunc = "sum" =>
            SharesSent([j \in Server |-> Grown(T[j])], Place(Grown(T[0]), Offered(T[0])),
                       cl.shares, cl.entry.val)

IInvFor(c, T) ==
  /\ log \in Seq(EntrySet) /\ RestOK(T, log)
  /\ ServersOK(c, T) /\ ClientOK(c, T)

\* The inductive invariant, for the client c.
IInv(c) == \E T : IInvFor(c, T)

\* What it says between two appends.
RestInv == AtRest => RestOK([j \in Server |-> tree[j][0]], log)
=============================================================================
