---------------------------- MODULE AggTree_proofs ----------------------------
(***************************************************************************)
(* Proofs about the aggregate trees of one client, for trees of any depth  *)
(* from four, any entries and any random words: the six trees agree, an    *)
(* append always finds a free place, and sums are exact through all        *)
(* roll-ups.                                                               *)
(***************************************************************************)
EXTENDS AggTreeInv, RecursionFacts, SequenceTheorems, TLAPS

-----------------------------------------------------------------------------
(* Paths.                                                                  *)

\* Paths are the sequences of directions that are not too long.
LEMMA PathIs ==
  /\ \A p : p \in Paths <=> p \in Seq(Dir) /\ Len(p) <= Depth - 1
  /\ \A p : p \in Inner <=> p \in Seq(Dir) /\ Len(p) <= Depth - 2
<1>1. Depth - 1 \in Nat
  BY DepthAssumption
<1>2. ASSUME NEW p
      PROVE  p \in Paths <=> p \in Seq(Dir) /\ Len(p) <= Depth - 1
  <2>1. ASSUME p \in Paths
        PROVE  p \in Seq(Dir) /\ Len(p) <= Depth - 1
    <3>1. PICK n \in 0 .. Depth - 1 : p \in [1 .. n -> {"L", "R"}]
      BY <2>1 DEF Paths, PathsTo
    <3>2. p \in Seq(Dir) /\ Len(p) = n
      BY <3>1, <1>1 DEF Dir
    <3> QED
      BY <3>2, <1>1
  <2>2. ASSUME p \in Seq(Dir), Len(p) <= Depth - 1
        PROVE  p \in Paths
    <3>1. Len(p) \in 0 .. Depth - 1 /\ p \in [1 .. Len(p) -> {"L", "R"}]
      BY <2>2, <1>1 DEF Dir
    <3> QED
      BY <3>1 DEF Paths, PathsTo
  <2> QED
    BY <2>1, <2>2
<1>3. Depth - 2 <= Depth - 1 /\ Depth - 2 \in Int /\ Depth - 1 \in Int
  BY DepthAssumption
<1>4. ASSUME NEW p
      PROVE  p \in Inner <=> p \in Seq(Dir) /\ Len(p) <= Depth - 2
  BY <1>2, <1>3 DEF Inner
<1> QED
  BY <1>2, <1>4

\* Elements of paths.
LEMMA PathFact ==
  ASSUME NEW p \in Paths
  PROVE  /\ p \in Seq(Dir) /\ Len(p) \in 0 .. Depth - 1
         /\ \A i \in 1 .. Len(p) : p[i] \in {"L", "R"}
         /\ p \in Inner <=> Len(p) <= Depth - 2
         /\ p \notin Inner <=> Len(p) = Depth - 1
<1>1. p \in Seq(Dir) /\ Len(p) <= Depth - 1 /\ (p \in Inner <=> Len(p) <= Depth - 2)
  BY PathIs
<1>2. Len(p) \in Nat /\ \A i \in 1 .. Len(p) : p[i] \in {"L", "R"}
  BY <1>1 DEF Dir
<1> QED
  BY <1>1, <1>2, DepthAssumption

LEMMA InnerPaths ==
  /\ Inner \subseteq Paths
  /\ <<>> \in Inner /\ Len(<<>>) = 0
<1>1. Inner \subseteq Paths
  BY DEF Inner
<1>2. <<>> \in Seq(Dir) /\ Len(<<>>) = 0
  BY EmptySeq
<1>3. Len(<<>>) <= Depth - 2
  BY <1>2, DepthAssumption
<1>4. <<>> \in Inner
  BY <1>2, <1>3, PathIs, Zenon
<1> QED
  BY <1>1, <1>2, <1>4

\* Paths are equal if they have the same steps.
LEMMA PathEqual ==
  ASSUME NEW p \in Paths, NEW q \in Paths, Len(p) = Len(q),
         \A i \in 1 .. Len(p) : p[i] = q[i]
  PROVE  p = q
<1>1. p \in Seq(Dir) /\ q \in Seq(Dir)
  BY PathFact
<1> QED
  BY <1>1

\* One more step.
LEMMA StepFact ==
  ASSUME NEW p \in Inner, NEW d \in {"L", "R"}
  PROVE  /\ Append(p, d) \in Paths /\ Len(Append(p, d)) = Len(p) + 1
         /\ Append(p, d)[Len(p) + 1] = d
         /\ \A i \in 1 .. Len(p) : Append(p, d)[i] = p[i]
<1>1. p \in Seq(Dir) /\ Len(p) <= Depth - 2 /\ d \in Dir
  BY PathIs DEF Dir
<1>2. /\ Append(p, d) \in Seq(Dir) /\ Len(Append(p, d)) = Len(p) + 1
      /\ Append(p, d)[Len(p) + 1] = d
      /\ \A i \in 1 .. Len(p) : Append(p, d)[i] = p[i]
  BY <1>1, AppendProperties
<1>3. Len(Append(p, d)) <= Depth - 1
  BY <1>1, <1>2, DepthAssumption
<1>4. Append(p, d) \in Paths
  BY <1>2, <1>3, PathIs, Zenon
<1> QED
  BY <1>2, <1>4

\* The first steps.
LEMMA TopFact ==
  ASSUME NEW q \in Paths, NEW k \in 0 .. Len(q)
  PROVE  /\ Top(q, k) \in Paths /\ Len(Top(q, k)) = k
         /\ \A i \in 1 .. k : Top(q, k)[i] = q[i]
         /\ k = Len(q) => Top(q, k) = q
         /\ k = 0 => Top(q, k) = <<>>
         /\ k < Len(q) => Top(q, k) \in Inner
<1>1. q \in Seq(Dir) /\ Len(q) \in Nat /\ Len(q) <= Depth - 1
  BY PathFact
<1>2. \A i \in 1 .. k : q[i] \in Dir
  BY <1>1
<1>3. /\ Top(q, k) \in Seq(Dir)
      /\ Len(Top(q, k)) = IF 1 <= k THEN k - 1 + 1 ELSE 0
      /\ \A i \in 1 .. k - 1 + 1 : Top(q, k)[i] = q[1 + i - 1]
  BY <1>1, <1>2, SubSeqProperties DEF Top
<1>4. Len(Top(q, k)) = k /\ \A i \in 1 .. k : Top(q, k)[i] = q[i]
  BY <1>1, <1>3
<1>5. Top(q, k) \in Paths
  BY <1>1, <1>3, <1>4, PathIs, DepthAssumption
<1>6. k = Len(q) => Top(q, k) = q
  BY <1>4, <1>5, PathEqual
<1>7. k < Len(q) => Top(q, k) \in Inner
  BY <1>1, <1>3, <1>4, PathIs, DepthAssumption
<1>8. k = 0 => Top(q, k) = <<>>
  BY <1>4, <1>5, PathEqual, InnerPaths
<1> QED
  BY <1>4, <1>5, <1>6, <1>7, <1>8

LEMMA TopNext ==
  ASSUME NEW q \in Paths, NEW k \in 0 .. Len(q) - 1
  PROVE  /\ Append(Top(q, k), q[k + 1]) = Top(q, k + 1)
         /\ Top(q, k) \in Inner /\ Top(q, k + 1) \in Paths
         /\ q[k + 1] \in {"L", "R"}
<1>1. Len(q) \in Nat /\ k \in 0 .. Len(q) /\ k + 1 \in 0 .. Len(q)
      /\ k + 1 \in 1 .. Len(q) /\ k < Len(q)
  BY PathFact
<1>2. q[k + 1] \in {"L", "R"}
  BY <1>1, PathFact
<1>3. Top(q, k) \in Inner /\ Len(Top(q, k)) = k /\ \A i \in 1 .. k : Top(q, k)[i] = q[i]
  BY <1>1, TopFact
<1>4. Top(q, k + 1) \in Paths /\ Len(Top(q, k + 1)) = k + 1
      /\ \A i \in 1 .. k + 1 : Top(q, k + 1)[i] = q[i]
  BY <1>1, TopFact
<1> DEFINE a == Append(Top(q, k), q[k + 1])
<1>5. /\ a \in Paths /\ Len(a) = k + 1 /\ a[k + 1] = q[k + 1]
      /\ \A i \in 1 .. k : a[i] = q[i]
  BY <1>2, <1>3, StepFact
<1> HIDE DEF a
<1>6. \A i \in 1 .. k + 1 : a[i] = Top(q, k + 1)[i]
  BY <1>4, <1>5, <1>1
<1>7. a = Top(q, k + 1)
  BY <1>4, <1>5, <1>6, PathEqual
<1> QED
  BY <1>2, <1>3, <1>4, <1>7 DEF a

\* The last leaf below a node.
LEMMA LastFact ==
  ASSUME NEW p \in Paths
  PROVE  /\ LastOf(p) \in Paths /\ Len(LastOf(p)) = Depth - 1 /\ LastOf(p) \notin Inner
         /\ \A i \in 1 .. Depth - 1 : LastOf(p)[i] = IF i <= Len(p) THEN p[i] ELSE "R"
         /\ p \notin Inner => LastOf(p) = p
<1>1. p \in Seq(Dir) /\ Len(p) \in 0 .. Depth - 1 /\ \A i \in 1 .. Len(p) : p[i] \in Dir
  BY PathFact DEF Dir
<1>2. LastOf(p) \in [1 .. Depth - 1 -> Dir] /\ Depth - 1 \in Nat
  BY <1>1, DepthAssumption DEF LastOf, Dir
<1>3. LastOf(p) \in Seq(Dir) /\ Len(LastOf(p)) = Depth - 1
  BY <1>2
<1>4. LastOf(p) \in Paths
  BY <1>2, <1>3, PathIs
<1>5. \A i \in 1 .. Depth - 1 : LastOf(p)[i] = IF i <= Len(p) THEN p[i] ELSE "R"
  BY DEF LastOf
<1>6. p \notin Inner => LastOf(p) = p
  <2> HAVE p \notin Inner
  <2>1. Len(p) = Depth - 1
    BY PathFact
  <2>2. \A i \in 1 .. Len(p) : LastOf(p)[i] = p[i]
    BY <2>1, <1>5
  <2> QED
    BY <2>1, <2>2, <1>3, <1>4, PathEqual
<1>7. LastOf(p) \notin Inner
  BY <1>3, <1>4, PathFact
<1> QED
  BY <1>3, <1>4, <1>5, <1>6, <1>7

\* The last leaf below a node is that below its right child.
LEMMA LastOfRight ==
  ASSUME NEW p \in Inner
  PROVE  LastOf(Append(p, "R")) = LastOf(p)
<1>1. p \in Paths /\ Append(p, "R") \in Paths /\ Len(p) \in Nat
  BY InnerPaths, StepFact, PathFact
<1>2. /\ Len(Append(p, "R")) = Len(p) + 1 /\ Append(p, "R")[Len(p) + 1] = "R"
      /\ \A i \in 1 .. Len(p) : Append(p, "R")[i] = p[i]
  BY StepFact
<1>3. PICK a \in Paths : a = Append(p, "R")
  BY <1>1
<1>4. Len(a) = Len(p) + 1 /\ a[Len(p) + 1] = "R" /\ \A i \in 1 .. Len(p) : a[i] = p[i]
  BY <1>2, <1>3
<1>5. \A i \in 1 .. Depth - 1 : LastOf(a)[i] = IF i <= Len(a) THEN a[i] ELSE "R"
  BY LastFact
<1>6. \A i \in 1 .. Depth - 1 : LastOf(p)[i] = IF i <= Len(p) THEN p[i] ELSE "R"
  BY <1>1, LastFact
<1>7. \A i \in 1 .. Depth - 1 : LastOf(a)[i] = LastOf(p)[i]
  BY <1>1, <1>4, <1>5, <1>6
<1>8. LastOf(a) \in Paths /\ LastOf(p) \in Paths
      /\ Len(LastOf(a)) = Depth - 1 /\ Len(LastOf(p)) = Depth - 1
  BY <1>1, LastFact
<1>9. LastOf(a) = LastOf(p)
  BY <1>7, <1>8, PathEqual
<1> QED
  BY <1>3, <1>9

-----------------------------------------------------------------------------
(* The free place.                                                         *)

\* NULL is not a path.
LEMMA NullFact == NULL \notin Paths
<1>1. SUFFICES ASSUME NULL \in Paths PROVE FALSE
  OBVIOUS
<1>2. Len(NULL) = 1 /\ NULL[1] = "NULL"
  BY DEF NULL
<1>3. NULL \in Seq(Dir)
  BY <1>1, PathFact
<1>4. NULL[1] \in Dir
  <2> HIDE DEF Dir
  <2> QED
    BY <1>2, <1>3, ElementOfSeq
<1> QED
  BY <1>2, <1>4 DEF Dir

\* The descent visits one node on every level.
Descent(t, down) ==
  /\ down[0] = <<>> /\ down[Depth - 2] = FreeParent(t)
  /\ \A k \in 1 .. Depth - 2 : down[k] = Descend(t, down[k - 1])

LEMMA DescentDefined ==
  ASSUME NEW t, DOMAIN t \subseteq Paths
  PROVE  \E down \in [0 .. Depth - 2 -> Paths \cup {NULL}] : Descent(t, down)
<1> DEFINE N == Depth - 2
           D == Paths \cup {NULL}
           G == [k \in 1 .. N |-> [p \in D |-> Descend(t, p)]]
           Step(g) == [k \in 0 .. N |-> IF k = 0 THEN <<>> ELSE Descend(t, g[k - 1])]
           F == CHOOSE g : g = Step(g)
<1>0. N \in Nat
  BY DepthAssumption
<1>1. FreeParent(t) = F[Depth - 2]
  BY DEF FreeParent
<1>2. \A p \in D : Descend(t, p) \in D
  BY DEF Descend
<1>3. G \in [1 .. N -> [D -> D]] /\ <<>> \in D
  BY <1>2, InnerPaths
<1>4. PICK h \in [0 .. N -> D] : IsIteration(h, N, <<>>, G)
  <2> HIDE DEF G, D, N
  <2> QED
    BY <1>0, <1>3, Iteration
<1>5. \A k \in 1 .. N : h[k] = Descend(t, h[k - 1])
  <2> TAKE k \in 1 .. N
  <2>1. k - 1 \in 0 .. N
    BY <1>0
  <2>2. h[k] = G[k][h[k - 1]]
    BY <1>4 DEF IsIteration
  <2> QED
    BY <2>1, <2>2
<1>6. h[0] = <<>>
  BY <1>4 DEF IsIteration
<1>7. h = Step(h)
  <2>1. \A k \in 0 .. N : h[k] = IF k = 0 THEN <<>> ELSE Descend(t, h[k - 1])
    BY <1>0, <1>5, <1>6
  <2> HIDE DEF N, D
  <2> QED
    BY <2>1
<1>8. F = Step(F)
  <2> HIDE DEF Step
  <2> QED
    BY <1>7
<1> HIDE DEF F
<1>9. DOMAIN F = 0 .. N /\ F[0] = <<>> /\ \A k \in 1 .. N : F[k] = Descend(t, F[k - 1])
  <2>1. F = [k \in 0 .. N |-> IF k = 0 THEN <<>> ELSE Descend(t, F[k - 1])]
    BY <1>8
  <2> HIDE DEF N
  <2> QED
    BY <2>1, <1>0
<1>10. 0 .. N \subseteq {k \in 0 .. N : F[k] \in D}
  <2> DEFINE S == {k \in 0 .. N : F[k] \in D}
  <2>1. 0 \in S
    BY <1>0, <1>3, <1>9
  <2>2. \A k \in 0 .. N - 1 : k \in S => k + 1 \in S
    <3> SUFFICES ASSUME NEW k \in 0 .. N - 1, k \in S
                 PROVE  k + 1 \in S
      OBVIOUS
    <3>1. k + 1 \in 1 .. N /\ k + 1 \in 0 .. N /\ (k + 1) - 1 = k
      BY <1>0
    <3>2. F[k + 1] = Descend(t, F[k])
      BY <1>9, <3>1
    <3> QED
      BY <1>2, <3>1, <3>2
  <2> HIDE DEF S, N
  <2>3. 0 .. N \subseteq S
    BY <1>0, <2>1, <2>2, BoundedInduction
  <2> QED
    BY <2>3 DEF S
<1>11. F \in [0 .. N -> D]
  <2>1. F = [k \in 0 .. N |-> F[k]]
    BY <1>8
  <2> QED
    BY <2>1, <1>10
<1> QED
  BY <1>1, <1>9, <1>11 DEF Descent

\* What a step down finds.
LEMMA DescendFact ==
  ASSUME NEW t, ShapeOK(t), NEW p \in Inner, Len(p) < Depth - 2
  PROVE  /\ Append(p, "L") \in Inner /\ Append(p, "R") \in Inner
         /\ Descend(t, p) = IF ~ Full(DOMAIN t, Append(p, "L")) THEN Append(p, "L")
                            ELSE IF ~ Full(DOMAIN t, p) THEN Append(p, "R") ELSE NULL
         /\ Full(DOMAIN t, Append(p, "R")) <=> Full(DOMAIN t, p)
<1>1. /\ Len(p) \in Nat /\ p \in Paths
      /\ Append(p, "L") \in Paths /\ Len(Append(p, "L")) = Len(p) + 1
      /\ Append(p, "R") \in Paths /\ Len(Append(p, "R")) = Len(p) + 1
  BY PathFact, InnerPaths, StepFact
<1>2. Append(p, "L") \in Inner /\ Append(p, "R") \in Inner
  <2>1. Len(p) + 1 <= Depth - 2
    BY <1>1, DepthAssumption
  <2> QED
    BY <1>1, <2>1, PathFact
<1>3. {Append(p, "L"), Append(p, "R"), p} \subseteq DOMAIN t
  BY <1>2 DEF ShapeOK, TreeOK, RightOK, MidOK
<1>4. (t[p].mid # None <=> Full(DOMAIN t, Append(p, "L"))) /\ (t[p].right # None <=> Full(DOMAIN t, p))
  BY <1>3 DEF ShapeOK, TreeOK, RightOK, MidOK
<1>5. p # NULL
  BY <1>1, NullFact
<1>6. Full(DOMAIN t, Append(p, "R")) <=> Full(DOMAIN t, p)
  BY LastOfRight DEF Full
<1> QED
  BY <1>2, <1>3, <1>4, <1>5, <1>6 DEF Descend

\* All places to the left of p are taken.
LeftTaken(D, p) ==
  \A k \in 0 .. Len(p) - 1 : p[k + 1] = "R" => Full(D, Append(Top(p, k), "L"))

\* The descent ends above a free place, or the tree is full.
LEMMA FreeParentFact ==
  ASSUME NEW t, ShapeOK(t)
  PROVE  \/ FreeParent(t) = NULL /\ Full(DOMAIN t, <<>>)
         \/ /\ FreeParent(t) \in Inner /\ Len(FreeParent(t)) = Depth - 2
            /\ ~ Full(DOMAIN t, FreeParent(t)) /\ LeftTaken(DOMAIN t, FreeParent(t))
<1>1. DOMAIN t \subseteq Paths
  BY DEF ShapeOK, TreeOK, RightOK, MidOK
<1>2. PICK down \in [0 .. Depth - 2 -> Paths \cup {NULL}] : Descent(t, down)
  BY <1>1, DescentDefined
<1> DEFINE N == Depth - 2
           Ends(k) == down[k] = NULL /\ Full(DOMAIN t, <<>>)
           Runs(k) == /\ down[k] \in Inner /\ Len(down[k]) = k
                      /\ k # 0 => ~ Full(DOMAIN t, down[k])
                      /\ LeftTaken(DOMAIN t, down[k])
           S == {k \in 0 .. N : Ends(k) \/ Runs(k)}
<1>3. N \in Nat /\ N # 0
  BY DepthAssumption
<1>4. 0 \in S
  <2>1. down[0] = <<>> /\ down[0] \in Inner /\ Len(down[0]) = 0
    BY <1>2, InnerPaths DEF Descent
  <2>2. LeftTaken(DOMAIN t, down[0])
    BY <2>1 DEF LeftTaken
  <2> QED
    BY <1>3, <2>1, <2>2
<1>5. \A k \in 0 .. N - 1 : k \in S => k + 1 \in S
  <2> SUFFICES ASSUME NEW k \in 0 .. N - 1, Ends(k) \/ Runs(k)
               PROVE  Ends(k + 1) \/ Runs(k + 1)
    <3> HIDE DEF Ends, Runs
    <3>1. \A k \in 0 .. N - 1 : k + 1 \in 0 .. N
      BY <1>3
    <3> QED
      BY <3>1
  <2>1. /\ k + 1 \in 0 .. N /\ k \in Nat /\ k + 1 # 0 /\ k < Depth - 2
        /\ down[k + 1] = Descend(t, down[k])
    <3>1. k + 1 \in 1 .. Depth - 2 /\ (k + 1) - 1 = k
      BY <1>3
    <3> QED
      BY <3>1, <1>2, <1>3 DEF Descent
  <2>2. CASE Ends(k)
    BY <2>1, <2>2 DEF Descend
  <2>3. CASE Runs(k)
    <3> DEFINE p == down[k]
    <3>1. p \in Inner /\ Len(p) = k /\ LeftTaken(DOMAIN t, p) /\ (k # 0 => ~ Full(DOMAIN t, p))
      BY <2>3
    <3> HIDE DEF p
    <3>2. /\ Append(p, "L") \in Inner /\ Append(p, "R") \in Inner
          /\ Descend(t, p) = IF ~ Full(DOMAIN t, Append(p, "L")) THEN Append(p, "L")
                             ELSE IF ~ Full(DOMAIN t, p) THEN Append(p, "R") ELSE NULL
          /\ Full(DOMAIN t, Append(p, "R")) <=> Full(DOMAIN t, p)
      BY <2>1, <3>1, DescendFact
    <3>3. ASSUME NEW d \in {"L", "R"}, d = "R" => Full(DOMAIN t, Append(p, "L"))
          PROVE  Len(Append(p, d)) = k + 1 /\ LeftTaken(DOMAIN t, Append(p, d))
      <4>1. PICK a \in Paths : a = Append(p, d)
        BY <3>1, StepFact
      <4>2. Len(a) = k + 1 /\ a[k + 1] = d /\ \A i \in 1 .. k : a[i] = p[i]
        BY <3>1, <4>1, StepFact
      <4>3. \A i \in 0 .. k : Top(a, i) = Top(p, i)
        <5> TAKE i \in 0 .. k
        <5>1. p \in Paths /\ i \in 0 .. Len(p) /\ i \in 0 .. Len(a)
          BY <3>1, <4>2, <2>1, InnerPaths
        <5>2. /\ Top(a, i) \in Paths /\ Len(Top(a, i)) = i /\ \A j \in 1 .. i : Top(a, i)[j] = a[j]
              /\ Top(p, i) \in Paths /\ Len(Top(p, i)) = i /\ \A j \in 1 .. i : Top(p, i)[j] = p[j]
          BY <5>1, TopFact
        <5>3. \A j \in 1 .. i : Top(a, i)[j] = Top(p, i)[j]
          BY <5>2, <4>2, <2>1
        <5> QED
          BY <5>2, <5>3, PathEqual
      <4>4. Top(p, k) = p
        BY <3>1, <2>1, InnerPaths, TopFact
      <4>5. ASSUME NEW i \in 0 .. Len(a) - 1, a[i + 1] = "R"
            PROVE  Full(DOMAIN t, Append(Top(a, i), "L"))
        <5>1. CASE i = k
          BY <5>1, <4>2, <4>3, <4>4, <4>5, <3>3, <2>1
        <5>2. CASE i < k
          <6>1. i \in 0 .. Len(p) - 1 /\ i + 1 \in 1 .. k /\ i \in 0 .. k
            BY <5>2, <4>2, <3>1, <2>1
          <6>2. p[i + 1] = "R"
            BY <6>1, <4>2, <4>5
          <6>3. Full(DOMAIN t, Append(Top(p, i), "L"))
            BY <6>1, <6>2, <3>1 DEF LeftTaken
          <6> QED
            BY <6>1, <6>3, <4>3
        <5> QED
          BY <5>1, <5>2, <4>2, <2>1
      <4>6. LeftTaken(DOMAIN t, a)
        BY <4>5 DEF LeftTaken
      <4> QED
        BY <4>1, <4>2, <4>6
    <3>4. down[k + 1] = Descend(t, p)
      BY <2>1 DEF p
    <3>5. CASE ~ Full(DOMAIN t, Append(p, "L"))
      <4>1. down[k + 1] = Append(p, "L")
        BY <3>2, <3>4, <3>5
      <4>2. Len(Append(p, "L")) = k + 1 /\ LeftTaken(DOMAIN t, Append(p, "L"))
        BY <3>3
      <4> QED
        BY <4>1, <4>2, <3>2, <3>5
    <3>6. CASE Full(DOMAIN t, Append(p, "L")) /\ ~ Full(DOMAIN t, p)
      <4>1. down[k + 1] = Append(p, "R")
        BY <3>2, <3>4, <3>6
      <4>2. Len(Append(p, "R")) = k + 1 /\ LeftTaken(DOMAIN t, Append(p, "R"))
        BY <3>3, <3>6
      <4> QED
        BY <4>1, <4>2, <3>2, <3>6
    <3>7. CASE Full(DOMAIN t, Append(p, "L")) /\ Full(DOMAIN t, p)
      <4>1. down[k + 1] = NULL /\ k = 0
        BY <3>1, <3>2, <3>4, <3>7
      <4>2. p = <<>>
        BY <4>1, <1>2 DEF p, Descent
      <4> QED
        BY <4>1, <4>2, <3>7
    <3> QED
      BY <3>5, <3>6, <3>7
  <2> QED
    BY <2>2, <2>3
<1> HIDE DEF S
<1>6. N \in S
  <2> HIDE DEF N
  <2>1. 0 .. N \subseteq S
    BY <1>3, <1>4, <1>5, BoundedInduction
  <2> QED
    BY <2>1, <1>3
<1>7. Ends(N) \/ Runs(N)
  BY <1>6 DEF S
<1>8. down[N] = FreeParent(t)
  BY <1>2 DEF Descent
<1> QED
  BY <1>3, <1>7, <1>8

-----------------------------------------------------------------------------
(* An append.                                                              *)

\* min and max of unsigned indices; none is the largest.
LEMMA MinMaxFact ==
  ASSUME NEW a \in Index, NEW b \in Index
  PROVE  /\ UMin(a, b) \in Index /\ (UMin(a, b) = None <=> a = None /\ b = None)
         /\ UMax(a, b) \in Index /\ (UMax(a, b) = None <=> a = None \/ b = None)
BY DEF UMin, UMax, Index, None

\* A node whose child has grown.
WidenOK(node, side, child, cr) ==
  LET w == Widen(node, side, child, cr) IN
  /\ w \in Node
  /\ side = "L" => /\ w.left # None <=> node.left # None \/ child.left # None
                   /\ w.mid # None <=> node.mid # None \/ cr # None
                   /\ w.right = node.right
  /\ side = "R" => /\ w.left = node.left
                   /\ w.mid # None <=> node.mid # None \/ child.left # None
                   /\ w.right # None <=> child.right # None

LEMMA WidenFact ==
  ASSUME NEW node \in Node, NEW side \in {"L", "R"}, NEW child \in Node, NEW cr \in Index
  PROVE  WidenOK(node, side, child, cr)
<1>1. /\ node.left \in Index /\ node.mid \in Index /\ node.right \in Index /\ node.agg \in Index
      /\ child.left \in Index /\ child.mid \in Index /\ child.right \in Index
      /\ node = [left |-> node.left, mid |-> node.mid, right |-> node.right, agg |-> node.agg]
  BY DEF Node
<1>2. child.right + 1 \in Index /\ child.right + 1 # None
  BY <1>1 DEF Index, None
<1> DEFINE l == IF node.left = None THEN child.left ELSE UMin(node.left, child.left)
           m == IF cr = None THEN node.mid
                ELSE IF node.mid = None THEN child.right + 1
                ELSE UMax(node.mid, child.right + 1)
           o == IF node.mid = None THEN child.left ELSE UMin(node.mid, child.left)
           r == IF node.right = None THEN child.right ELSE UMax(node.right, child.right)
<1>3. /\ l \in Index /\ (l # None <=> node.left # None \/ child.left # None)
      /\ o \in Index /\ (o # None <=> node.mid # None \/ child.left # None)
  BY <1>1, MinMaxFact
<1>4. r \in Index /\ (r # None <=> child.right # None)
  BY <1>1, MinMaxFact
<1>5. m \in Index /\ (m # None <=> node.mid # None \/ cr # None)
  BY <1>1, <1>2, MinMaxFact
<1>6. CASE side = "L"
  <2>1. Widen(node, side, child, cr)
          = [left |-> l, mid |-> m, right |-> node.right, agg |-> node.agg]
    BY <1>1, <1>6 DEF Widen
  <2> HIDE DEF l, m, o, r
  <2> QED
    BY <1>1, <1>3, <1>5, <1>6, <2>1 DEF Node, WidenOK
<1>7. CASE side = "R"
  <2>1. Widen(node, side, child, cr)
          = [left |-> node.left, mid |-> o, right |-> r, agg |-> node.agg]
    BY <1>1, <1>7 DEF Widen
  <2> HIDE DEF l, m, o, r
  <2> QED
    BY <1>1, <1>3, <1>4, <1>7, <2>1 DEF Node, WidenOK
<1> QED
  BY <1>6, <1>7

RightIdx(t, q) == IF q \in DOMAIN t THEN t[q].right ELSE None

\* A node that was appended to, once the tree is u.
Climbed(node, u, e, k, aggs) ==
  [Widen(node, e[k + 1], u[Top(e, k + 1)], RightIdx(u, Append(Top(e, k + 1), "R")))
     EXCEPT !.agg = aggs[Depth - k]]

OffPath(e, q, m) == \A i \in m .. Depth - 2 : q # Top(e, i)

\* Tree u is t with a new leaf e.
PutBelow(t, u, e, idx, aggs) ==
  /\ u \in [DOMAIN t \cup {e} -> Node]
  /\ u[e] = [left |-> idx, mid |-> idx, right |-> idx, agg |-> aggs[1]]
  /\ \A q \in DOMAIN t : OffPath(e, q, 0) => u[q] = t[q]
  /\ \A k \in 0 .. Depth - 2 : u[Top(e, k)] = Climbed(t[Top(e, k)], u, e, k, aggs)

\* The place below a node of the last inner level.
LEMMA PlaceFact ==
  ASSUME NEW t, TreeOK(t), NEW p \in Inner, Len(p) = Depth - 2, ~ Full(DOMAIN t, p)
  PROVE  /\ Place(t, p) \in Paths /\ Len(Place(t, p)) = Depth - 1 /\ Place(t, p) \notin Inner
         /\ Place(t, p) \notin DOMAIN t /\ ~ IsFull(t, p)
         /\ Top(Place(t, p), Depth - 2) = p
         /\ Place(t, p)[Depth - 1] = "R" => Append(p, "L") \in DOMAIN t
<1>1. p \in Paths /\ Len(p) + 1 = Depth - 1 /\ Depth - 2 \in Nat /\ Depth - 1 \in Nat
  BY InnerPaths, DepthAssumption
<1>2. /\ Append(p, "L") \in Paths /\ Len(Append(p, "L")) = Depth - 1
      /\ Append(p, "L")[Depth - 1] = "L"
      /\ Append(p, "R") \in Paths /\ Len(Append(p, "R")) = Depth - 1
      /\ \A i \in 1 .. Depth - 2 : Append(p, "L")[i] = p[i] /\ Append(p, "R")[i] = p[i]
  BY <1>1, StepFact
<1>3. Append(p, "L") \notin Inner /\ Append(p, "R") \notin Inner
  BY <1>1, <1>2, PathFact
<1>4. Append(p, "R") \notin DOMAIN t
  <2>1. LastOf(Append(p, "R")) = Append(p, "R") /\ LastOf(p) = LastOf(Append(p, "R"))
    BY <1>2, <1>3, LastFact, LastOfRight
  <2> QED
    BY <2>1 DEF Full
<1>5. PICK e \in Paths : e = Place(t, p)
  BY <1>2 DEF Place
<1>6. /\ Len(e) = Depth - 1 /\ e \notin Inner /\ e \notin DOMAIN t
      /\ \A i \in 1 .. Depth - 2 : e[i] = p[i]
      /\ e[Depth - 1] = "R" => Append(p, "L") \in DOMAIN t
  BY <1>2, <1>3, <1>4, <1>5 DEF Place
<1>7. Top(e, Depth - 2) = p
  <2>1. Depth - 2 \in 0 .. Len(e)
    BY <1>1, <1>6
  <2>2. /\ Top(e, Depth - 2) \in Paths /\ Len(Top(e, Depth - 2)) = Depth - 2
        /\ \A i \in 1 .. Depth - 2 : Top(e, Depth - 2)[i] = e[i]
    BY <2>1, TopFact
  <2> QED
    BY <1>1, <1>6, <2>2, PathEqual
<1>8. ~ IsFull(t, p)
  BY <1>4 DEF IsFull
<1> QED
  BY <1>5, <1>6, <1>7, <1>8

\* The nodes above a leaf.
LEMMA AboveFact ==
  ASSUME NEW e \in Paths, Len(e) = Depth - 1
  PROVE  /\ \A k \in 0 .. Depth - 1 : Top(e, k) \in Paths /\ Len(Top(e, k)) = k
         /\ \A k \in 0 .. Depth - 2 :
              /\ Top(e, k) \in Inner /\ e[k + 1] \in {"L", "R"}
              /\ Append(Top(e, k), e[k + 1]) = Top(e, k + 1)
         /\ Top(e, Depth - 1) = e /\ Top(e, 0) = <<>>
<1>1. Depth - 1 \in Nat /\ Depth - 2 = (Depth - 1) - 1
  BY DepthAssumption
<1>2. \A k \in 0 .. Depth - 1 : Top(e, k) \in Paths /\ Len(Top(e, k)) = k
  BY TopFact
<1>3. \A k \in 0 .. Len(e) - 1 :
        /\ Top(e, k) \in Inner /\ e[k + 1] \in {"L", "R"}
        /\ Append(Top(e, k), e[k + 1]) = Top(e, k + 1)
  BY TopNext
<1>4. Top(e, Depth - 1) = e /\ Top(e, 0) = <<>>
  <2>1. 0 \in 0 .. Len(e) /\ Len(e) \in 0 .. Len(e)
    BY <1>1
  <2> QED
    BY <2>1, TopFact
<1> QED
  BY <1>1, <1>2, <1>3, <1>4

\* The node p after its child on one side.
Risen(u, p, side, agg) ==
  [Widen(u[p], side, u[Append(p, side)], RightIdx(u, Append(Append(p, side), "R")))
     EXCEPT !.agg = agg]

\* Node p of a tree u with the nodes D has a child on that side.
CanClimb(D, u, p, side, agg) ==
  /\ Inner \subseteq D /\ D \subseteq Paths /\ u \in [D -> Node]
  /\ p \in Inner /\ side \in {"L", "R"} /\ Append(p, side) \in D /\ agg \in Index

\* One update on the way up.
LEMMA ClimbFact ==
  ASSUME NEW D, NEW u, NEW p, NEW side, NEW agg, CanClimb(D, u, p, side, agg)
  PROVE  /\ Climb(u, p, side, agg) \in [D -> Node]
         /\ Climb(u, p, side, agg)[p] = Risen(u, p, side, agg)
         /\ \A q \in D : q # p => Climb(u, p, side, agg)[q] = u[q]
<1>0. /\ Inner \subseteq D /\ D \subseteq Paths /\ u \in [D -> Node]
      /\ p \in Inner /\ side \in {"L", "R"} /\ Append(p, side) \in D /\ agg \in Index
  BY DEF CanClimb
<1> DEFINE q == Append(p, side)
           cr == RightIdx(u, Append(q, "R"))
           w == Widen(u[p], side, u[q], cr)
<1>1. u[p] \in Node /\ u[q] \in Node
  BY <1>0
<1>2. cr \in Index
  BY <1>0 DEF RightIdx, Node, Index
<1>3. w \in Node
  <2>1. WidenOK(u[p], side, u[q], cr)
    BY <1>0, <1>1, <1>2, WidenFact
  <2> QED
    BY <2>1 DEF WidenOK
<1>4. Climb(u, p, side, agg) = [u EXCEPT ![p] = [w EXCEPT !.agg = agg]]
  BY <1>0 DEF Climb, RightIdx
<1>5. [w EXCEPT !.agg = agg] \in Node
  <2> HIDE DEF w
  <2> QED
    BY <1>0, <1>3 DEF Node
<1> HIDE DEF w
<1>6. [u EXCEPT ![p] = [w EXCEPT !.agg = agg]] \in [D -> Node]
  BY <1>0, <1>5
<1>7. /\ [u EXCEPT ![p] = [w EXCEPT !.agg = agg]][p] = [w EXCEPT !.agg = agg]
      /\ \A r \in D : r # p => [u EXCEPT ![p] = [w EXCEPT !.agg = agg]][r] = u[r]
  BY <1>0
<1>8. Risen(u, p, side, agg) = [w EXCEPT !.agg = agg]
  BY DEF Risen, w
<1> QED
  BY <1>4, <1>6, <1>7, <1>8

\* The loop of appendFromParent, on trees with the nodes D.
Climbs(F, e, base, aggs) ==
  /\ F[0] = base
  /\ \A k \in 1 .. Depth - 1 :
       F[k] = Climb(F[k - 1], Top(e, Depth - 1 - k), e[Depth - k], aggs[k + 1])

\* The tree with the new leaf, before anything else.
Sprouted(t, e, idx, aggs) ==
  [q \in DOMAIN t \cup {e} |->
     IF q = e THEN [left |-> idx, mid |-> idx, right |-> idx, agg |-> aggs[1]] ELSE t[q]]

\* A leaf at e can be appended to t.
CanAppend(t, p, e, idx, aggs) ==
  /\ TreeOK(t) /\ e \in Paths /\ e = Place(t, p) /\ Len(e) = Depth - 1 /\ e \notin DOMAIN t
  /\ idx \in Nat /\ aggs \in [1 .. Depth -> Index]

\* F are the trees that the append goes through.
Rounds(F, t, p, e, idx, aggs) ==
  /\ F \in [0 .. Depth - 1 -> [DOMAIN t \cup {e} -> Node]]
  /\ Climbs(F, e, Sprouted(t, e, idx, aggs), aggs)
  /\ F[Depth - 1] = AppendBelow(t, p, idx, aggs)

LEMMA ClimbsDefined ==
  ASSUME NEW t, NEW p, NEW e, NEW idx, NEW aggs, CanAppend(t, p, e, idx, aggs)
  PROVE  \E F : Rounds(F, t, p, e, idx, aggs)
<1> DEFINE base == Sprouted(t, e, idx, aggs)
           N == Depth - 1
           D == DOMAIN t \cup {e}
           T == [D -> Node]
           Up(k, u) == Climb(u, Top(e, N - k), e[N - k + 1], aggs[k + 1])
           G == [k \in 1 .. N |-> [u \in T |-> Up(k, u)]]
           Step(g) == [k \in 0 .. N |-> IF k = 0 THEN base ELSE Up(k, g[k - 1])]
           F == CHOOSE g : g = Step(g)
<1> USE DEF CanAppend
<1>0. N \in Nat /\ Inner \subseteq D /\ D \subseteq Paths /\ Len(e) = N /\ e \in Paths
  BY DepthAssumption DEF TreeOK
<1>1. base \in T
  <2>1. \A q \in D : base[q] \in Node
    <3>1. idx \in Index /\ aggs[1] \in Index
      BY DepthAssumption DEF Index
    <3>2. [left |-> idx, mid |-> idx, right |-> idx, agg |-> aggs[1]] \in Node
      BY <3>1 DEF Node
    <3>3. \A q \in DOMAIN t : t[q] \in Node
      BY DEF TreeOK
    <3> QED
      BY <3>2, <3>3 DEF Sprouted
  <2>2. base = [q \in D |-> base[q]]
    BY DEF Sprouted
  <2> HIDE DEF D
  <2> QED
    BY <2>1, <2>2
<1> HIDE DEF base
<1>2. AppendBelow(t, p, idx, aggs) = F[N]
  <2>1. AppendBelow(t, p, idx, aggs)
          = (CHOOSE g : g = [k \in 0 .. Len(e) |-> IF k = 0 THEN base
               ELSE Climb(g[k - 1], SubSeq(e, 1, Len(e) - k), e[Len(e) - k + 1], aggs[k + 1])])[Len(e)]
    BY DEF AppendBelow, Sprouted, base
  <2> QED
    BY <2>1, <1>0 DEF Top
<1>3. \A k \in 1 .. N, u \in T : Up(k, u) \in T
  <2> SUFFICES ASSUME NEW k \in 1 .. N, NEW u \in T
               PROVE  Up(k, u) \in T
    OBVIOUS
  <2>1. N - k \in 0 .. Depth - 2 /\ k + 1 \in 1 .. Depth /\ N - k + 1 \in 0 .. Depth - 1
    BY <1>0, DepthAssumption
  <2>2. /\ Top(e, N - k) \in Inner /\ e[N - k + 1] \in {"L", "R"}
        /\ Append(Top(e, N - k), e[N - k + 1]) = Top(e, N - k + 1)
    BY <2>1, AboveFact
  <2>3. Top(e, N - k + 1) \in D
    <3>1. CASE N - k + 1 \in 0 .. Depth - 2
      BY <3>1, <1>0, AboveFact
    <3>2. CASE N - k + 1 = Depth - 1
      BY <3>2, AboveFact
    <3> QED
      BY <2>1, <3>1, <3>2, DepthAssumption
  <2>4. aggs[k + 1] \in Index
    BY <2>1
  <2>5. Append(Top(e, N - k), e[N - k + 1]) \in D
    BY <2>2, <2>3
  <2> HIDE DEF N, D
  <2>6. CanClimb(D, u, Top(e, N - k), e[N - k + 1], aggs[k + 1])
    BY <1>0, <2>2, <2>4, <2>5 DEF CanClimb
  <2>7. Climb(u, Top(e, N - k), e[N - k + 1], aggs[k + 1]) \in [D -> Node]
    BY <2>6, ClimbFact, Zenon
  <2> QED
    BY <2>7
<1>4. G \in [1 .. N -> [T -> T]]
  <2> HIDE DEF Up, T, N
  <2> QED
    BY <1>3
<1>5. PICK h \in [0 .. N -> T] : IsIteration(h, N, base, G)
  <2> HIDE DEF G, T, N
  <2> QED
    BY <1>0, <1>1, <1>4, Iteration
<1>6. h[0] = base /\ \A k \in 1 .. N : h[k] = Up(k, h[k - 1])
  <2>1. ASSUME NEW k \in 1 .. N
        PROVE  h[k] = Up(k, h[k - 1])
    <3>1. k - 1 \in 0 .. N
      BY <1>0
    <3>2. h[k] = G[k][h[k - 1]]
      BY <1>5 DEF IsIteration
    <3>3. h[k - 1] \in T
      BY <3>1
    <3> HIDE DEF Up, T
    <3> QED
      BY <3>2, <3>3
  <2> HIDE DEF Up, G
  <2> QED
    BY <1>5, <2>1 DEF IsIteration
<1>7. h = Step(h)
  <2>1. \A k \in 0 .. N : h[k] = IF k = 0 THEN base ELSE Up(k, h[k - 1])
    <3> HIDE DEF Up
    <3> QED
      BY <1>0, <1>6
  <2> HIDE DEF N, T, Up
  <2> QED
    BY <2>1
<1>8. F = Step(F)
  <2> HIDE DEF Step
  <2> QED
    BY <1>7
<1> HIDE DEF F
<1>9. F[0] = base /\ \A k \in 1 .. N : F[k] = Up(k, F[k - 1])
  <2>1. F = [k \in 0 .. N |-> IF k = 0 THEN base ELSE Up(k, F[k - 1])]
    BY <1>8
  <2> HIDE DEF N, Up, T, D
  <2>2. \A k \in 0 .. N : F[k] = IF k = 0 THEN base ELSE Up(k, F[k - 1])
    BY <2>1
  <2>3. 0 \in 0 .. N /\ \A k \in 1 .. N : k \in 0 .. N /\ k # 0
    BY <1>0
  <2> QED
    BY <2>2, <2>3
<1>10. 0 .. N \subseteq {k \in 0 .. N : F[k] \in T}
  <2> DEFINE S == {k \in 0 .. N : F[k] \in T}
  <2>1. 0 \in S
    <3> HIDE DEF T, N
    <3> QED
      BY <1>0, <1>1, <1>9
  <2>2. \A k \in 0 .. N - 1 : k \in S => k + 1 \in S
    <3> SUFFICES ASSUME NEW k \in 0 .. N - 1, k \in S
                 PROVE  k + 1 \in S
      OBVIOUS
    <3>1. k + 1 \in 1 .. N /\ k + 1 \in 0 .. N /\ (k + 1) - 1 = k
      BY <1>0
    <3>2. F[k + 1] = Up(k + 1, F[k])
      BY <1>9, <3>1
    <3>3. F[k + 1] \in T
      <4> HIDE DEF Up, T
      <4> QED
        BY <1>3, <3>1, <3>2
    <3> QED
      BY <3>1, <3>3
  <2> HIDE DEF S, N
  <2>3. 0 .. N \subseteq S
    BY <1>0, <2>1, <2>2, BoundedInduction
  <2> QED
    BY <2>3 DEF S
<1>11. F \in [0 .. N -> T]
  <2>1. F = [k \in 0 .. N |-> F[k]]
    BY <1>8
  <2> HIDE DEF T, N
  <2> QED
    BY <2>1, <1>10
<1>12. Climbs(F, e, base, aggs)
  <2>1. \A k \in 1 .. Depth - 1 :
          F[k] = Climb(F[k - 1], Top(e, Depth - 1 - k), e[Depth - k], aggs[k + 1])
    <3> TAKE k \in 1 .. Depth - 1
    <3>1. N - k + 1 = Depth - k
      BY DepthAssumption
    <3> QED
      BY <1>9, <3>1
  <2> QED
    BY <2>1, <1>9 DEF Climbs
<1>13. Rounds(F, t, p, e, idx, aggs)
  BY <1>2, <1>11, <1>12 DEF base, Rounds
<1> QED
  BY <1>13

\* What appendFromParent makes of a tree.
LEMMA AppendFact ==
  ASSUME NEW t, NEW p, NEW e, NEW idx, NEW aggs, CanAppend(t, p, e, idx, aggs)
  PROVE  PutBelow(t, AppendBelow(t, p, idx, aggs), e, idx, aggs)
<1> DEFINE D == DOMAIN t \cup {e}
           T == [D -> Node]
           new == [left |-> idx, mid |-> idx, right |-> idx, agg |-> aggs[1]]
           base == [q \in D |-> IF q = e THEN new ELSE t[q]]
           N == Depth - 1
<1>1. /\ TreeOK(t) /\ e \in Paths /\ Len(e) = Depth - 1 /\ e \notin DOMAIN t
      /\ idx \in Nat /\ aggs \in [1 .. Depth -> Index]
  BY DEF CanAppend
<1>2. PICK F \in [0 .. N -> T] :
        Climbs(F, e, base, aggs) /\ F[N] = AppendBelow(t, p, idx, aggs)
  <2>1. base = Sprouted(t, e, idx, aggs)
    BY DEF Sprouted
  <2>2. PICK F : Rounds(F, t, p, e, idx, aggs)
    BY ClimbsDefined
  <2>3. /\ F \in [0 .. N -> T] /\ Climbs(F, e, Sprouted(t, e, idx, aggs), aggs)
        /\ F[N] = AppendBelow(t, p, idx, aggs)
    BY <2>2 DEF Rounds
  <2> HIDE DEF base, N, T
  <2> QED
    BY <2>1, <2>3
<1>3. /\ N \in Nat /\ Depth - 2 = N - 1 /\ Inner \subseteq D /\ e \notin Inner
      /\ N # 0 /\ Inner \subseteq DOMAIN t
  <2>1. e \notin Inner
    BY <1>1, PathFact
  <2> QED
    BY <1>1, <2>1, DepthAssumption DEF TreeOK
<1> DEFINE Good(k) ==
             /\ F[k][e] = new
             /\ \A q \in DOMAIN t : OffPath(e, q, N - k) => F[k][q] = t[q]
             /\ \A i \in N - k .. Depth - 2 :
                  F[k][Top(e, i)] = Climbed(t[Top(e, i)], F[k], e, i, aggs)
           S == {k \in 0 .. N : Good(k)}
<1>4. 0 \in S
  <2>1. F[0] = base
    BY <1>2 DEF Climbs
  <2>2. base[e] = new
    OBVIOUS
  <2>3. \A q \in DOMAIN t : base[q] = t[q]
    BY <1>1
  <2>4. N - 0 = N /\ \A i \in N .. Depth - 2 : FALSE
    BY <1>3
  <2>5. F[0][e] = new /\ \A q \in DOMAIN t : F[0][q] = t[q]
    BY <2>1, <2>2, <2>3
  <2>6. Good(0)
    <3> HIDE DEF base, N, new
    <3> QED
      BY <2>4, <2>5
  <2> HIDE DEF Good
  <2> QED
    BY <2>6, <1>3
<1>5. ASSUME NEW k \in 0 .. N - 1, Good(k)
      PROVE  Good(k + 1)
  <2> DEFINE m == N - (k + 1)
             q0 == Top(e, m)
             u == F[k]
             w == [Widen(u[q0], e[m + 1], u[Append(q0, e[m + 1])],
                         RightIdx(u, Append(Append(q0, e[m + 1]), "R"))) EXCEPT !.agg = aggs[Depth - m]]
  <2>1. /\ m \in 0 .. Depth - 2 /\ m \in Nat /\ m + 1 = N - k /\ k + 1 \in 1 .. N /\ Depth - m = (k + 1) + 1
        /\ (k + 1) - 1 = k /\ Depth - 1 - (k + 1) = m /\ Depth - (k + 1) = m + 1
        /\ Depth - m \in 1 .. Depth /\ k \in 0 .. N /\ m + 1 \in 0 .. N
    BY <1>3, DepthAssumption
  <2> HIDE DEF m
  <2>2. /\ q0 \in Inner /\ Len(q0) = m /\ e[m + 1] \in {"L", "R"}
        /\ Append(q0, e[m + 1]) = Top(e, m + 1)
    BY <2>1, <1>1, <1>3, AboveFact, SMTT(40)
  <2>3. F[k + 1] = Climb(u, q0, e[m + 1], aggs[Depth - m])
    BY <1>2, <2>1 DEF Climbs
  <2>4. u \in T /\ aggs[Depth - m] \in Index
    BY <1>1, <2>1
  <2>5. Top(e, m + 1) \in D
    <3>1. CASE m + 1 = N
      BY <3>1, <1>1, AboveFact
    <3>2. CASE m + 1 < N
      <4>1. m + 1 \in 0 .. Depth - 2
        BY <3>2, <2>1, <1>3
      <4> QED
        BY <4>1, <1>1, <1>3, AboveFact
    <3> QED
      BY <3>1, <3>2, <2>1, <1>3
  <2>6. D \subseteq Paths
    BY <1>1 DEF TreeOK
  <2>7. F[k + 1][q0] = w /\ \A q \in D : q # q0 => F[k + 1][q] = u[q]
    <3> DEFINE sd == e[m + 1]
               ag == aggs[Depth - m]
    <3>1. /\ q0 \in Inner /\ sd \in {"L", "R"} /\ ag \in Index /\ Append(q0, sd) \in D
          /\ Inner \subseteq D /\ u \in [D -> Node] /\ F[k + 1] = Climb(u, q0, sd, ag)
      BY <1>3, <2>2, <2>3, <2>4, <2>5
    <3>2. w = Risen(u, q0, sd, ag)
      BY DEF Risen
    <3> HIDE DEF D, u, q0, sd, ag, w
    <3>3. CanClimb(D, u, q0, sd, ag)
      BY <2>6, <3>1 DEF CanClimb
    <3>4. /\ Climb(u, q0, sd, ag)[q0] = Risen(u, q0, sd, ag)
          /\ \A q \in D : q # q0 => Climb(u, q0, sd, ag)[q] = u[q]
      BY <3>3, ClimbFact
    <3> QED
      BY <3>1, <3>2, <3>4
  <2> HIDE DEF w
  <2>8. F[k + 1][e] = new
    <3>1. e # q0 /\ e \in D
      BY <1>3, <2>2
    <3>2. u[e] = new
      BY <1>5
    <3> HIDE DEF new, D, u, q0
    <3> QED
      BY <2>7, <3>1, <3>2
  <2>9. ASSUME NEW q \in DOMAIN t, OffPath(e, q, m)
        PROVE  F[k + 1][q] = t[q]
    <3>1. OffPath(e, q, N - k) /\ q # q0
      BY <2>1, <2>9 DEF OffPath
    <3>2. u[q] = t[q] /\ q \in D
      BY <3>1, <1>5
    <3> HIDE DEF u, q0, D
    <3> QED
      BY <2>7, <3>1, <3>2
  <2>10. DOMAIN u = D /\ DOMAIN F[k + 1] = D
    BY <2>1, <2>4
  <2>11. ASSUME NEW q \in Paths, Len(q) > m
         PROVE  (q \in D => F[k + 1][q] = u[q]) /\ RightIdx(F[k + 1], q) = RightIdx(u, q)
    <3>1. q # q0
      BY <2>2, <2>11, <2>1
    <3> HIDE DEF u, q0, D
    <3> QED
      BY <2>7, <2>10, <3>1 DEF RightIdx
  <2>12. ASSUME NEW q, q \notin Paths
         PROVE  RightIdx(F[k + 1], q) = RightIdx(u, q)
    <3> HIDE DEF u, D
    <3> QED
      BY <2>6, <2>10, <2>12 DEF RightIdx
  <2>13. ASSUME NEW i \in m .. Depth - 2
         PROVE  Climbed(t[Top(e, i)], F[k + 1], e, i, aggs) = Climbed(t[Top(e, i)], u, e, i, aggs)
    <3>1. i \in 0 .. Depth - 2 /\ i + 1 \in 0 .. N /\ i + 1 > m
      BY <2>1, <1>3
    <3> DEFINE c == Top(e, i + 1)
               r == Append(c, "R")
    <3>2. c \in Paths /\ Len(c) = i + 1
      BY <3>1, <1>1, AboveFact
    <3>3. c \in D
      <4>1. CASE i + 1 = N
        BY <4>1, <1>1, AboveFact
      <4>2. CASE i + 1 < N
        <5>1. i + 1 \in 0 .. Depth - 2
          BY <4>2, <3>1, <1>3
        <5> QED
          BY <5>1, <1>1, <1>3, AboveFact
      <4> QED
        BY <4>1, <4>2, <3>1, <1>3
    <3>4. F[k + 1][c] = u[c]
      <4> HIDE DEF c, u, D
      <4> QED
        BY <2>11, <3>1, <3>2, <3>3
    <3>5. r \in Paths => Len(r) > m
      <4>1. c \in Seq(Dir) /\ Len(c) = i + 1 /\ "R" \in Dir
        BY <3>2, PathFact DEF Dir
      <4>2. Len(r) = i + 2
        <5> HIDE DEF c
        <5> QED
          BY <4>1, <3>1, AppendProperties
      <4> QED
        BY <4>2, <3>1, <2>1
    <3>6. RightIdx(F[k + 1], r) = RightIdx(u, r)
      <4> HIDE DEF r, u
      <4> QED
        BY <2>11, <2>12, <3>5
    <3> HIDE DEF u
    <3> QED
      BY <3>4, <3>6 DEF Climbed
  <2>14. ASSUME NEW i \in m .. Depth - 2
         PROVE  F[k + 1][Top(e, i)] = Climbed(t[Top(e, i)], u, e, i, aggs)
    <3>1. CASE i = m
      <4>1. OffPath(e, q0, N - k)
        <5>1. \A j \in N - k .. Depth - 2 : Len(Top(e, j)) = j /\ j # m
          BY <2>1, <1>1, <1>3, AboveFact, SMTT(40)
        <5> QED
          BY <5>1, <2>2 DEF OffPath
      <4>2. q0 \in DOMAIN t
        BY <2>2, <1>3
      <4>3. u[q0] = t[q0]
        BY <4>1, <4>2, <1>5
      <4>4. w = Climbed(t[q0], u, e, m, aggs)
        BY <2>2, <4>3 DEF w, Climbed
      <4> QED
        BY <2>7, <3>1, <4>4
    <3>2. CASE i > m
      <4>1. i \in N - k .. Depth - 2 /\ i \in 0 .. Depth - 2 /\ i \in Int
        BY <3>2, <2>1, <1>3
      <4>2. Top(e, i) \in Paths /\ Len(Top(e, i)) = i /\ Top(e, i) \in D
        BY <4>1, <1>1, <1>3, AboveFact
      <4>3. F[k + 1][Top(e, i)] = u[Top(e, i)]
        <5> HIDE DEF u, D
        <5> QED
          BY <4>2, <3>2, <2>11
      <4> QED
        BY <4>1, <4>3, <1>5
    <3> QED
      BY <3>1, <3>2, <2>1
  <2>15. \A i \in m .. Depth - 2 :
           F[k + 1][Top(e, i)] = Climbed(t[Top(e, i)], F[k + 1], e, i, aggs)
    <3> HIDE DEF u
    <3> QED
      BY <2>13, <2>14
  <2> HIDE DEF new
  <2> QED
    BY <2>8, <2>9, <2>15 DEF m
<1>6. \A k \in 0 .. N - 1 : k \in S => k + 1 \in S
  <2>1. \A k \in 0 .. N - 1 : k + 1 \in 0 .. N
    BY <1>3
  <2> HIDE DEF Good, N
  <2> QED
    BY <1>5, <2>1
<1>7. Good(N)
  <2> HIDE DEF S, N
  <2>1. 0 .. N \subseteq S
    BY <1>3, <1>4, <1>6, BoundedInduction
  <2>2. N \in S
    BY <2>1, <1>3
  <2> QED
    BY <2>2 DEF S
<1>8. N - N = 0
  BY <1>3
<1>9. F[N] \in T
  <2> HIDE DEF T, N
  <2> QED
    BY <1>3
<1> HIDE DEF N, T, new
<1>10. PutBelow(t, F[N], e, idx, aggs)
  BY <1>7, <1>8, <1>9 DEF PutBelow, T, new
<1> QED
  BY <1>2, <1>10

-----------------------------------------------------------------------------
(* The shape of a tree after an append.                                    *)

\* Tree t has a free place at e, after all others.  A roll-up leaves an old
\* rightIdx at nodes whose right child is on the way to e.
Ready(t, e) ==
  /\ TreeOK(t)
  /\ e \in Paths /\ Len(e) = Depth - 1 /\ e \notin DOMAIN t
  /\ \A k \in 0 .. Depth - 2 : e[k + 1] = "R" => Full(DOMAIN t, Append(Top(e, k), "L"))
  /\ \A q \in DOMAIN t :
       (\A k \in 0 .. Depth - 2 : e[k + 1] = "R" => q # Top(e, k)) => RightOK(t, q)
  /\ \A q \in Inner : Len(q) < Depth - 2 => MidOK(t, q)
  /\ \A z \in DOMAIN t \ Inner : LeafOK(t, z)

\* A leaf is the last one below nodes on the way to it only.
LEMMA LastOnPath ==
  ASSUME NEW q \in Paths, NEW e \in Paths, Len(e) = Depth - 1, LastOf(q) = e
  PROVE  q = Top(e, Len(q))
<1>1. Len(q) \in 0 .. Depth - 1 /\ Len(q) \in 0 .. Len(e)
  BY PathFact
<1>2. /\ Top(e, Len(q)) \in Paths /\ Len(Top(e, Len(q))) = Len(q)
      /\ \A i \in 1 .. Len(q) : Top(e, Len(q))[i] = e[i]
  BY <1>1, TopFact
<1>3. \A i \in 1 .. Depth - 1 : e[i] = IF i <= Len(q) THEN q[i] ELSE "R"
  BY LastFact
<1>4. \A i \in 1 .. Len(q) : q[i] = e[i]
  BY <1>1, <1>3
<1> QED
  BY <1>2, <1>4, PathEqual

\* Other nodes are as full as before.
LEMMA FullOffPath ==
  ASSUME NEW D, NEW e \in Paths, Len(e) = Depth - 1, e \notin D, NEW q \in Paths,
         OffPath(e, q, 0), q # e
  PROVE  Full(D \cup {e}, q) <=> Full(D, q)
<1>1. LastOf(q) # e
  <2>1. SUFFICES ASSUME LastOf(q) = e PROVE FALSE
    OBVIOUS
  <2>2. q = Top(e, Len(q)) /\ Len(q) \in 0 .. Depth - 1
    BY <2>1, LastOnPath, PathFact
  <2>3. Len(q) # Depth - 1
    BY <2>2, AboveFact
  <2>4. Len(q) \in 0 .. Depth - 2
    BY <2>2, <2>3, DepthAssumption
  <2> QED
    BY <2>2, <2>4 DEF OffPath
<1> QED
  BY <1>1 DEF Full

\* A node on the way to e has its left child's last leaf as before.
LEMMA FullLeftTurn ==
  ASSUME NEW D, NEW e \in Paths, Len(e) = Depth - 1, NEW k \in 0 .. Depth - 2, e[k + 1] = "L"
  PROVE  Full(D \cup {e}, Top(e, k)) <=> Full(D, Top(e, k))
<1>1. Top(e, k) \in Paths /\ Len(Top(e, k)) = k /\ k + 1 \in 1 .. Depth - 1
  BY AboveFact, DepthAssumption
<1>2. LastOf(Top(e, k))[k + 1] = "R"
  BY <1>1, LastFact
<1>3. LastOf(Top(e, k)) # e
  BY <1>2
<1> QED
  BY <1>3 DEF Full

\* An append to a tree that is ready for it.
Grew(t, u, e, idx, aggs) ==
  /\ Ready(t, e) /\ idx \in Nat /\ aggs \in [1 .. Depth -> Index]
  /\ PutBelow(t, u, e, idx, aggs)

\* What becomes of the nodes on the way to the new leaf.
WentUp(t, u, e, k) ==
  LET q == Top(e, k)  c == Top(e, k + 1) IN
  /\ q \in Inner /\ q \in DOMAIN t /\ c \in DOMAIN u
  /\ e[k + 1] = "L" =>
       /\ u[q].left # None <=> t[q].left # None \/ u[c].left # None
       /\ u[q].mid # None <=> t[q].mid # None \/ RightIdx(u, Append(c, "R")) # None
       /\ u[q].right = t[q].right
  /\ e[k + 1] = "R" =>
       /\ u[q].left = t[q].left
       /\ u[q].mid # None <=> t[q].mid # None \/ u[c].left # None
       /\ u[q].right # None <=> u[c].right # None

LEMMA ClimbedFact ==
  ASSUME NEW t, NEW u, NEW e, NEW idx, NEW aggs, Grew(t, u, e, idx, aggs)
  PROVE  \A k \in 0 .. Depth - 2 : WentUp(t, u, e, k)
<1> TAKE k \in 0 .. Depth - 2
<1> DEFINE q == Top(e, k)
           c == Top(e, k + 1)
           cr == RightIdx(u, Append(c, "R"))
           w == Widen(t[q], e[k + 1], u[c], cr)
<1>1. /\ TreeOK(t) /\ e \in Paths /\ Len(e) = Depth - 1 /\ e \notin DOMAIN t
      /\ aggs \in [1 .. Depth -> Index] /\ PutBelow(t, u, e, idx, aggs)
  BY DEF Grew, Ready
<1>2. /\ q \in Inner /\ e[k + 1] \in {"L", "R"} /\ Top(e, Depth - 1) = e
      /\ \A i \in 0 .. Depth - 2 : Top(e, i) \in Inner
  BY <1>1, AboveFact
<1>3. q \in DOMAIN t /\ t[q] \in Node
  BY <1>1, <1>2 DEF TreeOK
<1>4. DOMAIN u = DOMAIN t \cup {e} /\ \A x \in DOMAIN u : u[x] \in Node
  BY <1>1 DEF PutBelow
<1>5. c \in DOMAIN u
  <2>1. CASE k + 1 = Depth - 1
    BY <2>1, <1>2, <1>4
  <2>2. CASE k + 1 # Depth - 1
    <3>1. k + 1 \in 0 .. Depth - 2
      BY <2>2, DepthAssumption
    <3>2. Top(e, k + 1) \in Inner
      BY <3>1, <1>2
    <3> QED
      BY <3>2, <1>1, <1>4 DEF TreeOK
  <2> QED
    BY <2>1, <2>2
<1>6. u[c] \in Node /\ cr \in Index
  BY <1>4, <1>5 DEF RightIdx, Node, Index
<1>7. /\ w \in Node
      /\ e[k + 1] = "L" =>
              /\ w.left # None <=> t[q].left # None \/ u[c].left # None
              /\ w.mid # None <=> t[q].mid # None \/ cr # None
              /\ w.right = t[q].right
      /\ e[k + 1] = "R" =>
              /\ w.left = t[q].left
              /\ w.mid # None <=> t[q].mid # None \/ u[c].left # None
              /\ w.right # None <=> u[c].right # None
  <2>1. WidenOK(t[q], e[k + 1], u[c], cr)
    BY <1>2, <1>3, <1>6, WidenFact
  <2> QED
    BY <2>1 DEF WidenOK
<1>8. u[q] = [w EXCEPT !.agg = aggs[Depth - k]]
  BY <1>1 DEF PutBelow, Climbed
<1>9. u[q].left = w.left /\ u[q].mid = w.mid /\ u[q].right = w.right
  <2> HIDE DEF w
  <2> QED
    BY <1>7, <1>8 DEF Node
<1> HIDE DEF w
<1> QED
  BY <1>2, <1>3, <1>5, <1>7, <1>9 DEF WentUp

\* Every node on the way has a leftIdx.
LEMMA ClimbedLeft ==
  ASSUME NEW t, NEW u, NEW e, NEW idx, NEW aggs, Grew(t, u, e, idx, aggs)
  PROVE  \A k \in 0 .. Depth - 1 : u[Top(e, k)].left # None
<1> DEFINE N == Depth - 1
           S == {k \in 0 .. N : u[Top(e, N - k)].left # None}
<1>0. N \in Nat
  BY DepthAssumption
<1>1. /\ TreeOK(t) /\ e \in Paths /\ Len(e) = N /\ idx \in Nat
      /\ \A k \in 0 .. Depth - 2 : e[k + 1] = "R" => Full(DOMAIN t, Append(Top(e, k), "L"))
      /\ \A z \in DOMAIN t \ Inner : LeafOK(t, z)
      /\ PutBelow(t, u, e, idx, aggs)
  BY DEF Grew, Ready
<1>5. \A k \in 0 .. Depth - 2 : WentUp(t, u, e, k)
  BY ClimbedFact
<1>2. 0 \in S
  <2>1. Top(e, N) = e
    BY <1>1, AboveFact
  <2>2. u[e].left = idx
    BY <1>1 DEF PutBelow
  <2> QED
    BY <1>0, <1>1, <2>1, <2>2 DEF None
<1>3. ASSUME NEW k \in 0 .. N - 1, k \in S
      PROVE  k + 1 \in S
  <2> DEFINE m == N - (k + 1)
  <2>1. m \in 0 .. Depth - 2 /\ m + 1 = N - k /\ k + 1 \in 0 .. N
    BY DepthAssumption
  <2>2. u[Top(e, m + 1)].left # None
    BY <1>3, <2>1
  <2> HIDE DEF m
  <2>3. e[m + 1] \in {"L", "R"} /\ Top(e, m) \in Inner
    BY <1>1, <2>1, AboveFact
  <2>4. CASE e[m + 1] = "L"
    <3>1. u[Top(e, m)].left # None
      BY <1>5, <2>1, <2>2, <2>4 DEF WentUp
    <3> QED
      BY <3>1, <2>1 DEF m
  <2>5. CASE e[m + 1] = "R"
    <3>1. u[Top(e, m)].left = t[Top(e, m)].left
      BY <1>5, <2>1, <2>5 DEF WentUp
    <3>2. PICK a \in Paths : a = Append(Top(e, m), "L")
      BY <2>3, StepFact
    <3>3. LastOf(a) \in DOMAIN t /\ LastOf(a) \notin Inner
      <4>1. Full(DOMAIN t, a)
        BY <1>1, <2>1, <2>5, <3>2
      <4> QED
        BY <4>1, LastFact DEF Full
    <3>4. Top(LastOf(a), m) = Top(e, m)
      <4>1. Len(Top(e, m)) = m /\ Top(e, m) \in Paths /\ m \in Nat /\ m <= N
        BY <1>1, <2>1, AboveFact
      <4>2. Len(a) = m + 1 /\ \A i \in 1 .. m : a[i] = Top(e, m)[i]
        BY <2>3, <3>2, <4>1, StepFact
      <4>3. LastOf(a) \in Paths /\ Len(LastOf(a)) = N /\ \A i \in 1 .. N : LastOf(a)[i] = IF i <= Len(a) THEN a[i] ELSE "R"
        BY LastFact
      <4>4. PICK z \in Paths : z = LastOf(a)
        BY <4>3
      <4>5. Top(z, m) \in Paths /\ Len(Top(z, m)) = m /\ \A i \in 1 .. m : Top(z, m)[i] = z[i]
        <5>1. m \in 0 .. Len(z)
          BY <4>1, <4>3, <4>4, <1>0
        <5> QED
          BY <5>1, TopFact
      <4>6. \A i \in 1 .. m : Top(z, m)[i] = Top(e, m)[i]
        BY <4>1, <4>2, <4>3, <4>4, <4>5, <1>0
      <4> QED
        BY <4>1, <4>4, <4>5, <4>6, PathEqual
    <3>5. t[Top(LastOf(a), m)].left # None
      BY <1>1, <2>1, <3>3 DEF LeafOK
    <3> QED
      BY <2>1, <3>1, <3>4, <3>5 DEF m
  <2> QED
    BY <2>3, <2>4, <2>5
<1>4. 0 .. N \subseteq S
  <2> HIDE DEF N, S
  <2>1. \A k \in 0 .. N - 1 : k \in S => k + 1 \in S
    BY <1>3
  <2> QED
    BY <1>0, <1>2, <2>1, BoundedInduction
<1>6. ASSUME NEW k \in 0 .. Depth - 1
      PROVE  u[Top(e, k)].left # None
  <2>1. N - k \in 0 .. N /\ N - (N - k) = k
    BY <1>0
  <2>2. N - k \in S
    BY <1>4, <2>1
  <2> QED
    BY <2>1, <2>2
<1> QED
  BY <1>6

\* What the proofs use of an append.
LEMMA GrewFact ==
  ASSUME NEW t, NEW u, NEW e, NEW idx, NEW aggs, Grew(t, u, e, idx, aggs)
  PROVE  /\ TreeOK(t) /\ TreeOK(u) /\ DOMAIN u = DOMAIN t \cup {e}
         /\ e \in Paths /\ Len(e) = Depth - 1 /\ e \notin DOMAIN t /\ e \notin Inner
         /\ u[e].left # None /\ u[e].right # None
         /\ \A q \in DOMAIN t : OffPath(e, q, 0) => u[q] = t[q]
         /\ \A q \in DOMAIN u : q = e \/ OffPath(e, q, 0) \/ \E k \in 0 .. Depth - 2 : q = Top(e, k)
<1>1. /\ TreeOK(t) /\ e \in Paths /\ Len(e) = Depth - 1 /\ e \notin DOMAIN t /\ idx \in Nat
      /\ PutBelow(t, u, e, idx, aggs)
  BY DEF Grew, Ready
<1>2. DOMAIN u = DOMAIN t \cup {e} /\ u \in [DOMAIN u -> Node]
  BY <1>1 DEF PutBelow
<1>3. TreeOK(u)
  BY <1>1, <1>2 DEF TreeOK
<1>4. e \notin Inner
  BY <1>1, PathFact
<1>5. u[e].left # None /\ u[e].right # None
  BY <1>1 DEF PutBelow, None
<1>6. \A q \in DOMAIN t : OffPath(e, q, 0) => u[q] = t[q]
  BY <1>1 DEF PutBelow
<1> QED
  BY <1>1, <1>2, <1>3, <1>4, <1>5, <1>6 DEF OffPath

\* The rightIdx of the nodes on the way.
LEMMA ClimbedRight ==
  ASSUME NEW t, NEW u, NEW e, NEW idx, NEW aggs, Grew(t, u, e, idx, aggs)
  PROVE  \A k \in 0 .. Depth - 1 : RightOK(u, Top(e, k))
<1> DEFINE N == Depth - 1
           S == {k \in 0 .. N : RightOK(u, Top(e, N - k))}
<1>0. N \in Nat
  BY DepthAssumption
<1>1. /\ TreeOK(t) /\ e \in Paths /\ Len(e) = N /\ e \notin Inner /\ u[e].right # None
      /\ DOMAIN u = DOMAIN t \cup {e} /\ e \notin DOMAIN t
  BY GrewFact
<1>2. \A q \in DOMAIN t :
        (\A k \in 0 .. Depth - 2 : e[k + 1] = "R" => q # Top(e, k)) => RightOK(t, q)
  BY DEF Grew, Ready
<1>3. \A k \in 0 .. Depth - 2 : WentUp(t, u, e, k)
  BY ClimbedFact
<1>4. 0 \in S
  <2>1. Top(e, N) = e /\ LastOf(e) = e
    BY <1>1, AboveFact, LastFact
  <2> QED
    BY <1>0, <1>1, <2>1 DEF RightOK, Full
<1>5. ASSUME NEW k \in 0 .. N - 1, k \in S
      PROVE  k + 1 \in S
  <2> DEFINE m == N - (k + 1)
  <2>1. m \in 0 .. Depth - 2 /\ m + 1 = N - k /\ k + 1 \in 0 .. N
    BY DepthAssumption
  <2>2. RightOK(u, Top(e, m + 1))
    BY <1>5, <2>1
  <2> HIDE DEF m
  <2>3. /\ e[m + 1] \in {"L", "R"} /\ Top(e, m) \in Inner
        /\ Append(Top(e, m), e[m + 1]) = Top(e, m + 1)
    BY <1>1, <2>1, AboveFact
  <2>4. CASE e[m + 1] = "R"
    <3>1. u[Top(e, m)].right # None <=> u[Top(e, m + 1)].right # None
      BY <1>3, <2>1, <2>4 DEF WentUp
    <3>2. LastOf(Top(e, m + 1)) = LastOf(Top(e, m))
      BY <2>3, <2>4, LastOfRight
    <3>3. RightOK(u, Top(e, m))
      BY <2>2, <3>1, <3>2 DEF RightOK, Full
    <3> QED
      BY <2>1, <3>3 DEF m
  <2>5. CASE e[m + 1] = "L"
    <3>1. u[Top(e, m)].right = t[Top(e, m)].right /\ Top(e, m) \in DOMAIN t
      BY <1>3, <2>1, <2>5 DEF WentUp
    <3>2. ASSUME NEW i \in 0 .. Depth - 2, e[i + 1] = "R"
          PROVE  Top(e, m) # Top(e, i)
      <4>1. i # m
        BY <2>5, <3>2
      <4>2. Len(Top(e, i)) = i /\ Len(Top(e, m)) = m
        BY <1>1, <2>1, AboveFact, DepthAssumption, SMTT(40)
      <4> QED
        BY <4>1, <4>2
    <3>3. RightOK(t, Top(e, m))
      BY <1>2, <3>1, <3>2
    <3>4. Full(DOMAIN u, Top(e, m)) <=> Full(DOMAIN t, Top(e, m))
      BY <1>1, <2>1, <2>5, FullLeftTurn
    <3>5. RightOK(u, Top(e, m))
      BY <3>1, <3>3, <3>4 DEF RightOK
    <3> QED
      BY <2>1, <3>5 DEF m
  <2> QED
    BY <2>3, <2>4, <2>5
<1>6. 0 .. N \subseteq S
  <2> HIDE DEF N, S
  <2>1. \A k \in 0 .. N - 1 : k \in S => k + 1 \in S
    BY <1>5
  <2> QED
    BY <1>0, <1>4, <2>1, BoundedInduction
<1>7. ASSUME NEW k \in 0 .. Depth - 1
      PROVE  RightOK(u, Top(e, k))
  <2>1. N - k \in 0 .. N /\ N - (N - k) = k
    BY <1>0
  <2>2. N - k \in S
    BY <1>6, <2>1
  <2> QED
    BY <2>1, <2>2
<1> QED
  BY <1>7

\* The rightIdx of all nodes.
LEMMA AppendedRight ==
  ASSUME NEW t, NEW u, NEW e, NEW idx, NEW aggs, Grew(t, u, e, idx, aggs)
  PROVE  \A q \in DOMAIN u : RightOK(u, q)
<1>1. /\ TreeOK(t) /\ DOMAIN u = DOMAIN t \cup {e} /\ e \in Paths /\ Len(e) = Depth - 1 /\ e \notin DOMAIN t
      /\ \A q \in DOMAIN t : OffPath(e, q, 0) => u[q] = t[q]
      /\ \A q \in DOMAIN u : q = e \/ OffPath(e, q, 0) \/ \E k \in 0 .. Depth - 2 : q = Top(e, k)
  BY GrewFact
<1>2. \A k \in 0 .. Depth - 1 : RightOK(u, Top(e, k))
  BY ClimbedRight
<1>3. \A q \in DOMAIN t :
        (\A k \in 0 .. Depth - 2 : e[k + 1] = "R" => q # Top(e, k)) => RightOK(t, q)
  BY DEF Grew, Ready
<1> TAKE q \in DOMAIN u
<1>4. CASE q = e
  <2>1. Top(e, Depth - 1) = e /\ Depth - 1 \in 0 .. Depth - 1
    BY <1>1, AboveFact, DepthAssumption
  <2> QED
    BY <1>2, <1>4, <2>1
<1>5. CASE q # e /\ OffPath(e, q, 0)
  <2>1. q \in DOMAIN t /\ q \in Paths
    BY <1>1, <1>5 DEF TreeOK
  <2>2. u[q] = t[q] /\ RightOK(t, q)
    BY <1>1, <1>3, <1>5, <2>1 DEF OffPath
  <2>3. Full(DOMAIN u, q) <=> Full(DOMAIN t, q)
    BY <1>1, <1>5, <2>1, FullOffPath
  <2> QED
    BY <2>2, <2>3 DEF RightOK
<1>6. CASE \E k \in 0 .. Depth - 2 : q = Top(e, k)
  <2>1. \A k \in 0 .. Depth - 2 : k \in 0 .. Depth - 1
    BY DepthAssumption
  <2> QED
    BY <1>2, <1>6, <2>1
<1> QED
  BY <1>1, <1>4, <1>5, <1>6

\* The children of nodes that are not on the way are not on it.
LEMMA OffChild ==
  ASSUME NEW e \in Paths, Len(e) = Depth - 1, NEW q \in Inner, NEW d \in {"L", "R"},
         OffPath(e, q, 0)
  PROVE  OffPath(e, Append(q, d), 0) /\ Append(q, d) # e
<1>1. /\ q \in Paths /\ Len(q) \in 0 .. Depth - 2 /\ Append(q, d) \in Paths
      /\ Len(Append(q, d)) = Len(q) + 1 /\ \A i \in 1 .. Len(q) : Append(q, d)[i] = q[i]
  BY InnerPaths, StepFact, PathFact
<1>2. ASSUME NEW k \in 0 .. Depth - 1
      PROVE  Append(q, d) # Top(e, k)
  <2>1. SUFFICES ASSUME Append(q, d) = Top(e, k) PROVE FALSE
    OBVIOUS
  <2>2. /\ Top(e, k) \in Paths /\ Len(Top(e, k)) = k /\ \A i \in 1 .. k : Top(e, k)[i] = e[i]
    BY TopFact
  <2>3. k = Len(q) + 1
    BY <1>1, <2>1, <2>2
  <2>4. Len(q) \in 0 .. Len(e) /\ Len(q) \in Nat
    BY <1>1, DepthAssumption
  <2>5. /\ Top(e, Len(q)) \in Paths /\ Len(Top(e, Len(q))) = Len(q)
        /\ \A i \in 1 .. Len(q) : Top(e, Len(q))[i] = e[i]
    BY <2>4, TopFact
  <2>6. \A i \in 1 .. Len(q) : i \in 1 .. k
    BY <2>3, <2>4
  <2>7. \A i \in 1 .. Len(q) : q[i] = Top(e, Len(q))[i]
    BY <1>1, <2>1, <2>2, <2>5, <2>6
  <2>8. q = Top(e, Len(q))
    BY <1>1, <2>5, <2>7, PathEqual
  <2> QED
    BY <1>1, <2>8 DEF OffPath
<1>3. Top(e, Depth - 1) = e /\ Depth - 1 \in 0 .. Depth - 1
  BY AboveFact, DepthAssumption
<1>4. \A k \in 0 .. Depth - 2 : k \in 0 .. Depth - 1
  BY DepthAssumption
<1> QED
  BY <1>2, <1>3, <1>4 DEF OffPath

\* The midIdx of all nodes.
LEMMA AppendedMid ==
  ASSUME NEW t, NEW u, NEW e, NEW idx, NEW aggs, Grew(t, u, e, idx, aggs)
  PROVE  \A q \in Inner : Len(q) < Depth - 2 => MidOK(u, q)
<1>1. /\ TreeOK(t) /\ TreeOK(u) /\ DOMAIN u = DOMAIN t \cup {e}
      /\ e \in Paths /\ Len(e) = Depth - 1 /\ e \notin DOMAIN t /\ e \notin Inner
      /\ \A q \in DOMAIN t : OffPath(e, q, 0) => u[q] = t[q]
      /\ \A q \in DOMAIN u : q = e \/ OffPath(e, q, 0) \/ \E k \in 0 .. Depth - 2 : q = Top(e, k)
  BY GrewFact
<1>2. /\ \A q \in Inner : Len(q) < Depth - 2 => MidOK(t, q)
      /\ \A k \in 0 .. Depth - 2 : e[k + 1] = "R" => Full(DOMAIN t, Append(Top(e, k), "L"))
  BY DEF Grew, Ready
<1>3. /\ \A k \in 0 .. Depth - 2 : WentUp(t, u, e, k)
      /\ \A q \in DOMAIN u : RightOK(u, q)
      /\ \A k \in 0 .. Depth - 1 : u[Top(e, k)].left # None
  BY ClimbedFact, AppendedRight, ClimbedLeft
<1> SUFFICES ASSUME NEW q \in Inner, Len(q) < Depth - 2
             PROVE  MidOK(u, q)
  OBVIOUS
<1>4. q \in DOMAIN t /\ q \in DOMAIN u /\ q # e /\ MidOK(t, q)
  BY <1>1, <1>2 DEF TreeOK
<1>5. CASE OffPath(e, q, 0)
  <2>1. PICK a \in Paths : a = Append(q, "L")
    BY StepFact
  <2>2. OffPath(e, a, 0) /\ a # e
    BY <1>1, <1>5, <2>1, OffChild
  <2>3. Full(DOMAIN u, a) <=> Full(DOMAIN t, a)
    BY <1>1, <2>2, FullOffPath
  <2>4. u[q] = t[q]
    BY <1>1, <1>4, <1>5
  <2> QED
    BY <1>4, <2>1, <2>3, <2>4 DEF MidOK
<1>6. ASSUME NEW k \in 0 .. Depth - 2, q = Top(e, k)
      PROVE  MidOK(u, q)
  <2> DEFINE c == Top(e, k + 1)
  <2>1. /\ Len(q) = k /\ e[k + 1] \in {"L", "R"} /\ Append(q, e[k + 1]) = c /\ k + 1 \in 0 .. Depth - 1
        /\ k \in Nat
    BY <1>1, <1>6, AboveFact, DepthAssumption
  <2>2. k + 1 \in 0 .. Depth - 2
    BY <2>1, DepthAssumption
  <2>3. c \in Inner /\ Len(c) = k + 1
    BY <1>1, <2>1, <2>2, AboveFact
  <2>4. WentUp(t, u, e, k)
    BY <1>3
  <2>5. CASE e[k + 1] = "L"
    <3>1. u[q].mid # None <=> t[q].mid # None \/ RightIdx(u, Append(c, "R")) # None
      BY <1>6, <2>4, <2>5 DEF WentUp
    <3> HIDE DEF c
    <3>2. PICK r \in Paths : r = Append(c, "R")
      BY <2>3, StepFact
    <3>3. LastOf(r) = LastOf(c)
      BY <2>3, <3>2, LastOfRight
    <3>4. RightIdx(u, r) # None <=> Full(DOMAIN u, r)
      <4>1. CASE r \in DOMAIN u
        BY <4>1, <1>3 DEF RightIdx, RightOK
      <4>2. CASE r \notin DOMAIN u
        <5>1. r \notin Inner
          BY <1>1, <4>2 DEF TreeOK
        <5>2. LastOf(r) = r
          BY <5>1, LastFact
        <5> QED
          BY <4>2, <5>2 DEF RightIdx, Full
      <4> QED
        BY <4>1, <4>2
    <3>5. t[q].mid # None <=> Full(DOMAIN t, c)
      BY <1>4, <2>1, <2>5 DEF MidOK
    <3>6. Full(DOMAIN t, c) => Full(DOMAIN u, c)
      BY <1>1 DEF Full
    <3>7. Full(DOMAIN u, r) <=> Full(DOMAIN u, c)
      BY <3>3 DEF Full
    <3>8. c = Append(q, "L")
      BY <2>1, <2>5
    <3> QED
      BY <3>1, <3>2, <3>4, <3>5, <3>6, <3>7, <3>8 DEF MidOK
  <2>6. CASE e[k + 1] = "R"
    <3>1. u[q].mid # None
      BY <1>3, <1>6, <2>1, <2>4, <2>6 DEF WentUp
    <3>2. Full(DOMAIN u, Append(q, "L"))
      BY <1>1, <1>2, <1>6, <2>6 DEF Full
    <3> QED
      BY <3>1, <3>2 DEF MidOK
  <2> QED
    BY <2>1, <2>5, <2>6
<1> QED
  BY <1>1, <1>4, <1>5, <1>6

\* A new leaf keeps the shape.
LEMMA AppendShape ==
  ASSUME NEW t, NEW u, NEW e, NEW idx, NEW aggs, Grew(t, u, e, idx, aggs)
  PROVE  ShapeOK(u)
<1>1. /\ TreeOK(t) /\ TreeOK(u) /\ DOMAIN u = DOMAIN t \cup {e}
      /\ e \in Paths /\ Len(e) = Depth - 1 /\ e \notin DOMAIN t /\ u[e].left # None
      /\ \A q \in DOMAIN t : OffPath(e, q, 0) => u[q] = t[q]
      /\ \A q \in DOMAIN u : q = e \/ OffPath(e, q, 0) \/ \E k \in 0 .. Depth - 2 : q = Top(e, k)
  BY GrewFact, ZenonT(60)
<1>2. /\ \A k \in 0 .. Depth - 2 : e[k + 1] = "R" => Full(DOMAIN t, Append(Top(e, k), "L"))
      /\ \A z \in DOMAIN t \ Inner : LeafOK(t, z)
  BY DEF Grew, Ready
<1>3. \A q \in DOMAIN u : RightOK(u, q)
  BY AppendedRight
<1>4. \A q \in Inner : Len(q) < Depth - 2 => MidOK(u, q)
  BY AppendedMid
<1>5. \A k \in 0 .. Depth - 1 : u[Top(e, k)].left # None
  BY ClimbedLeft
<1>6. \A p : Full(DOMAIN t, p) => Full(DOMAIN u, p)
  BY <1>1 DEF Full
<1>7. LeafOK(u, e)
  <2>1. \A k \in 0 .. Depth - 2 : k \in 0 .. Depth - 1
    BY DepthAssumption
  <2> QED
    BY <1>1, <1>2, <1>5, <1>6, <2>1 DEF LeafOK
<1>8. ASSUME NEW z \in DOMAIN t \ Inner
      PROVE  LeafOK(u, z)
  <2>1. LeafOK(t, z) /\ z \in Paths /\ Len(z) = Depth - 1
    BY <1>1, <1>2, PathFact DEF TreeOK
  <2>2. OffPath(e, z, 0)
    BY <1>1, AboveFact DEF OffPath
  <2>3. ASSUME NEW k \in 0 .. Depth - 2
        PROVE  u[Top(z, k)].left # None
    <3>1. Top(z, k) \in Inner
      BY <2>1, AboveFact
    <3>2. Top(z, k) \in DOMAIN t /\ Top(z, k) \in DOMAIN u
      BY <1>1, <3>1 DEF TreeOK
    <3>3. t[Top(z, k)].left # None
      BY <2>1 DEF LeafOK
    <3>4. CASE OffPath(e, Top(z, k), 0)
      BY <1>1, <3>2, <3>3, <3>4
    <3>5. CASE ~ OffPath(e, Top(z, k), 0)
      <4>1. PICK i \in 0 .. Depth - 2 : Top(z, k) = Top(e, i)
        BY <3>5 DEF OffPath
      <4>2. i \in 0 .. Depth - 1
        BY DepthAssumption
      <4> QED
        BY <1>5, <4>1, <4>2
    <3> QED
      BY <3>4, <3>5
  <2>4. u[z] = t[z]
    BY <1>1, <2>2
  <2> QED
    BY <1>6, <2>1, <2>3, <2>4 DEF LeafOK
<1> QED
  BY <1>1, <1>3, <1>4, <1>7, <1>8 DEF ShapeOK

-----------------------------------------------------------------------------
(* A tree that is full, and its roll-up.                                   *)

\* The path e to a leaf that is below the free place p.
LEMMA ShapeReady ==
  ASSUME NEW t, ShapeOK(t), NEW p \in Inner, Len(p) = Depth - 2,
         ~ Full(DOMAIN t, p), LeftTaken(DOMAIN t, p)
  PROVE  Ready(t, Place(t, p))
<1>1. TreeOK(t) /\ \A q \in DOMAIN t : RightOK(t, q)
  BY DEF ShapeOK
<1>2. PICK e : e = Place(t, p)
  OBVIOUS
<1>3. /\ e \in Paths /\ Len(e) = Depth - 1 /\ e \notin DOMAIN t /\ Top(e, Depth - 2) = p
      /\ e[Depth - 1] = "R" => Append(p, "L") \in DOMAIN t
  BY <1>1, <1>2, PlaceFact
<1>4. ASSUME NEW k \in 0 .. Depth - 2, e[k + 1] = "R"
      PROVE  Full(DOMAIN t, Append(Top(e, k), "L"))
  <2>1. CASE k = Depth - 2
    <3>1. Append(p, "L") \in DOMAIN t
      BY <1>3, <1>4, <2>1, DepthAssumption
    <3>2. Append(p, "L") \in Paths /\ Len(Append(p, "L")) = Depth - 1
      BY StepFact, DepthAssumption
    <3>3. LastOf(Append(p, "L")) = Append(p, "L")
      BY <3>2, PathFact, LastFact
    <3> QED
      BY <1>3, <2>1, <3>1, <3>3 DEF Full
  <2>2. CASE k < Depth - 2
    <3>1. k \in 0 .. Len(p) - 1 /\ k \in 0 .. Len(p) /\ k + 1 \in 1 .. Depth - 2 /\ p \in Paths /\ Depth - 2 \in 0 .. Len(e)
          /\ k \in 0 .. Len(e)
      BY <1>3, <2>2, DepthAssumption, InnerPaths
    <3>2. \A i \in 1 .. Depth - 2 : p[i] = e[i]
      BY <1>3, <3>1, TopFact
    <3>3. /\ Top(p, k) \in Paths /\ Len(Top(p, k)) = k /\ \A i \in 1 .. k : Top(p, k)[i] = p[i]
          /\ Top(e, k) \in Paths /\ Len(Top(e, k)) = k /\ \A i \in 1 .. k : Top(e, k)[i] = e[i]
      BY <1>3, <3>1, TopFact
    <3>4. \A i \in 1 .. k : i \in 1 .. Depth - 2
      BY <2>2, DepthAssumption
    <3>5. Top(p, k) = Top(e, k)
      BY <3>2, <3>3, <3>4, PathEqual
    <3>6. p[k + 1] = "R"
      BY <1>4, <3>1, <3>2
    <3> QED
      BY <3>1, <3>5, <3>6 DEF LeftTaken
  <2> QED
    BY <2>1, <2>2, DepthAssumption
<1> QED
  BY <1>1, <1>2, <1>3, <1>4 DEF Ready, ShapeOK

\* A full tree has all nodes, and they have all indices.
LEMMA FullTree ==
  ASSUME NEW t, ShapeOK(t), Full(DOMAIN t, <<>>)
  PROVE  /\ DOMAIN t = Paths /\ t \in [Paths -> Node]
         /\ \A q \in Paths : t[q].left # None /\ t[q].right # None
         /\ \A q \in Inner : Len(q) < Depth - 2 => t[q].mid # None
<1>1. /\ TreeOK(t) /\ \A q \in DOMAIN t : RightOK(t, q)
      /\ \A q \in Inner : Len(q) < Depth - 2 => MidOK(t, q)
      /\ \A z \in DOMAIN t \ Inner : LeafOK(t, z)
  BY DEF ShapeOK
<1>2. ASSUME NEW q \in Paths
      PROVE  Full(DOMAIN t, q)
  <2> DEFINE N == Len(q)
             S == {k \in 0 .. N : Full(DOMAIN t, Top(q, k))}
  <2>1. N \in Nat /\ N <= Depth - 1
    BY PathFact
  <2>2. 0 \in S
    <3>1. 0 \in 0 .. Len(q)
      BY <2>1
    <3>2. Top(q, 0) = <<>>
      BY <3>1, TopFact
    <3> QED
      BY <2>1, <3>2
  <2>3. ASSUME NEW k \in 0 .. N - 1, k \in S
        PROVE  k + 1 \in S
    <3>1. /\ Append(Top(q, k), q[k + 1]) = Top(q, k + 1) /\ Top(q, k) \in Inner
          /\ Top(q, k + 1) \in Paths /\ q[k + 1] \in {"L", "R"}
      BY TopNext
    <3>2. k + 1 \in 0 .. N /\ k \in 0 .. Depth - 2 /\ k + 1 \in 1 .. Depth - 1 /\ k \in 0 .. Len(q)
      BY <2>1, DepthAssumption
    <3>3. Full(DOMAIN t, Top(q, k))
      BY <2>3
    <3>4. CASE q[k + 1] = "R"
      <4>1. LastOf(Top(q, k + 1)) = LastOf(Top(q, k))
        BY <3>1, <3>4, LastOfRight
      <4> QED
        BY <3>2, <3>3, <4>1 DEF Full
    <3>5. CASE q[k + 1] = "L"
      <4>1. PICK a \in Inner : a = Top(q, k)
        BY <3>1
      <4>2. Len(a) = k /\ a \in Paths
        BY <3>2, <4>1, TopFact
      <4>3. PICK z \in Paths : z = LastOf(a)
        BY <4>2, LastFact
      <4>4. /\ Len(z) = Depth - 1 /\ z \notin Inner
            /\ \A i \in 1 .. Depth - 1 : z[i] = IF i <= Len(a) THEN a[i] ELSE "R"
        BY <4>2, <4>3, LastFact
      <4>5. z \in DOMAIN t
        BY <3>3, <4>1, <4>3 DEF Full
      <4>6. LeafOK(t, z) /\ z[k + 1] = "R"
        BY <1>1, <3>2, <4>2, <4>4, <4>5
      <4>7. Top(z, k) = a
        <5>1. k \in 0 .. Len(z)
          BY <3>2, <4>4
        <5>2. Top(z, k) \in Paths /\ Len(Top(z, k)) = k /\ \A i \in 1 .. k : Top(z, k)[i] = z[i]
          BY <5>1, TopFact
        <5>3. \A i \in 1 .. k : i \in 1 .. Depth - 1 /\ i <= Len(a)
          BY <3>2, <4>2, DepthAssumption
        <5>4. \A i \in 1 .. k : Top(z, k)[i] = a[i]
          BY <4>4, <5>2, <5>3
        <5> QED
          BY <4>2, <5>2, <5>4, PathEqual
      <4>8. Full(DOMAIN t, Append(a, "L"))
        BY <3>2, <4>6, <4>7 DEF LeafOK
      <4> QED
        BY <3>1, <3>2, <3>5, <4>1, <4>8
    <3> QED
      BY <3>1, <3>4, <3>5
  <2>4. 0 .. N \subseteq S
    <3> HIDE DEF N, S
    <3>1. \A k \in 0 .. N - 1 : k \in S => k + 1 \in S
      BY <2>3
    <3> QED
      BY <2>1, <2>2, <3>1, BoundedInduction
  <2>5. N \in 0 .. N /\ Top(q, N) = q
    <3>1. N \in 0 .. N
      BY <2>1
    <3> QED
      BY <3>1, TopFact
  <2> QED
    BY <2>4, <2>5
<1>3. ASSUME NEW q \in Paths
      PROVE  q \in DOMAIN t
  <2>1. CASE q \in Inner
    BY <1>1, <2>1 DEF TreeOK
  <2>2. CASE q \notin Inner
    BY <1>2, <2>2, LastFact DEF Full
  <2> QED
    BY <2>1, <2>2
<1>4. DOMAIN t = Paths /\ t \in [Paths -> Node]
  BY <1>1, <1>3 DEF TreeOK
<1>5. \A q \in Paths : t[q].right # None
  BY <1>1, <1>2, <1>4 DEF RightOK
<1>6. ASSUME NEW q \in Paths
      PROVE  t[q].left # None
  <2>1. LastOf(q) \in DOMAIN t \ Inner
    BY <1>4, LastFact
  <2>2. LeafOK(t, LastOf(q))
    BY <1>1, <2>1
  <2>3. CASE q \notin Inner
    BY <2>2, <2>3, LastFact DEF LeafOK
  <2>4. CASE q \in Inner
    <3>1. Len(q) \in 0 .. Depth - 2 /\ Len(q) \in 0 .. Depth - 1
      BY <2>4, PathFact, DepthAssumption
    <3>2. PICK z \in Paths : z = LastOf(q)
      BY LastFact
    <3>3. Len(z) = Depth - 1 /\ \A i \in 1 .. Depth - 1 : z[i] = IF i <= Len(q) THEN q[i] ELSE "R"
      BY <3>2, LastFact
    <3>4. /\ Top(z, Len(q)) \in Paths /\ Len(Top(z, Len(q))) = Len(q)
          /\ \A i \in 1 .. Len(q) : Top(z, Len(q))[i] = z[i]
      BY <3>1, <3>3, TopFact
    <3>5. \A i \in 1 .. Len(q) : i \in 1 .. Depth - 1 /\ i <= Len(q)
      BY <3>1, DepthAssumption
    <3>6. Top(z, Len(q)) = q
      BY <3>3, <3>4, <3>5, PathEqual
    <3> QED
      BY <2>2, <3>1, <3>2, <3>6 DEF LeafOK
  <2> QED
    BY <2>3, <2>4
<1>7. ASSUME NEW q \in Inner, Len(q) < Depth - 2
      PROVE  t[q].mid # None
  <2>1. Append(q, "L") \in Paths
    BY StepFact
  <2> QED
    BY <1>1, <1>2, <1>7, <2>1 DEF MidOK
<1> QED
  BY <1>4, <1>5, <1>6, <1>7

\* The corner that a roll-up makes empty.
Corner(q) == Len(q) >= 2 /\ q[1] = "R" /\ q[2] = "R"

\* Where the other nodes come from.
OriginIs(q, o) ==
  /\ o \in Paths
  /\ q[1] = "L" /\ q[2] = "L" =>
       Len(o) = Len(q) - 1 /\ \A i \in 1 .. Len(q) - 1 : o[i] = q[i + 1]
  /\ q[1] = "L" /\ q[2] = "R" =>
       /\ Len(o) = Len(q) /\ o[1] = "R" /\ o[2] = "L"
       /\ \A i \in 3 .. Len(q) : o[i] = q[i]
  /\ q[1] = "R" /\ q[2] = "L" =>
       /\ Len(o) = Len(q) /\ o[1] = "R" /\ o[2] = "R"
       /\ \A i \in 3 .. Len(q) : o[i] = q[i]

LEMMA OriginFact ==
  ASSUME NEW q \in Paths, Len(q) >= 2, ~ Corner(q)
  PROVE  /\ OriginIs(q, Origin(q))
         /\ q[1] \in {"L", "R"} /\ q[2] \in {"L", "R"}
         /\ q \in Inner => Origin(q) \in Inner
<1> DEFINE rest == SubSeq(q, 3, Len(q))
<1>1. /\ q \in Seq(Dir) /\ Len(q) \in Nat /\ Len(q) <= Depth - 1
      /\ \A i \in 1 .. Len(q) : q[i] \in {"L", "R"}
  BY PathFact
<1>2. q[1] \in {"L", "R"} /\ q[2] \in {"L", "R"}
  BY <1>1
<1>3. rest \in Seq(Dir) /\ Len(rest) = Len(q) - 2 /\ \A i \in 1 .. Len(q) - 2 : rest[i] = q[i + 2]
  <2>1. \A i \in 3 .. Len(q) : q[i] \in Dir
    BY <1>1 DEF Dir
  <2>2. PICK m \in Int : m = 3
    OBVIOUS
  <2>3. PICK n \in Int : n = Len(q)
    BY <1>1
  <2>4. PICK r : r = SubSeq(q, m, n)
    OBVIOUS
  <2>5. \A i \in m .. n : q[i] \in Dir
    BY <2>1, <2>2, <2>3
  <2>6. /\ r \in Seq(Dir) /\ Len(r) = (IF m <= n THEN n - m + 1 ELSE 0)
        /\ \A i \in 1 .. n - m + 1 : r[i] = q[m + i - 1]
    BY <2>4, <2>5, SubSeqProperties
  <2>7. r = rest
    BY <2>2, <2>3, <2>4
  <2> HIDE DEF rest
  <2>8. Len(r) = Len(q) - 2
    BY <1>1, <2>2, <2>3, <2>6
  <2>9. ASSUME NEW i \in 1 .. Len(q) - 2
        PROVE  r[i] = q[i + 2]
    <3>1. i \in 1 .. n - m + 1 /\ m + i - 1 = i + 2
      BY <1>1, <2>2, <2>3
    <3> QED
      BY <2>6, <3>1
  <2> QED
    BY <2>6, <2>7, <2>8, <2>9
<1> HIDE DEF rest
<1>4. ASSUME NEW n \in {1, 2}, NEW s \in Seq(Dir), Len(s) = n
      PROVE  /\ s \o rest \in Paths /\ Len(s \o rest) = n + Len(q) - 2
             /\ \A i \in 1 .. n : (s \o rest)[i] = s[i]
             /\ \A i \in n + 1 .. n + Len(q) - 2 : (s \o rest)[i] = q[i - n + 2]
  <2> DEFINE o == s \o rest
  <2>1. /\ o \in Seq(Dir) /\ Len(o) = Len(s) + Len(rest)
        /\ \A i \in 1 .. Len(s) + Len(rest) : o[i] = IF i <= Len(s) THEN s[i] ELSE rest[i - Len(s)]
    BY <1>3, ConcatProperties
  <2> HIDE DEF o
  <2>2. Len(o) = n + Len(q) - 2 /\ Len(o) <= Depth - 1
    BY <1>1, <1>3, <1>4, <2>1, DepthAssumption
  <2>3. o \in Paths
    BY <2>1, <2>2, PathIs
  <2>4. \A i \in 1 .. n : o[i] = s[i]
    BY <1>1, <1>3, <1>4, <2>1
  <2>5. ASSUME NEW i \in n + 1 .. n + Len(q) - 2
        PROVE  o[i] = q[i - n + 2]
    <3>1. i \in 1 .. Len(s) + Len(rest) /\ ~ (i <= Len(s)) /\ i - n \in 1 .. Len(q) - 2
      BY <1>1, <1>3, <1>4
    <3> QED
      BY <1>3, <1>4, <2>1, <3>1
  <2> QED
    BY <2>2, <2>3, <2>4, <2>5 DEF o
<1>5. /\ <<"L">> \in Seq(Dir) /\ Len(<<"L">>) = 1
      /\ <<"R", "L">> \in Seq(Dir) /\ Len(<<"R", "L">>) = 2
      /\ <<"R", "R">> \in Seq(Dir) /\ Len(<<"R", "R">>) = 2
  BY DEF Dir
<1>6. CASE q[1] = "L" /\ q[2] = "L"
  <2>1. PICK o : o = <<"L">> \o rest
    OBVIOUS
  <2>2. Origin(q) = o
    BY <1>6, <2>1 DEF Origin, rest
  <2>3. /\ o \in Paths /\ Len(o) = 1 + Len(q) - 2
        /\ \A i \in 1 .. 1 : o[i] = <<"L">>[i]
        /\ \A i \in 1 + 1 .. 1 + Len(q) - 2 : o[i] = q[i - 1 + 2]
    <3>1. 1 \in {1, 2}
      OBVIOUS
    <3> QED
      BY <1>4, <1>5, <2>1, <3>1, Zenon
  <2>4. ASSUME NEW i \in 1 .. Len(q) - 1
        PROVE  o[i] = q[i + 1]
    <3>1. CASE i = 1
      <4>1. o[1] = "L"
        BY <2>3
      <4> QED
        BY <1>6, <3>1, <4>1
    <3>2. CASE i # 1
      <4>1. i \in 2 .. 1 + Len(q) - 2 /\ i - 1 + 2 = i + 1
        BY <1>1, <3>2
      <4> QED
        BY <2>3, <4>1
    <3> QED
      BY <3>1, <3>2
  <2>5. Len(o) = Len(q) - 1
    BY <1>1, <2>3
  <2>6. q \in Inner => o \in Inner
    BY <1>1, <2>3, <2>5, PathFact, DepthAssumption
  <2> QED
    BY <1>2, <1>6, <2>2, <2>3, <2>4, <2>5, <2>6 DEF OriginIs
<1>7. ASSUME NEW b \in {"L", "R"}, q[2] = IF b = "L" THEN "R" ELSE "L", q[1] = IF b = "L" THEN "L" ELSE "R"
      PROVE  /\ OriginIs(q, Origin(q))
             /\ q \in Inner => Origin(q) \in Inner
  <2>1. PICK o : o = <<"R", b>> \o rest
    OBVIOUS
  <2>2. Origin(q) = o
    BY <1>7, <2>1 DEF Origin, rest
  <2>3. /\ o \in Paths /\ Len(o) = 2 + Len(q) - 2
        /\ \A i \in 1 .. 2 : o[i] = <<"R", b>>[i]
        /\ \A i \in 3 .. 2 + Len(q) - 2 : o[i] = q[i - 2 + 2]
    <3>1. 2 \in {1, 2} /\ <<"R", b>> \in Seq(Dir) /\ Len(<<"R", b>>) = 2
      BY DEF Dir
    <3>2. 2 + 1 = 3
      OBVIOUS
    <3>3. /\ o \in Paths /\ Len(o) = 2 + Len(q) - 2
          /\ \A i \in 1 .. 2 : o[i] = <<"R", b>>[i]
          /\ \A i \in 2 + 1 .. 2 + Len(q) - 2 : o[i] = q[i - 2 + 2]
      BY <1>4, <2>1, <3>1, Zenon
    <3> QED
      BY <3>2, <3>3, Zenon
  <2>4. o[1] = "R" /\ o[2] = b
    BY <2>3
  <2>5. Len(o) = Len(q) /\ \A i \in 3 .. Len(q) : o[i] = q[i]
    BY <1>1, <2>3
  <2>6. q \in Inner => o \in Inner
    BY <2>3, <2>5, PathFact
  <2> QED
    BY <1>7, <2>2, <2>3, <2>4, <2>5, <2>6 DEF OriginIs
<1> QED
  BY <1>2, <1>6, <1>7 DEF Corner

\* The children of a node come from the children of its origin.
LEMMA OriginChild ==
  ASSUME NEW q \in Inner, Len(q) >= 2, ~ Corner(q), NEW d \in {"L", "R"}
  PROVE  /\ Append(q, d) \in Paths /\ Len(Append(q, d)) >= 2 /\ ~ Corner(Append(q, d))
         /\ Origin(Append(q, d)) = Append(Origin(q), d)
<1>1. q \in Paths /\ Len(q) \in Nat
  BY InnerPaths, PathFact
<1>2. PICK a \in Paths : a = Append(q, d)
  BY StepFact
<1>3. Len(a) = Len(q) + 1 /\ a[Len(q) + 1] = d /\ \A i \in 1 .. Len(q) : a[i] = q[i]
  BY <1>2, StepFact
<1>4. Len(a) >= 2 /\ a[1] = q[1] /\ a[2] = q[2] /\ ~ Corner(a)
  BY <1>1, <1>3 DEF Corner
<1>5. PICK o \in Inner : o = Origin(q)
  BY <1>1, OriginFact
<1>6. OriginIs(q, o) /\ q[1] \in {"L", "R"} /\ q[2] \in {"L", "R"} /\ ~ (q[1] = "R" /\ q[2] = "R")
  BY <1>1, <1>5, OriginFact DEF Corner
<1>7. PICK oa : oa = Origin(a)
  OBVIOUS
<1>8. OriginIs(a, oa)
  BY <1>4, <1>7, OriginFact
<1>9. PICK ao \in Paths : ao = Append(o, d)
  BY StepFact
<1>10. Len(ao) = Len(o) + 1 /\ ao[Len(o) + 1] = d /\ \A i \in 1 .. Len(o) : ao[i] = o[i]
  BY <1>9, StepFact
<1>11. oa \in Paths
  BY <1>8 DEF OriginIs
<1>12. CASE q[1] = "L" /\ q[2] = "L"
  <2>1. /\ Len(o) = Len(q) - 1 /\ \A i \in 1 .. Len(q) - 1 : o[i] = q[i + 1]
        /\ Len(oa) = Len(a) - 1 /\ \A i \in 1 .. Len(a) - 1 : oa[i] = a[i + 1]
    BY <1>4, <1>6, <1>8, <1>12 DEF OriginIs
  <2>2. Len(oa) = Len(ao)
    BY <1>1, <1>3, <1>10, <2>1
  <2>3. ASSUME NEW i \in 1 .. Len(oa)
        PROVE  oa[i] = ao[i]
    <3>1. CASE i = Len(q)
      <4>1. i + 1 = Len(q) + 1 /\ i \in 1 .. Len(a) - 1 /\ i = Len(o) + 1
        BY <1>1, <1>3, <2>1, <3>1
      <4> QED
        BY <1>3, <1>10, <2>1, <4>1
    <3>2. CASE i # Len(q)
      <4>1. i \in 1 .. Len(q) - 1 /\ i \in 1 .. Len(a) - 1 /\ i \in 1 .. Len(o) /\ i + 1 \in 1 .. Len(q)
        BY <1>1, <1>3, <2>1, <3>2
      <4> QED
        BY <1>3, <1>10, <2>1, <4>1
    <3> QED
      BY <3>1, <3>2
  <2>4. oa = ao
    BY <1>11, <2>2, <2>3, PathEqual
  <2> QED
    BY <1>2, <1>4, <1>5, <1>7, <1>9, <2>4
<1>13. CASE ~ (q[1] = "L" /\ q[2] = "L")
  <2>1. /\ Len(o) = Len(q) /\ \A i \in 3 .. Len(q) : o[i] = q[i]
        /\ Len(oa) = Len(a) /\ \A i \in 3 .. Len(a) : oa[i] = a[i]
        /\ o[1] = oa[1] /\ o[2] = oa[2]
    BY <1>4, <1>6, <1>8, <1>13 DEF OriginIs
  <2>2. Len(oa) = Len(ao)
    BY <1>1, <1>3, <1>10, <2>1
  <2>3. ASSUME NEW i \in 1 .. Len(oa)
        PROVE  oa[i] = ao[i]
    <3>1. CASE i = Len(q) + 1
      <4>1. i \in 3 .. Len(a)
        BY <1>1, <1>3, <2>1, <3>1
      <4> QED
        BY <1>3, <1>10, <2>1, <3>1, <4>1
    <3>2. CASE i # Len(q) + 1 /\ i >= 3
      <4>1. i \in 3 .. Len(q) /\ i \in 3 .. Len(a) /\ i \in 1 .. Len(o) /\ i \in 1 .. Len(q)
        BY <1>1, <1>3, <2>1, <3>2
      <4> QED
        BY <1>3, <1>10, <2>1, <4>1
    <3>3. CASE i \in {1, 2}
      <4>1. i \in 1 .. Len(o)
        BY <1>1, <2>1, <3>3
      <4> QED
        BY <1>10, <2>1, <3>3, <4>1
    <3> QED
      BY <1>1, <1>3, <2>1, <3>1, <3>2, <3>3
  <2>4. oa = ao
    BY <1>11, <2>2, <2>3, PathEqual
  <2> QED
    BY <1>2, <1>4, <1>5, <1>7, <1>9, <2>4
<1> QED
  BY <1>12, <1>13

\* The first levels.
LEMMA FirstLevels ==
  /\ <<"L">> \in Inner /\ Len(<<"L">>) = 1 /\ <<"R">> \in Inner /\ Len(<<"R">>) = 1
  /\ <<"L">> = Append(<<>>, "L") /\ <<"R">> = Append(<<>>, "R")
  /\ \A q \in Paths : Len(q) < 2 => q \in {<<>>, <<"L">>, <<"R">>}
<1>1. <<"L">> \in Seq(Dir) /\ Len(<<"L">>) = 1 /\ <<"R">> \in Seq(Dir) /\ Len(<<"R">>) = 1
  BY DEF Dir
<1>2. 1 <= Depth - 2
  BY DepthAssumption
<1>3. <<"L">> \in Inner /\ <<"R">> \in Inner
  BY <1>1, <1>2, PathIs
<1>4. ASSUME NEW q \in Paths, Len(q) < 2
      PROVE  q \in {<<>>, <<"L">>, <<"R">>}
  <2>1. Len(q) \in Nat /\ \A i \in 1 .. Len(q) : q[i] \in {"L", "R"}
    BY PathFact
  <2>2. CASE Len(q) = 0
    BY <2>2, PathEqual, InnerPaths
  <2>3. CASE Len(q) = 1
    <3>1. q[1] \in {"L", "R"}
      BY <2>1, <2>3
    <3>2. CASE q[1] = "L"
      <4>1. PICK a \in Paths : a = <<"L">>
        BY <1>3, InnerPaths
      <4>2. Len(a) = 1 /\ a[1] = "L"
        BY <4>1
      <4>3. q = a
        BY <2>3, <3>2, <4>2, PathEqual
      <4> QED
        BY <4>1, <4>3
    <3>3. CASE q[1] = "R"
      <4>1. PICK a \in Paths : a = <<"R">>
        BY <1>3, InnerPaths
      <4>2. Len(a) = 1 /\ a[1] = "R"
        BY <4>1
      <4>3. q = a
        BY <2>3, <3>3, <4>2, PathEqual
      <4> QED
        BY <4>1, <4>3
    <3> QED
      BY <3>1, <3>2, <3>3
  <2>4. Len(q) = 0 \/ Len(q) = 1
    BY <1>4, <2>1
  <2> QED
    BY <2>2, <2>3, <2>4, Zenon
<1>5. <<"L">> = Append(<<>>, "L") /\ <<"R">> = Append(<<>>, "R")
  OBVIOUS
<1> QED
  BY <1>1, <1>3, <1>4, <1>5, Zenon

\* What a roll-up makes of a full tree.
Rolled(t, u) ==
  /\ u = [q \in DOMAIN u |-> u[q]]
  /\ DOMAIN u = {q \in Paths : q \in Inner \/ ~ Corner(q)}
  /\ u[<<>>] = NewRoot(t) /\ u[<<"L">>] = OldRoot(t) /\ u[<<"R">>] = NewRight(t)
  /\ \A q \in Inner : Corner(q) => u[q] = EmptyNode
  /\ \A q \in Paths : Len(q) >= 2 /\ ~ Corner(q) => u[q] = t[Origin(q)]

LEMMA RollUpFact ==
  ASSUME NEW t, DOMAIN t = Paths
  PROVE  Rolled(t, RollUp(t))
<1> DEFINE below == {p \in PathsTo(Depth) : Len(p) >= 2}
           fresh == {p \in below : p \in Inner /\ <<p[1], p[2]>> = <<"R", "R">>}
           moved == {p \in below : /\ <<p[1], p[2]>> # <<"R", "R">>
                                   /\ Origin(p) \in DOMAIN t /\ ~TooDeep(p)}
           dom == {<<>>, <<"L">>, <<"R">>} \cup moved \cup fresh
           u == RollUp(t)
<1>1. ASSUME NEW p
      PROVE  p \in PathsTo(Depth) /\ ~ TooDeep(p) <=> p \in Paths
  <2>1. ASSUME p \in PathsTo(Depth), ~ TooDeep(p)
        PROVE  p \in Paths
    <3>1. PICK n \in 0 .. Depth : p \in [1 .. n -> {"L", "R"}]
      BY <2>1 DEF PathsTo
    <3>2. p \in Seq(Dir) /\ Len(p) = n
      BY <3>1, DepthAssumption DEF Dir
    <3>3. Len(p) <= Depth - 1
      BY <2>1, <3>2, DepthAssumption DEF TooDeep
    <3> QED
      BY <3>2, <3>3, PathIs, Zenon
  <2>2. ASSUME p \in Paths
        PROVE  p \in PathsTo(Depth) /\ ~ TooDeep(p)
    <3>1. PICK n \in 0 .. Depth - 1 : p \in [1 .. n -> {"L", "R"}]
      BY <2>2 DEF Paths, PathsTo
    <3>2. n \in 0 .. Depth
      BY DepthAssumption
    <3>3. Len(p) \in 0 .. Depth - 1
      BY <2>2, PathFact
    <3>4. ~ TooDeep(p)
      BY <3>3, DepthAssumption DEF TooDeep
    <3> QED
      BY <3>1, <3>2, <3>4 DEF PathsTo
  <2> QED
    BY <2>1, <2>2
<1>2. ASSUME NEW p
      PROVE  /\ p \in moved <=> p \in Paths /\ Len(p) >= 2 /\ ~ Corner(p)
             /\ p \in fresh <=> p \in Inner /\ Corner(p)
  <2>1. p \in Paths /\ Len(p) >= 2 /\ ~ Corner(p) => Origin(p) \in DOMAIN t
    BY OriginFact DEF OriginIs
  <2>2. p \in Inner => p \in Paths
    BY InnerPaths
  <2>3. Corner(p) <=> Len(p) >= 2 /\ <<p[1], p[2]>> = <<"R", "R">>
    BY DEF Corner
  <2> QED
    BY <1>1, <2>1, <2>2, <2>3
<1>3. dom = {q \in Paths : q \in Inner \/ ~ Corner(q)}
  <2> HIDE DEF moved, fresh
  <2>1. ASSUME NEW q \in dom
        PROVE  q \in Paths /\ (q \in Inner \/ ~ Corner(q))
    <3>1. CASE q \in {<<>>, <<"L">>, <<"R">>}
      BY <3>1, FirstLevels, InnerPaths
    <3>2. CASE q \in moved \cup fresh
      BY <3>2, <1>2, InnerPaths
    <3> QED
      BY <3>1, <3>2
  <2>2. ASSUME NEW q \in Paths, q \in Inner \/ ~ Corner(q)
        PROVE  q \in dom
    <3>1. Len(q) \in Nat
      BY PathFact
    <3>2. CASE Len(q) < 2
      BY <3>2, FirstLevels
    <3>3. CASE Len(q) >= 2
      BY <1>2, <2>2, <3>3
    <3> QED
      BY <3>1, <3>2, <3>3
  <2> HIDE DEF dom
  <2> QED
    BY <2>1, <2>2
<1>4. /\ DOMAIN u = dom /\ u = [q \in DOMAIN u |-> u[q]]
      /\ \A p \in dom : u[p] = CASE p = <<>>    -> NewRoot(t)
                                 [] p = <<"L">> -> OldRoot(t)
                                 [] p = <<"R">> -> NewRight(t)
                                 [] p \in fresh -> EmptyNode
                                 [] p \in moved -> t[Origin(p)]
  <2> DEFINE v(p) == CASE p = <<>>    -> NewRoot(t)
                       [] p = <<"L">> -> OldRoot(t)
                       [] p = <<"R">> -> NewRight(t)
                       [] p \in fresh -> EmptyNode
                       [] p \in moved -> t[Origin(p)]
  <2>1. u = [p \in dom |-> v(p)]
    BY DEF RollUp
  <2> HIDE DEF dom, fresh, moved, u, v
  <2>2. DOMAIN u = dom
    BY <2>1
  <2>3. \A p \in dom : u[p] = v(p)
    BY <2>1
  <2>4. u = [q \in DOMAIN u |-> u[q]]
    BY <2>1, <2>2
  <2> QED
    BY <2>2, <2>3, <2>4 DEF v
<1>5. /\ <<>> \in dom /\ <<"L">> \in dom /\ <<"R">> \in dom
      /\ <<>> # <<"L">> /\ <<>> # <<"R">> /\ <<"L">> # <<"R">>
  <2>1. <<"L">>[1] = "L" /\ <<"R">>[1] = "R"
    OBVIOUS
  <2> QED
    BY <2>1, FirstLevels, InnerPaths
<1>6. \A q : Len(q) >= 2 => q \notin {<<>>, <<"L">>, <<"R">>}
  <2> TAKE q
  <2>1. ASSUME q \in {<<>>, <<"L">>, <<"R">>}
        PROVE  ~ (Len(q) >= 2)
    <3>1. q = <<>> \/ q = <<"L">> \/ q = <<"R">>
      BY <2>1
    <3>2. Len(q) = 0 \/ Len(q) = 1
      <4>1. CASE q = <<>>
        BY <4>1, InnerPaths
      <4>2. CASE q = <<"L">>
        BY <4>2, FirstLevels
      <4>3. CASE q = <<"R">>
        BY <4>3, FirstLevels
      <4> QED
        BY <3>1, <4>1, <4>2, <4>3
    <3>3. PICK n \in Nat : n = Len(q) /\ (n = 0 \/ n = 1)
      BY <3>2
    <3>4. ~ (n >= 2)
      BY <3>3
    <3> QED
      BY <3>3, <3>4
  <2> QED
    BY <2>1
<1>11. {<<>>, <<"L">>, <<"R">>} \cap (fresh \cup moved) = {} /\ fresh \cap moved = {}
  <2>1. \A p \in fresh \cup moved : Len(p) >= 2
    OBVIOUS
  <2>2. fresh \cap moved = {}
    OBVIOUS
  <2> HIDE DEF fresh, moved
  <2> QED
    BY <1>6, <2>1, <2>2
<1>10. ASSUME NEW p \in dom
       PROVE  /\ p = <<>> => u[p] = NewRoot(t)
              /\ p # <<>> /\ p = <<"L">> => u[p] = OldRoot(t)
              /\ p # <<>> /\ p # <<"L">> /\ p = <<"R">> => u[p] = NewRight(t)
              /\ p \notin {<<>>, <<"L">>, <<"R">>} =>
                   /\ p \in fresh => u[p] = EmptyNode
                   /\ p \in moved /\ p \notin fresh => u[p] = t[Origin(p)]
  <2> HIDE DEF dom, fresh, moved, u
  <2>1. u[p] = CASE p = <<>>    -> NewRoot(t)
                 [] p = <<"L">> -> OldRoot(t)
                 [] p = <<"R">> -> NewRight(t)
                 [] p \in fresh -> EmptyNode
                 [] p \in moved -> t[Origin(p)]
    BY <1>4
  <2>2. PICK l : l = <<"L">>
    OBVIOUS
  <2>3. PICK r : r = <<"R">>
    OBVIOUS
  <2>4. PICK e : e = <<>>
    OBVIOUS
  <2>5. u[p] = CASE p = e -> NewRoot(t)
                 [] p = l -> OldRoot(t)
                 [] p = r -> NewRight(t)
                 [] p \in fresh -> EmptyNode
                 [] p \in moved -> t[Origin(p)]
    BY <2>1, <2>2, <2>3, <2>4
  <2>7. e # l /\ e # r /\ l # r /\ {e, l, r} \cap (fresh \cup moved) = {} /\ fresh \cap moved = {}
    BY <1>5, <1>11, <2>2, <2>3, <2>4
  <2>6. /\ p = e => u[p] = NewRoot(t)
        /\ p # e /\ p = l => u[p] = OldRoot(t)
        /\ p # e /\ p # l /\ p = r => u[p] = NewRight(t)
        /\ p \notin {e, l, r} =>
             /\ p \in fresh => u[p] = EmptyNode
             /\ p \in moved /\ p \notin fresh => u[p] = t[Origin(p)]
    BY <2>5, <2>7
  <2> QED
    BY <2>2, <2>3, <2>4, <2>6
<1> HIDE DEF dom, u, fresh, moved
<1>7. u[<<>>] = NewRoot(t) /\ u[<<"L">>] = OldRoot(t) /\ u[<<"R">>] = NewRight(t)
  <2>1. PICK l : l = <<"L">>
    OBVIOUS
  <2>2. PICK r : r = <<"R">>
    OBVIOUS
  <2>3. PICK e : e = <<>>
    OBVIOUS
  <2>4. /\ e \in dom /\ l \in dom /\ r \in dom /\ e # l /\ e # r /\ l # r
    BY <1>5, <2>1, <2>2, <2>3, Zenon
  <2>5. /\ u[e] = NewRoot(t)
        /\ u[l] = OldRoot(t)
        /\ u[r] = NewRight(t)
    BY <1>10, <2>1, <2>2, <2>3, <2>4, Zenon
  <2> QED
    BY <2>1, <2>2, <2>3, <2>5, Zenon
<1>8. ASSUME NEW q \in Inner, Corner(q)
      PROVE  u[q] = EmptyNode
  <2>1. q \in fresh /\ q \in dom /\ q \notin {<<>>, <<"L">>, <<"R">>}
    BY <1>2, <1>3, <1>6, <1>8, InnerPaths DEF Corner
  <2>2. q \notin moved
    BY <1>2, <1>8
  <2> QED
    BY <1>10, <2>1, <2>2
<1>9. ASSUME NEW q \in Paths, Len(q) >= 2, ~ Corner(q)
      PROVE  u[q] = t[Origin(q)]
  <2>1. q \in moved /\ q \in dom /\ q \notin {<<>>, <<"L">>, <<"R">>} /\ q \notin fresh
    BY <1>2, <1>3, <1>6, <1>9
  <2> QED
    BY <1>10, <2>1
<1> QED
  BY <1>3, <1>4, <1>7, <1>8, <1>9 DEF Rolled, u

LEMMA SecondLevel ==
  /\ <<"R", "L">> \in Inner /\ <<"R", "R">> \in Inner
  /\ <<"R", "L">> = Append(<<"R">>, "L") /\ <<"R", "R">> = Append(<<"R">>, "R")
<1>1. /\ <<"R", "L">> \in Seq(Dir) /\ Len(<<"R", "L">>) = 2
      /\ <<"R", "R">> \in Seq(Dir) /\ Len(<<"R", "R">>) = 2
  BY DEF Dir
<1>2. 2 <= Depth - 2
  BY DepthAssumption
<1>3. <<"R", "L">> \in Inner /\ <<"R", "R">> \in Inner
  BY <1>1, <1>2, PathIs
<1>4. <<"R", "L">> = Append(<<"R">>, "L") /\ <<"R", "R">> = Append(<<"R">>, "R")
  OBVIOUS
<1> QED
  BY <1>3, <1>4

LEMMA AggregateType ==
  ASSUME NEW a \in Index, NEW b \in Index
  PROVE  Aggregate(a, b) \in Index
<1>1. CASE a # None /\ b # None /\ AggFunc = "sum"
  <2>1. a + b \in Int
    BY DEF Index, None
  <2>2. PICK s \in Int : s = a + b
    BY <2>1
  <2>3. s % Word \in Nat
    BY WordAssumption
  <2> QED
    BY <1>1, <2>2, <2>3 DEF Aggregate, Index
<1>2. CASE ~ (a # None /\ b # None /\ AggFunc = "sum")
  BY <1>2, MinMaxFact DEF Aggregate
<1> QED
  BY <1>1, <1>2

\* The last leaf is missing below the nodes that are in the empty corner or
\* above it.
Broken(q) == (Len(q) >= 1 => q[1] = "R") /\ (Len(q) >= 2 => q[2] = "R")

LEMMA RolledFull ==
  ASSUME NEW t, NEW u, Rolled(t, u), NEW q \in Paths
  PROVE  Full(DOMAIN u, q) <=> ~ Broken(q)
<1>1. Len(q) \in Nat /\ Depth - 1 >= 2 /\ 1 \in 1 .. Depth - 1 /\ 2 \in 1 .. Depth - 1
  BY PathFact, DepthAssumption
<1>2. PICK z \in Paths : z = LastOf(q)
  BY LastFact
<1>3. /\ Len(z) = Depth - 1 /\ z \notin Inner
      /\ z[1] = (IF 1 <= Len(q) THEN q[1] ELSE "R") /\ z[2] = (IF 2 <= Len(q) THEN q[2] ELSE "R")
  BY <1>1, <1>2, LastFact
<1>4. Full(DOMAIN u, q) <=> ~ Corner(z)
  BY <1>2, <1>3 DEF Rolled, Full
<1>5. Len(z) >= 2 /\ (1 <= Len(q) <=> Len(q) >= 1) /\ (2 <= Len(q) <=> Len(q) >= 2)
  BY <1>1, <1>3
<1>6. Corner(z) <=> z[1] = "R" /\ z[2] = "R"
  BY <1>5 DEF Corner
<1> QED
  BY <1>3, <1>4, <1>5, <1>6 DEF Broken

\* A rolled-up tree has nodes, with these indices.
RolledIdx(t, u) ==
  /\ TreeOK(u)
  /\ u[<<>>].left # None /\ u[<<"L">>].left # None /\ u[<<"R">>].left # None
  /\ u[<<>>].mid # None /\ u[<<"L">>].mid # None /\ u[<<"R">>].mid # None
  /\ u[<<"L">>].right # None
  /\ \A q \in Inner : Corner(q) => u[q].mid = None /\ u[q].right = None
  /\ \A q \in Paths : Len(q) >= 2 /\ ~ Corner(q) =>
       /\ u[q].left # None /\ u[q].right # None
       /\ q \in Inner /\ Len(q) < Depth - 2 => u[q].mid # None

LEMMA RolledNodes ==
  ASSUME NEW t, ShapeOK(t), Full(DOMAIN t, <<>>), NEW u, Rolled(t, u)
  PROVE  RolledIdx(t, u)
<1>1. /\ DOMAIN t = Paths /\ \A q \in Paths : t[q] \in Node
      /\ \A q \in Paths : t[q].left # None /\ t[q].right # None
      /\ \A q \in Inner : Len(q) < Depth - 2 => t[q].mid # None
  BY FullTree
<1>2. /\ <<>> \in Paths /\ <<"L">> \in Paths /\ <<"R">> \in Paths
      /\ <<"R", "L">> \in Paths /\ <<"R", "R">> \in Paths
  BY FirstLevels, SecondLevel, InnerPaths, Zenon
<1>3. PICK root : root = t[<<>>]
  OBVIOUS
<1>4. PICK l : l = t[<<"L">>]
  OBVIOUS
<1>5. PICK r : r = t[<<"R">>]
  OBVIOUS
<1>6. PICK rl : rl = t[<<"R", "L">>]
  OBVIOUS
<1>7. PICK rr : rr = t[<<"R", "R">>]
  OBVIOUS
<1>8. /\ root \in Node /\ l \in Node /\ r \in Node /\ rl \in Node /\ rr \in Node
      /\ root.left # None /\ r.right # None /\ rl.left # None /\ rl.right # None
      /\ rr.left # None /\ rr.right # None
  BY <1>1, <1>2, <1>3, <1>4, <1>5, <1>6, <1>7, Zenon
<1>9. PICK old : old = OldRoot(t)
  OBVIOUS
<1>10. old = [left |-> root.left, mid |-> rl.left, right |-> rl.right, agg |-> Aggregate(l.agg, rl.agg)]
  BY <1>3, <1>4, <1>6, <1>9 DEF OldRoot
<1>11. Aggregate(l.agg, rl.agg) \in Index
  BY <1>8, AggregateType DEF Node
<1>12. old \in Node /\ old.left = root.left /\ old.mid = rl.left /\ old.right = rl.right
  BY <1>8, <1>10, <1>11 DEF Node
<1>13. PICK new : new = NewRoot(t)
  OBVIOUS
<1>14. new = [left |-> old.left, mid |-> UMin(old.right, rr.left), right |-> r.right,
              agg |-> Aggregate(old.agg, rr.agg)]
  BY <1>5, <1>7, <1>9, <1>13 DEF NewRoot
<1>15. old.right \in Index /\ rr.left \in Index /\ old.agg \in Index /\ rr.agg \in Index
  BY <1>8, <1>12 DEF Node
<1>16. /\ Aggregate(old.agg, rr.agg) \in Index
       /\ UMin(old.right, rr.left) \in Index /\ UMin(old.right, rr.left) # None
  BY <1>8, <1>12, <1>15, AggregateType, MinMaxFact
<1>17. new \in Node /\ new.left = root.left /\ new.mid # None
  BY <1>8, <1>12, <1>14, <1>16 DEF Node
<1>18. PICK right : right = NewRight(t)
  OBVIOUS
<1>19. right = [left |-> rr.left, mid |-> rr.right, right |-> rr.right, agg |-> rr.agg]
  BY <1>7, <1>18 DEF NewRight
<1>20. right \in Node /\ right.left = rr.left /\ right.mid = rr.right
  BY <1>8, <1>19 DEF Node
<1>21. u[<<>>] = new /\ u[<<"L">>] = old /\ u[<<"R">>] = right
  BY <1>9, <1>13, <1>18 DEF Rolled
<1>22. EmptyNode \in Node /\ EmptyNode.mid = None /\ EmptyNode.right = None
  BY DEF EmptyNode, Node, Index
<1>23. ASSUME NEW q \in Paths, Len(q) >= 2, ~ Corner(q)
       PROVE  /\ u[q] = t[Origin(q)] /\ Origin(q) \in Paths
              /\ q \in Inner /\ Len(q) < Depth - 2 => Origin(q) \in Inner /\ Len(Origin(q)) < Depth - 2
  <2>1. OriginIs(q, Origin(q)) /\ (q \in Inner => Origin(q) \in Inner) /\ Len(q) \in Nat
        /\ q[1] \in {"L", "R"} /\ q[2] \in {"L", "R"} /\ ~ (q[1] = "R" /\ q[2] = "R")
    BY <1>23, OriginFact, PathFact DEF Corner
  <2>2. PICK o : o = Origin(q)
    OBVIOUS
  <2>3. o \in Paths /\ (Len(o) = Len(q) \/ Len(o) = Len(q) - 1)
    BY <2>1, <2>2 DEF OriginIs
  <2>4. Len(q) < Depth - 2 => Len(o) < Depth - 2
    BY <2>1, <2>3, DepthAssumption
  <2> QED
    BY <1>23, <2>1, <2>2, <2>3, <2>4 DEF Rolled
<1>24. ASSUME NEW q \in DOMAIN u
       PROVE  u[q] \in Node
  <2>1. q \in Paths /\ (q \in Inner \/ ~ Corner(q)) /\ Len(q) \in Nat
    BY PathFact DEF Rolled
  <2>2. CASE Len(q) < 2
    <3>1. q \in {<<>>, <<"L">>, <<"R">>}
      BY <2>1, <2>2, FirstLevels
    <3> QED
      BY <1>12, <1>17, <1>20, <1>21, <3>1
  <2>3. CASE Len(q) >= 2 /\ ~ Corner(q)
    BY <1>1, <1>23, <2>1, <2>3
  <2>4. CASE q \in Inner /\ Corner(q)
    BY <1>22, <2>4 DEF Rolled
  <2> QED
    BY <2>1, <2>2, <2>3, <2>4
<1>25. TreeOK(u)
  <2>1. u = [q \in DOMAIN u |-> u[q]] /\ DOMAIN u = {q \in Paths : q \in Inner \/ ~ Corner(q)}
    BY DEF Rolled
  <2>2. u \in [DOMAIN u -> Node]
    BY <1>24, <2>1
  <2> QED
    BY <2>1, <2>2, InnerPaths DEF TreeOK
<1>26. /\ u[<<>>].left # None /\ u[<<"L">>].left # None /\ u[<<"R">>].left # None
       /\ u[<<>>].mid # None /\ u[<<"L">>].mid # None /\ u[<<"R">>].mid # None
       /\ u[<<"L">>].right # None
  BY <1>8, <1>12, <1>17, <1>20, <1>21
<1>27. \A q \in Inner : Corner(q) => u[q].mid = None /\ u[q].right = None
  BY <1>22 DEF Rolled
<1>28. \A q \in Paths : Len(q) >= 2 /\ ~ Corner(q) =>
         /\ u[q].left # None /\ u[q].right # None
         /\ q \in Inner /\ Len(q) < Depth - 2 => u[q].mid # None
  BY <1>1, <1>23
<1> QED
  BY <1>25, <1>26, <1>27, <1>28 DEF RolledIdx

\* The first node of the empty corner.
LEMMA FirstFreshFact ==
  /\ FirstFresh \in Inner /\ Len(FirstFresh) = Depth - 2 /\ Corner(FirstFresh)
  /\ \A i \in 3 .. Depth - 2 : FirstFresh[i] = "L"
<1>1. FirstFresh \in [1 .. Depth - 2 -> Dir] /\ Depth - 2 \in Nat /\ Depth - 2 >= 2
  BY DepthAssumption DEF FirstFresh, Dir
<1>2. FirstFresh \in Seq(Dir) /\ Len(FirstFresh) = Depth - 2
  BY <1>1
<1>3. FirstFresh \in Inner
  BY <1>1, <1>2, PathIs
<1>4. 1 \in 1 .. Depth - 2 /\ 2 \in 1 .. Depth - 2 /\ \A i \in 3 .. Depth - 2 : i \in 1 .. Depth - 2 /\ ~ (i <= 2)
  BY <1>1
<1>5. FirstFresh[1] = "R" /\ FirstFresh[2] = "R" /\ \A i \in 3 .. Depth - 2 : FirstFresh[i] = "L"
  BY <1>4 DEF FirstFresh
<1> QED
  BY <1>1, <1>2, <1>3, <1>5 DEF Corner

\* The free place there.
LEMMA FreshPlace ==
  ASSUME NEW t, NEW u, Rolled(t, u)
  PROVE  \E e \in Paths :
           /\ e = Place(u, FirstFresh) /\ Len(e) = Depth - 1 /\ e \notin DOMAIN u
           /\ \A k \in 0 .. Depth - 2 : e[k + 1] = "R" <=> k \in {0, 1}
<1>1. /\ FirstFresh \in Inner /\ Len(FirstFresh) = Depth - 2 /\ Corner(FirstFresh)
      /\ \A i \in 3 .. Depth - 2 : FirstFresh[i] = "L"
  BY FirstFreshFact
<1>2. PICK e \in Paths : e = Append(FirstFresh, "L")
  BY <1>1, StepFact
<1>3. /\ Len(e) = Len(FirstFresh) + 1 /\ e[Len(FirstFresh) + 1] = "L"
      /\ \A i \in 1 .. Len(FirstFresh) : e[i] = FirstFresh[i]
  BY <1>1, <1>2, StepFact
<1>4. Len(e) = Depth - 1 /\ e[Depth - 1] = "L" /\ \A i \in 1 .. Depth - 2 : e[i] = FirstFresh[i]
  BY <1>1, <1>3, DepthAssumption
<1>5. e \notin DOMAIN u
  <2>1. e \notin Inner
    BY <1>4, PathFact
  <2>2. 1 \in 1 .. Depth - 2 /\ 2 \in 1 .. Depth - 2 /\ Depth - 1 >= 2
    BY DepthAssumption
  <2>3. Corner(e)
    BY <1>1, <1>4, <2>2 DEF Corner
  <2> QED
    BY <2>1, <2>3 DEF Rolled
<1>6. e = Place(u, FirstFresh)
  BY <1>2, <1>5 DEF Place
<1>7. ASSUME NEW k \in 0 .. Depth - 2
      PROVE  e[k + 1] = "R" <=> k \in {0, 1}
  <2>1. CASE k = Depth - 2
    <3>1. k + 1 = Depth - 1 /\ k \notin {0, 1}
      BY <2>1, DepthAssumption
    <3> QED
      BY <1>4, <3>1
  <2>2. CASE k # Depth - 2 /\ k \notin {0, 1}
    <3>1. k + 1 \in 3 .. Depth - 2 /\ k + 1 \in 1 .. Depth - 2
      BY <2>2, DepthAssumption
    <3> QED
      BY <1>1, <1>4, <2>2, <3>1
  <2>3. CASE k \in {0, 1}
    <3>1. k + 1 \in {1, 2} /\ 1 \in 1 .. Depth - 2 /\ 2 \in 1 .. Depth - 2
      BY <2>3, DepthAssumption
    <3> QED
      BY <1>1, <1>4, <2>3, <3>1 DEF Corner
  <2> QED
    BY <2>1, <2>2, <2>3
<1> QED
  BY <1>4, <1>5, <1>6, <1>7

\* Full left children.
LEMMA RolledLeft ==
  ASSUME NEW t, NEW u, Rolled(t, u), NEW a \in Inner, Len(a) < 2 \/ ~ Corner(a)
  PROVE  Full(DOMAIN u, Append(a, "L"))
<1>1. a \in Paths /\ Len(a) \in Nat
  BY InnerPaths, PathFact
<1>2. PICK b \in Paths : b = Append(a, "L")
  BY StepFact
<1>3. Len(b) = Len(a) + 1 /\ b[Len(a) + 1] = "L" /\ \A i \in 1 .. Len(a) : b[i] = a[i]
  BY <1>2, StepFact
<1>4. ~ Broken(b)
  <2>1. CASE Len(a) = 0
    <3>1. Len(b) = 1 /\ b[1] = "L"
      BY <1>3, <2>1
    <3> QED
      BY <3>1 DEF Broken
  <2>2. CASE Len(a) = 1
    <3>1. Len(b) = 2 /\ b[2] = "L"
      BY <1>3, <2>2
    <3> QED
      BY <3>1 DEF Broken
  <2>3. CASE Len(a) >= 2
    <3>1. 1 \in 1 .. Len(a) /\ 2 \in 1 .. Len(a) /\ Len(b) >= 2 /\ Len(b) >= 1
      BY <1>1, <1>3, <2>3
    <3>2. b[1] = a[1] /\ b[2] = a[2] /\ ~ (a[1] = "R" /\ a[2] = "R")
      BY <1>1, <1>3, <2>3, <3>1 DEF Corner
    <3> QED
      BY <3>1, <3>2 DEF Broken
  <2>4. PICK n \in Nat : n = Len(a)
    BY <1>1
  <2>5. n = 0 \/ n = 1 \/ n >= 2
    OBVIOUS
  <2> QED
    BY <2>1, <2>2, <2>3, <2>4, <2>5
<1> QED
  BY <1>2, <1>4, RolledFull

\* A rolled-up tree is ready for a leaf in the empty corner.
LEMMA RolledReady ==
  ASSUME NEW t, ShapeOK(t), Full(DOMAIN t, <<>>), NEW u, Rolled(t, u)
  PROVE  Ready(u, Place(u, FirstFresh))
<1>1. PICK e \in Paths :
           /\ e = Place(u, FirstFresh) /\ Len(e) = Depth - 1 /\ e \notin DOMAIN u
           /\ \A k \in 0 .. Depth - 2 : e[k + 1] = "R" <=> k \in {0, 1}
  BY FreshPlace
<1>2. RolledIdx(t, u)
  BY RolledNodes
<1>3. DOMAIN u = {q \in Paths : q \in Inner \/ ~ Corner(q)}
  BY DEF Rolled
<1>4. ASSUME NEW k \in 0 .. Depth - 2, e[k + 1] = "R"
      PROVE  Full(DOMAIN u, Append(Top(e, k), "L"))
  <2>1. k < 2
    BY <1>1, <1>4
  <2>2. Top(e, k) \in Inner /\ Len(Top(e, k)) = k
    BY <1>1, AboveFact, DepthAssumption
  <2> QED
    BY <2>1, <2>2, RolledLeft
<1>5. ASSUME NEW q \in DOMAIN u, \A k \in 0 .. Depth - 2 : e[k + 1] = "R" => q # Top(e, k)
      PROVE  RightOK(u, q)
  <2>1. q \in Paths /\ (q \in Inner \/ ~ Corner(q)) /\ Len(q) \in Nat
    BY <1>3, PathFact
  <2>2. Full(DOMAIN u, q) <=> ~ Broken(q)
    BY <2>1, RolledFull
  <2>3. CASE Len(q) < 2
    <3>1. /\ 0 \in 0 .. Depth - 2 /\ 1 \in 0 .. Depth - 2 /\ 0 \in 0 .. Len(e) /\ 1 \in 0 .. Len(e)
          /\ 1 \in 1 .. 1
      BY <1>1, DepthAssumption
    <3>2. q # Top(e, 0) /\ q # Top(e, 1)
      BY <1>1, <1>5, <3>1
    <3>3. Top(e, 0) = <<>>
      BY <3>1, TopFact
    <3>4. Top(e, 1) \in Paths /\ Len(Top(e, 1)) = 1 /\ Top(e, 1)[1] = e[1]
      BY <3>1, TopFact
    <3>5. e[1] = "R"
      BY <1>1, <3>1
    <3>6. Top(e, 1) = <<"R">>
      <4>1. PICK r \in Paths : r = <<"R">>
        BY FirstLevels, InnerPaths, Zenon
      <4>2. Len(r) = 1 /\ r[1] = "R"
        BY <4>1
      <4> QED
        BY <3>4, <3>5, <4>1, <4>2, PathEqual
    <3>7. q = <<"L">>
      BY <2>1, <2>3, <3>2, <3>3, <3>6, FirstLevels, Zenon
    <3>8. u[q].right # None
      BY <1>2, <3>7 DEF RolledIdx
    <3>9. ~ Broken(q)
      <4>1. Len(q) = 1 /\ q[1] = "L"
        BY <3>7
      <4> QED
        BY <4>1 DEF Broken
    <3> QED
      BY <2>2, <3>8, <3>9 DEF RightOK
  <2>4. CASE Len(q) >= 2 /\ Corner(q)
    <3>1. u[q].right = None
      BY <1>2, <2>1, <2>4 DEF RolledIdx
    <3>2. Broken(q)
      BY <2>4 DEF Broken, Corner
    <3> QED
      BY <2>2, <3>1, <3>2 DEF RightOK
  <2>5. CASE Len(q) >= 2 /\ ~ Corner(q)
    <3>1. u[q].right # None
      BY <1>2, <2>1, <2>5 DEF RolledIdx
    <3>2. ~ Broken(q)
      BY <2>1, <2>5 DEF Broken, Corner
    <3> QED
      BY <2>2, <3>1, <3>2 DEF RightOK
  <2> QED
    BY <2>1, <2>3, <2>4, <2>5
<1>6. ASSUME NEW q \in Inner, Len(q) < Depth - 2
      PROVE  MidOK(u, q)
  <2>1. q \in Paths /\ Len(q) \in Nat
    BY InnerPaths, PathFact
  <2>2. CASE Len(q) < 2
    <3>1. Full(DOMAIN u, Append(q, "L"))
      BY <2>2, RolledLeft
    <3>2. q = <<>> \/ q = <<"L">> \/ q = <<"R">>
      BY <2>1, <2>2, FirstLevels
    <3>3. u[q].mid # None
      BY <1>2, <3>2 DEF RolledIdx
    <3> QED
      BY <3>1, <3>3 DEF MidOK
  <2>3. CASE Len(q) >= 2 /\ Corner(q)
    <3>1. u[q].mid = None
      BY <1>2, <2>3 DEF RolledIdx
    <3>2. PICK b \in Paths : b = Append(q, "L")
      BY StepFact
    <3>3. Len(b) = Len(q) + 1 /\ \A i \in 1 .. Len(q) : b[i] = q[i]
      BY <3>2, StepFact
    <3>4. b[1] = q[1] /\ b[2] = q[2]
      BY <2>1, <2>3, <3>3
    <3>5. Broken(b)
      BY <2>3, <3>4 DEF Broken, Corner
    <3>6. ~ Full(DOMAIN u, b)
      BY <3>5, RolledFull
    <3> QED
      BY <3>1, <3>2, <3>6 DEF MidOK
  <2>4. CASE Len(q) >= 2 /\ ~ Corner(q)
    <3>1. u[q].mid # None
      BY <1>2, <1>6, <2>1, <2>4 DEF RolledIdx
    <3>2. Full(DOMAIN u, Append(q, "L"))
      BY <2>4, RolledLeft
    <3> QED
      BY <3>1, <3>2 DEF MidOK
  <2> QED
    BY <2>1, <2>2, <2>3, <2>4
<1>7. ASSUME NEW z \in DOMAIN u \ Inner
      PROVE  LeafOK(u, z)
  <2>1. z \in Paths /\ ~ Corner(z) /\ Len(z) = Depth - 1 /\ Len(z) >= 2
    BY <1>3, PathFact, DepthAssumption
  <2>2. u[z].left # None
    BY <1>2, <2>1 DEF RolledIdx
  <2>3. ASSUME NEW k \in 0 .. Depth - 2
        PROVE  /\ u[Top(z, k)].left # None
               /\ Full(DOMAIN u, Append(Top(z, k), "L"))
    <3>1. PICK a \in Inner : a = Top(z, k)
      BY <2>1, AboveFact
    <3>2. k \in 0 .. Len(z)
      BY <2>1, DepthAssumption
    <3>3. a \in Paths /\ Len(a) = k /\ \A i \in 1 .. k : a[i] = z[i]
      BY <2>1, <3>1, <3>2, TopFact
    <3>4. CASE k < 2
      <4>1. a = <<>> \/ a = <<"L">> \/ a = <<"R">>
        BY <3>3, <3>4, FirstLevels
      <4>2. u[a].left # None
        BY <1>2, <4>1 DEF RolledIdx
      <4> QED
        BY <3>1, <3>3, <3>4, <4>2, RolledLeft
    <3>5. CASE k >= 2
      <4>1. 1 \in 1 .. k /\ 2 \in 1 .. k
        BY <3>5
      <4>2. ~ Corner(a) /\ Len(a) >= 2
        BY <2>1, <3>3, <3>5, <4>1 DEF Corner
      <4>3. u[a].left # None
        BY <1>2, <3>3, <4>2 DEF RolledIdx
      <4> QED
        BY <3>1, <4>2, <4>3, RolledLeft
    <3>6. k < 2 \/ k >= 2
      BY DepthAssumption
    <3> QED
      BY <3>4, <3>5, <3>6, Zenon
  <2> QED
    BY <2>2, <2>3 DEF LeafOK
<1> QED
  BY <1>1, <1>2, <1>4, <1>5, <1>6, <1>7 DEF Ready, RolledIdx

-----------------------------------------------------------------------------
(* An append to any tree.                                                  *)

\* What AggTreeAppend1 offers is above a free place.
LEMMA OfferedFact ==
  ASSUME NEW t, ShapeOK(t)
  PROVE  /\ Offered(t) \in Inner /\ Len(Offered(t)) = Depth - 2 /\ ~ IsFull(Grown(t), Offered(t))
         /\ TreeOK(Grown(t)) /\ Ready(Grown(t), Place(Grown(t), Offered(t)))
         /\ FreeParent(t) = NULL =>
              DOMAIN t = Paths /\ Full(DOMAIN t, <<>>) /\ Rolled(t, Grown(t))
<1>1. CASE FreeParent(t) = NULL
  <2>1. Full(DOMAIN t, <<>>)
    BY <1>1, FreeParentFact, NullFact, InnerPaths
  <2>2. Grown(t) = RollUp(t) /\ Offered(t) = FirstFresh
    BY <1>1 DEF Grown, Offered
  <2>3. Rolled(t, Grown(t)) /\ DOMAIN t = Paths
    BY <2>1, <2>2, FullTree, RollUpFact
  <2>4. Ready(Grown(t), Place(Grown(t), FirstFresh))
    BY <2>1, <2>3, RolledReady
  <2>5. ~ IsFull(Grown(t), Offered(t))
    BY <2>2, <2>4 DEF Ready, IsFull, Place
  <2> QED
    BY <1>1, <2>1, <2>2, <2>3, <2>4, <2>5, FirstFreshFact DEF Ready
<1>2. CASE FreeParent(t) # NULL
  <2>1. PICK p : p = FreeParent(t)
    OBVIOUS
  <2>2. p \in Inner /\ Len(p) = Depth - 2 /\ ~ Full(DOMAIN t, p) /\ LeftTaken(DOMAIN t, p)
    BY <1>2, <2>1, FreeParentFact
  <2>3. Grown(t) = t /\ Offered(t) = p
    BY <1>2, <2>1 DEF Grown, Offered
  <2>4. Ready(t, Place(t, p))
    BY <2>2, ShapeReady
  <2>5. ~ IsFull(t, p)
    BY <2>4 DEF Ready, IsFull, Place
  <2> QED
    BY <1>2, <2>2, <2>3, <2>4, <2>5 DEF Ready
<1> QED
  BY <1>1, <1>2

\* AggTreeAppend2 keeps the shape.
LEMMA FinishedFact ==
  ASSUME NEW t, ShapeOK(t), NEW idx \in Nat, NEW aggs \in [1 .. Depth -> Index]
  PROVE  /\ Grew(Grown(t), Finished(t, idx, aggs), Place(Grown(t), Offered(t)), idx, aggs)
         /\ ShapeOK(Finished(t, idx, aggs))
<1>1. PICK g : g = Grown(t)
  OBVIOUS
<1>2. PICK p : p = Offered(t)
  OBVIOUS
<1>3. PICK e : e = Place(g, p)
  OBVIOUS
<1>4. Ready(g, e)
  BY <1>1, <1>2, <1>3, OfferedFact
<1>5. CanAppend(g, p, e, idx, aggs)
  BY <1>3, <1>4 DEF CanAppend, Ready
<1>6. PICK u : u = AppendBelow(g, p, idx, aggs)
  OBVIOUS
<1>7. PutBelow(g, u, e, idx, aggs)
  BY <1>5, <1>6, AppendFact
<1>8. Grew(g, u, e, idx, aggs)
  BY <1>4, <1>7 DEF Grew
<1>9. ShapeOK(u)
  BY <1>8, AppendShape
<1>10. u = Finished(t, idx, aggs)
  BY <1>1, <1>2, <1>6 DEF Finished
<1> QED
  BY <1>1, <1>2, <1>3, <1>8, <1>9, <1>10

-----------------------------------------------------------------------------
(* The six trees have the same shape.                                      *)

\* The descent only reads indices.
LEMMA SameFree ==
  ASSUME NEW t, NEW v, TreeOK(t), TreeOK(v), SameShape(t, v)
  PROVE  FreeParent(t) = FreeParent(v)
<1>1. DOMAIN t = DOMAIN v /\ DOMAIN t \subseteq Paths /\ Inner \subseteq DOMAIN t
      /\ \A p \in DOMAIN t : t[p].mid = v[p].mid /\ t[p].right = v[p].right
  BY DEF TreeOK, SameShape
<1>2. ASSUME NEW p \in Paths \cup {NULL}
      PROVE  Descend(t, p) = Descend(v, p)
  <2>1. CASE p \in Inner
    BY <1>1, <2>1 DEF Descend
  <2>2. CASE p = NULL
    BY <2>2 DEF Descend
  <2>3. CASE p \in Paths /\ p \notin Inner
    <3>1. p \in Seq(Dir) /\ Len(p) = Depth - 1
      BY <2>3, PathFact
    <3>2. ASSUME NEW d \in Dir
          PROVE  Append(p, d) \notin DOMAIN t
      <4>1. Len(Append(p, d)) = Depth - 1 + 1
        BY <3>1, AppendProperties
      <4>2. PICK a : a = Append(p, d)
        OBVIOUS
      <4>3. a \notin Paths
        <5>1. Len(a) = Depth
          BY <4>1, <4>2, DepthAssumption
        <5> QED
          BY <5>1, PathFact, DepthAssumption
      <4> QED
        BY <1>1, <4>2, <4>3
    <3>3. "L" \in Dir /\ "R" \in Dir
      BY DEF Dir
    <3>4. {Append(p, "L"), Append(p, "R")} \cap DOMAIN t = {}
      BY <3>2, <3>3
    <3> QED
      BY <1>1, <3>4 DEF Descend
  <2> QED
    BY <2>1, <2>2, <2>3
<1>3. PICK f \in [0 .. Depth - 2 -> Paths \cup {NULL}] : Descent(t, f)
  BY <1>1, DescentDefined
<1>4. PICK g \in [0 .. Depth - 2 -> Paths \cup {NULL}] : Descent(v, g)
  BY <1>1, DescentDefined
<1> DEFINE N == Depth - 2
           S == {k \in 0 .. N : f[k] = g[k]}
<1>5. N \in Nat
  BY DepthAssumption
<1>6. 0 \in S
  BY <1>3, <1>4, <1>5 DEF Descent
<1>7. ASSUME NEW k \in 0 .. N - 1, k \in S
      PROVE  k + 1 \in S
  <2>1. k + 1 \in 1 .. N /\ k + 1 \in 0 .. N /\ (k + 1) - 1 = k /\ k \in 0 .. N
    BY <1>5
  <2>2. f[k + 1] = Descend(t, f[k]) /\ g[k + 1] = Descend(v, g[k])
    BY <1>3, <1>4, <2>1 DEF Descent
  <2>3. f[k] = g[k] /\ f[k] \in Paths \cup {NULL}
    BY <1>3, <1>7, <2>1
  <2> QED
    BY <1>2, <2>1, <2>2, <2>3
<1>8. 0 .. N \subseteq S
  <2> HIDE DEF N, S
  <2>1. \A k \in 0 .. N - 1 : k \in S => k + 1 \in S
    BY <1>7
  <2> QED
    BY <1>5, <1>6, <2>1, BoundedInduction
<1>9. f[N] = g[N]
  BY <1>5, <1>8
<1> QED
  BY <1>3, <1>4, <1>9 DEF Descent

\* A roll-up reads no aggregate for an index.
LEMMA SameRolled ==
  ASSUME NEW t, NEW v, DOMAIN t = Paths, SameShape(t, v), NEW u, NEW w, Rolled(t, u), Rolled(v, w)
  PROVE  SameShape(u, w)
<1>1. /\ DOMAIN v = Paths
      /\ \A p \in Paths : t[p].left = v[p].left /\ t[p].mid = v[p].mid /\ t[p].right = v[p].right
  BY DEF SameShape
<1>2. DOMAIN u = DOMAIN w /\ DOMAIN u = {q \in Paths : q \in Inner \/ ~ Corner(q)}
  BY DEF Rolled
<1>3. /\ <<>> \in Paths /\ <<"L">> \in Paths /\ <<"R">> \in Paths
      /\ <<"R", "L">> \in Paths /\ <<"R", "R">> \in Paths
  BY FirstLevels, SecondLevel, InnerPaths, Zenon
<1>4. /\ OldRoot(t).left = OldRoot(v).left /\ OldRoot(t).mid = OldRoot(v).mid
      /\ OldRoot(t).right = OldRoot(v).right
  BY <1>1, <1>3 DEF OldRoot
<1>5. /\ NewRoot(t).left = NewRoot(v).left /\ NewRoot(t).mid = NewRoot(v).mid
      /\ NewRoot(t).right = NewRoot(v).right
  BY <1>1, <1>3, <1>4 DEF NewRoot
<1>6. /\ NewRight(t).left = NewRight(v).left /\ NewRight(t).mid = NewRight(v).mid
      /\ NewRight(t).right = NewRight(v).right
  BY <1>1, <1>3 DEF NewRight
<1>7. ASSUME NEW p \in DOMAIN u
      PROVE  u[p].left = w[p].left /\ u[p].mid = w[p].mid /\ u[p].right = w[p].right
  <2>1. p \in Paths /\ (p \in Inner \/ ~ Corner(p)) /\ Len(p) \in Nat
    BY <1>2, PathFact
  <2>2. CASE Len(p) < 2
    <3>1. p = <<>> \/ p = <<"L">> \/ p = <<"R">>
      BY <2>1, <2>2, FirstLevels
    <3>2. CASE p = <<>>
      BY <1>5, <3>2 DEF Rolled
    <3>3. CASE p = <<"L">>
      BY <1>4, <3>3 DEF Rolled
    <3>4. CASE p = <<"R">>
      BY <1>6, <3>4 DEF Rolled
    <3> QED
      BY <3>1, <3>2, <3>3, <3>4
  <2>3. CASE Len(p) >= 2 /\ ~ Corner(p)
    <3>1. u[p] = t[Origin(p)] /\ w[p] = v[Origin(p)] /\ Origin(p) \in Paths
      BY <2>1, <2>3, OriginFact DEF Rolled, OriginIs
    <3> QED
      BY <1>1, <3>1
  <2>4. CASE Len(p) >= 2 /\ Corner(p)
    <3>1. u[p] = EmptyNode /\ w[p] = EmptyNode
      BY <2>1, <2>4 DEF Rolled
    <3> QED
      BY <3>1
  <2>5. Len(p) < 2 \/ Len(p) >= 2
    BY <2>1
  <2> QED
    BY <2>2, <2>3, <2>4, <2>5
<1> QED
  BY <1>2, <1>7 DEF SameShape

Alike(m, n) == m.left = n.left /\ m.mid = n.mid /\ m.right = n.right

\* The new indices of a node.
WidenTo(n, side, c, cr) ==
  [left  |-> IF side = "R" THEN n.left
             ELSE IF n.left = None THEN c.left ELSE UMin(n.left, c.left),
   mid   |-> IF side = "R" THEN IF n.mid = None THEN c.left ELSE UMin(n.mid, c.left)
             ELSE IF cr = None THEN n.mid
             ELSE IF n.mid = None THEN c.right + 1 ELSE UMax(n.mid, c.right + 1),
   right |-> IF side = "L" THEN n.right
             ELSE IF n.right = None THEN c.right ELSE UMax(n.right, c.right),
   agg   |-> n.agg]

LEMMA WidenIs ==
  ASSUME NEW n \in Node, NEW side \in {"L", "R"}, NEW c, NEW cr
  PROVE  Widen(n, side, c, cr) = WidenTo(n, side, c, cr)
<1>1. PICK l, m, r, a : n = [left |-> l, mid |-> m, right |-> r, agg |-> a]
  BY DEF Node
<1>2. n.left = l /\ n.mid = m /\ n.right = r /\ n.agg = a
  BY <1>1
<1>3. CASE side = "L"
  <2> DEFINE x == IF l = None THEN c.left ELSE UMin(l, c.left)
             y == IF cr = None THEN m ELSE IF m = None THEN c.right + 1 ELSE UMax(m, c.right + 1)
  <2>1. Widen(n, side, c, cr) = [n EXCEPT !.left = x, !.mid = y]
    BY <1>2, <1>3 DEF Widen
  <2>2. WidenTo(n, side, c, cr) = [left |-> x, mid |-> y, right |-> r, agg |-> a]
    BY <1>2, <1>3 DEF WidenTo
  <2> HIDE DEF x, y
  <2> QED
    BY <1>1, <2>1, <2>2
<1>4. CASE side = "R"
  <2> DEFINE x == IF m = None THEN c.left ELSE UMin(m, c.left)
             y == IF r = None THEN c.right ELSE UMax(r, c.right)
  <2>1. Widen(n, side, c, cr) = [n EXCEPT !.mid = x, !.right = y]
    BY <1>2, <1>4 DEF Widen
  <2>2. WidenTo(n, side, c, cr) = [left |-> l, mid |-> x, right |-> y, agg |-> a]
    BY <1>2, <1>4 DEF WidenTo
  <2> HIDE DEF x, y
  <2> QED
    BY <1>1, <2>1, <2>2
<1> QED
  BY <1>3, <1>4

\* They do not depend on aggregates.
LEMMA WidenSame ==
  ASSUME NEW m \in Node, NEW n \in Node, Alike(m, n), NEW side \in {"L", "R"},
         NEW c \in Node, NEW d \in Node, Alike(c, d), NEW cr \in Index, NEW x, NEW y
  PROVE  Alike([Widen(m, side, c, cr) EXCEPT !.agg = x], [Widen(n, side, d, cr) EXCEPT !.agg = y])
<1>1. /\ m.left = n.left /\ m.mid = n.mid /\ m.right = n.right
      /\ c.left = d.left /\ c.right = d.right
  BY DEF Alike
<1>2. PICK k : k = [Widen(m, side, c, cr) EXCEPT !.agg = x]
  OBVIOUS
<1>3. PICK l : l = [Widen(n, side, d, cr) EXCEPT !.agg = y]
  OBVIOUS
<1>4. k = [WidenTo(m, side, c, cr) EXCEPT !.agg = x] /\ l = [WidenTo(n, side, d, cr) EXCEPT !.agg = y]
  BY <1>2, <1>3, WidenIs
<1>5. k.left = l.left /\ k.mid = l.mid /\ k.right = l.right
  BY <1>1, <1>4 DEF WidenTo
<1> QED
  BY <1>2, <1>3, <1>5 DEF Alike

\* What GrewFact says.
GrewOK(t, u, e) ==
  /\ TreeOK(t) /\ TreeOK(u) /\ DOMAIN u = DOMAIN t \cup {e}
  /\ e \in Paths /\ Len(e) = Depth - 1 /\ e \notin DOMAIN t
  /\ \A q \in DOMAIN t : OffPath(e, q, 0) => u[q] = t[q]
  /\ \A q \in DOMAIN u : q = e \/ OffPath(e, q, 0) \/ \E k \in 0 .. Depth - 2 : q = Top(e, k)

LEMMA GrewKnown ==
  ASSUME NEW t, NEW u, NEW e, NEW idx, NEW aggs, Grew(t, u, e, idx, aggs)
  PROVE  GrewOK(t, u, e)
BY GrewFact DEF GrewOK

\* An append to trees of the same shape.
LEMMA SameGrew ==
  ASSUME NEW t, NEW u, NEW v, NEW w, NEW e, NEW idx, NEW a, NEW b,
         Grew(t, u, e, idx, a), Grew(v, w, e, idx, b), SameShape(t, v)
  PROVE  SameShape(u, w)
<1>0a. GrewOK(t, u, e) /\ GrewOK(v, w, e)
  BY GrewKnown
<1>1. /\ TreeOK(t) /\ TreeOK(u) /\ DOMAIN u = DOMAIN t \cup {e}
      /\ e \in Paths /\ Len(e) = Depth - 1 /\ e \notin DOMAIN t
      /\ \A q \in DOMAIN t : OffPath(e, q, 0) => u[q] = t[q]
      /\ \A q \in DOMAIN u : q = e \/ OffPath(e, q, 0) \/ \E k \in 0 .. Depth - 2 : q = Top(e, k)
  BY <1>0a DEF GrewOK
<1>2. /\ TreeOK(v) /\ TreeOK(w) /\ DOMAIN w = DOMAIN v \cup {e}
      /\ \A q \in DOMAIN v : OffPath(e, q, 0) => w[q] = v[q]
  BY <1>0a DEF GrewOK
<1> DEFINE N == Depth - 1
           S == {k \in 0 .. N : \A i \in 0 .. k : Alike(u[Top(e, N - i)], w[Top(e, N - i)])}
<1>0. N \in Nat
  BY DepthAssumption
<1>3. DOMAIN u = DOMAIN w /\ \A q \in DOMAIN t : Alike(t[q], v[q])
  BY <1>1, <1>2 DEF SameShape, Alike
<1>4. /\ \A q \in DOMAIN t : t[q] \in Node
      /\ \A q \in DOMAIN t : v[q] \in Node
      /\ \A q \in DOMAIN u : u[q] \in Node
      /\ \A q \in DOMAIN u : w[q] \in Node
  BY <1>1, <1>2, <1>3 DEF TreeOK, SameShape
<1>5. /\ PutBelow(t, u, e, idx, a) /\ PutBelow(v, w, e, idx, b)
      /\ \A k \in 0 .. Depth - 2 : WentUp(t, u, e, k)
  BY ClimbedFact DEF Grew
<1>6. Alike(u[e], w[e])
  BY <1>5 DEF PutBelow, Alike
<1>7. 0 \in S
  BY <1>0, <1>1, <1>6, AboveFact
<1>8. ASSUME NEW k \in 0 .. N - 1, k \in S
      PROVE  k + 1 \in S
  <2> DEFINE m == N - (k + 1)
             c == Top(e, m + 1)
             x == Append(c, "R")
  <2>1. m \in 0 .. Depth - 2 /\ m + 1 = N - k /\ k + 1 \in 0 .. N /\ k \in 0 .. k
    BY DepthAssumption
  <2>2. \A i \in 0 .. k : Alike(u[Top(e, N - i)], w[Top(e, N - i)])
    BY <1>8
  <2>3. Alike(u[c], w[c])
    BY <2>1, <2>2
  <2>4. /\ Top(e, m) \in DOMAIN t /\ c \in DOMAIN u /\ c \in Paths /\ Len(c) = m + 1
        /\ e[m + 1] \in {"L", "R"}
    <3>1. m + 1 \in 0 .. Depth - 1
      BY <2>1, DepthAssumption
    <3> QED
      BY <1>1, <1>5, <2>1, <3>1, AboveFact DEF WentUp
  <2>5. RightIdx(u, x) = RightIdx(w, x) /\ RightIdx(u, x) \in Index
    <3>1. CASE x \notin DOMAIN u
      BY <1>3, <3>1 DEF RightIdx, Index
    <3>2. CASE x \in DOMAIN u /\ OffPath(e, x, 0) /\ x # e
      <4>1. x \in DOMAIN t /\ x \in DOMAIN v
        BY <1>1, <3>2 DEF SameShape
      <4>2. u[x] = t[x] /\ w[x] = v[x] /\ Alike(t[x], v[x])
        BY <1>1, <1>2, <1>3, <3>2, <4>1
      <4> QED
        BY <1>3, <1>4, <3>2, <4>2 DEF RightIdx, Alike, Node
    <3>3. CASE x \in DOMAIN u /\ (x = e \/ \E j \in 0 .. Depth - 2 : x = Top(e, j))
      <4>1. PICK j \in 0 .. N : x = Top(e, j)
        <5>1. N \in 0 .. N /\ Top(e, N) = e /\ \A j \in 0 .. Depth - 2 : j \in 0 .. N
          BY <1>0, <1>1, AboveFact, DepthAssumption
        <5> QED
          BY <3>3, <5>1
      <4>2. Len(x) = m + 2
        <5>1. c \in Seq(Dir)
          BY <2>4, PathFact
        <5>2. Len(x) = (m + 1) + 1
          BY <2>4, <5>1, AppendProperties DEF Dir
        <5> QED
          BY <5>2, <2>1
      <4>3. j = m + 2
        BY <1>1, <4>1, <4>2, AboveFact
      <4>4. N - j \in 0 .. k /\ N - (N - j) = j
        BY <1>0, <2>1, <4>1, <4>3
      <4>5. Alike(u[x], w[x])
        BY <2>2, <4>1, <4>4
      <4> QED
        BY <1>3, <1>4, <3>3, <4>5 DEF RightIdx, Alike, Node
    <3> QED
      BY <1>1, <3>1, <3>2, <3>3
  <2>6. /\ u[Top(e, m)] = Climbed(t[Top(e, m)], u, e, m, a)
        /\ w[Top(e, m)] = Climbed(v[Top(e, m)], w, e, m, b)
    BY <1>5, <2>1 DEF PutBelow
  <2>7. Alike(u[Top(e, m)], w[Top(e, m)])
    <3>1. /\ t[Top(e, m)] \in Node /\ v[Top(e, m)] \in Node /\ Alike(t[Top(e, m)], v[Top(e, m)])
          /\ u[c] \in Node /\ w[c] \in Node
      BY <1>3, <1>4, <2>4
    <3>2. PICK cr \in Index : cr = RightIdx(u, x) /\ cr = RightIdx(w, x)
      BY <2>5
    <3>3. Alike([Widen(t[Top(e, m)], e[m + 1], u[c], cr) EXCEPT !.agg = a[Depth - m]],
                [Widen(v[Top(e, m)], e[m + 1], w[c], cr) EXCEPT !.agg = b[Depth - m]])
      <4> HIDE DEF m, c, x
      <4> QED
        BY <2>3, <2>4, <3>1, WidenSame
    <3> QED
      BY <2>6, <3>2, <3>3 DEF Climbed
  <2>8. ASSUME NEW i \in 0 .. k + 1
        PROVE  Alike(u[Top(e, N - i)], w[Top(e, N - i)])
    <3>1. i \in 0 .. k \/ i = k + 1
      BY <1>0
    <3> QED
      BY <2>2, <2>7, <3>1
  <2> QED
    BY <2>1, <2>8
<1>9. 0 .. N \subseteq S
  <2> HIDE DEF N, S
  <2>1. \A k \in 0 .. N - 1 : k \in S => k + 1 \in S
    BY <1>8
  <2> QED
    BY <1>0, <1>7, <2>1, BoundedInduction
<1>10. \A k \in 0 .. Depth - 2 : Alike(u[Top(e, k)], w[Top(e, k)])
  <2> TAKE k \in 0 .. Depth - 2
  <2>1. N - k \in 0 .. N /\ N - (N - k) = k /\ N - k \in 0 .. N - k
    BY DepthAssumption
  <2>2. N - k \in S
    BY <1>9, <2>1
  <2> QED
    BY <2>1, <2>2
<1>11. ASSUME NEW q \in DOMAIN u
       PROVE  Alike(u[q], w[q])
  <2>1. CASE q # e /\ OffPath(e, q, 0)
    <3>1. q \in DOMAIN t /\ q \in DOMAIN v
      BY <1>1, <2>1 DEF SameShape
    <3> QED
      BY <1>1, <1>2, <1>3, <2>1, <3>1
  <2> QED
    BY <1>1, <1>6, <1>10, <2>1
<1> QED
  BY <1>3, <1>11 DEF SameShape, Alike

\* An append leaves trees of the same shape so.
LEMMA SameFinished ==
  ASSUME NEW t, NEW v, ShapeOK(t), ShapeOK(v), SameShape(t, v)
  PROVE  /\ Offered(t) = Offered(v) /\ SameShape(Grown(t), Grown(v))
         /\ Place(Grown(t), Offered(t)) = Place(Grown(v), Offered(v))
         /\ \A idx \in Nat, a, b \in [1 .. Depth -> Index] :
              SameShape(Finished(t, idx, a), Finished(v, idx, b))
<1>1. FreeParent(t) = FreeParent(v)
  BY SameFree DEF ShapeOK
<1>2. Offered(t) = Offered(v)
  BY <1>1 DEF Offered
<1>3. SameShape(Grown(t), Grown(v))
  <2>1. CASE FreeParent(t) = NULL
    <3>1. DOMAIN t = Paths /\ Rolled(t, Grown(t)) /\ Rolled(v, Grown(v))
      BY <1>1, <2>1, OfferedFact
    <3> QED
      BY <3>1, SameRolled
  <2>2. CASE FreeParent(t) # NULL
    BY <1>1, <2>2 DEF Grown
  <2> QED
    BY <2>1, <2>2
<1>4. PICK e : e = Place(Grown(t), Offered(t))
  OBVIOUS
<1>5. e = Place(Grown(v), Offered(v))
  BY <1>2, <1>3, <1>4 DEF Place, SameShape
<1>6. ASSUME NEW idx \in Nat, NEW a \in [1 .. Depth -> Index], NEW b \in [1 .. Depth -> Index]
      PROVE  SameShape(Finished(t, idx, a), Finished(v, idx, b))
  <2>1. Grew(Grown(t), Finished(t, idx, a), e, idx, a)
    BY <1>4, FinishedFact
  <2>2. Grew(Grown(v), Finished(v, idx, b), e, idx, b)
    BY <1>5, FinishedFact
  <2> QED
    BY <1>3, <2>1, <2>2, SameGrew
<1> QED
  BY <1>2, <1>3, <1>4, <1>5, <1>6

-----------------------------------------------------------------------------
(* Sums of shares.                                                         *)

LEMMA ModStep ==
  ASSUME NEW a \in Int, NEW b \in Int
  PROVE  ((a % Word) + b) % Word = (a + b) % Word /\ (b + (a % Word)) % Word = (a + b) % Word
<1>1. PICK q \in Int, r \in Int : q = a \div Word /\ r = a % Word /\ a = Word * q + r
  BY WordAssumption, DivMod
<1>2. PICK p \in Int : (r + b) - (a + b) = Word * p
  <2>1. PICK p \in Int : p = 0 - q
    OBVIOUS
  <2>2. PICK W \in Int : W = Word
    BY WordAssumption
  <2>3. W * p = 0 - W * q
    BY <2>1
  <2>4. (r + b) - (a + b) = W * p
    BY <1>1, <2>2, <2>3
  <2> QED
    BY <2>2, <2>4
<1>3. r + b \in Int /\ a + b \in Int
  BY <1>1
<1>4. (r + b) % Word = (a + b) % Word
  BY <1>2, <1>3, WordAssumption, ModUnique
<1>5. b + r = r + b
  BY <1>1
<1> QED
  BY <1>1, <1>4, <1>5

\* A small number is its own remainder.
LEMMA ModSmall ==
  ASSUME NEW a \in 0 .. Word - 1
  PROVE  a % Word = a
BY WordAssumption

LEMMA ModIn ==
  ASSUME NEW a \in Int
  PROVE  a % Word \in 0 .. Word - 1
BY WordAssumption

LEMMA SumIs ==
  ASSUME AggFunc = "sum", NEW a \in Val, NEW b \in Val
  PROVE  /\ Aggregate(a, b) \in Val
         /\ a # None /\ b # None => Aggregate(a, b) = (a + b) % Word
         /\ Aggregate(a, None) = a /\ Aggregate(None, a) = a
         /\ Aggregate(a, b) = Aggregate(b, a)
         /\ Aggregate(a, b) = None <=> a = None /\ b = None
<1>1. None \notin 0 .. Word - 1
  BY DEF None
<1>2. CASE a # None /\ b # None
  <2>1. a \in Int /\ b \in Int
    BY <1>2 DEF Val
  <2>2. PICK s \in Int : s = a + b /\ s = b + a
    BY <2>1
  <2>3. s % Word \in 0 .. Word - 1
    BY ModIn
  <2>4. Aggregate(a, b) = s % Word /\ Aggregate(b, a) = s % Word
    BY <1>2, <2>2 DEF Aggregate
  <2> QED
    BY <1>1, <1>2, <2>2, <2>3, <2>4 DEF Val, Aggregate
<1>3. CASE a = None \/ b = None
  BY <1>3 DEF Aggregate, Val
<1> QED
  BY <1>2, <1>3

LEMMA SumAssoc ==
  ASSUME AggFunc = "sum", NEW a \in Val, NEW b \in Val, NEW c \in Val
  PROVE  Aggregate(Aggregate(a, b), c) = Aggregate(a, Aggregate(b, c))
<1>1. Aggregate(a, b) \in Val /\ Aggregate(b, c) \in Val
  BY SumIs
<1>2. CASE a = None \/ b = None \/ c = None
  BY <1>1, <1>2, SumIs
<1>3. CASE a # None /\ b # None /\ c # None
  <2>1. a \in Int /\ b \in Int /\ c \in Int
    BY <1>3 DEF Val
  <2>2. PICK s \in Int, u \in Int : s = a + b /\ u = b + c
    BY <2>1
  <2>3. /\ Aggregate(a, b) = s % Word /\ Aggregate(b, c) = u % Word
        /\ s % Word # None /\ u % Word # None
    BY <1>3, <2>2, SumIs, ModIn DEF None
  <2>4. /\ Aggregate(Aggregate(a, b), c) = ((s % Word) + c) % Word
        /\ Aggregate(a, Aggregate(b, c)) = (a + (u % Word)) % Word
    BY <1>1, <1>3, <2>3, SumIs
  <2>5. ((s % Word) + c) % Word = (s + c) % Word /\ (a + (u % Word)) % Word = (u + a) % Word
    BY <2>1, ModStep
  <2>6. s + c = u + a
    BY <2>1, <2>2
  <2> QED
    BY <2>4, <2>5, <2>6
<1> QED
  BY <1>2, <1>3

LEMMA OpenedIn ==
  ASSUME NEW a, NEW b, NEW c, Split(a, b, c)
  PROVE  Opened(a, b, c) \in Val /\ (Opened(a, b, c) = None <=> a = None)
<1>1. CASE a = None
  BY <1>1 DEF Opened, Val
<1>2. CASE a # None
  <2>1. a \in Int /\ b \in Int /\ c \in Int
    BY <1>2 DEF Split, Val
  <2>2. PICK s \in Int : s = a + b + c
    BY <2>1
  <2>3. s % Word \in 0 .. Word - 1
    BY ModIn
  <2> QED
    BY <1>2, <2>2, <2>3 DEF Opened, Val, None
<1> QED
  BY <1>1, <1>2

LEMMA ModSum ==
  ASSUME NEW a \in Int, NEW b \in Int, NEW c \in Int
  PROVE  ((a % Word) + (b % Word) + (c % Word)) % Word = (a + b + c) % Word
<1>1. PICK x \in Int, y \in Int, z \in Int : x = a % Word /\ y = b % Word /\ z = c % Word
  BY ModIn
<1>2. (x + (y + z)) % Word = (a + (y + z)) % Word
  <2>1. y + z \in Int
    OBVIOUS
  <2> QED
    BY <1>1, <2>1, ModStep
<1>3. (y + (a + z)) % Word = (b + (a + z)) % Word
  <2>1. a + z \in Int
    OBVIOUS
  <2> QED
    BY <1>1, <2>1, ModStep
<1>4. (z + (a + b)) % Word = (c + (a + b)) % Word
  <2>1. a + b \in Int
    OBVIOUS
  <2> QED
    BY <1>1, <2>1, ModStep
<1>5. /\ x + (y + z) = x + y + z /\ a + (y + z) = y + (a + z) /\ b + (a + z) = z + (a + b)
      /\ c + (a + b) = a + b + c
  OBVIOUS
<1> QED
  BY <1>1, <1>2, <1>3, <1>4, <1>5

\* The servers add their shares up each for itself.
LEMMA OpenedSum ==
  ASSUME AggFunc = "sum", NEW a, NEW b, NEW c, NEW x, NEW y, NEW z, Split(a, b, c), Split(x, y, z)
  PROVE  /\ Split(Aggregate(a, x), Aggregate(b, y), Aggregate(c, z))
         /\ Opened(Aggregate(a, x), Aggregate(b, y), Aggregate(c, z))
              = Aggregate(Opened(a, b, c), Opened(x, y, z))
<1>1. Opened(a, b, c) \in Val /\ Opened(x, y, z) \in Val
  BY OpenedIn
<1>2. /\ a \in Val /\ b \in Val /\ c \in Val /\ x \in Val /\ y \in Val /\ z \in Val
      /\ (b = None <=> a = None) /\ (c = None <=> a = None)
      /\ (y = None <=> x = None) /\ (z = None <=> x = None)
  BY DEF Split
<1>3. Split(Aggregate(a, x), Aggregate(b, y), Aggregate(c, z))
  BY <1>2, SumIs DEF Split
<1>4. CASE a = None
  <2>1. Aggregate(a, x) = x /\ Aggregate(b, y) = y /\ Aggregate(c, z) = z
    BY <1>2, <1>4, SumIs
  <2>2. Opened(a, b, c) = None
    BY <1>4 DEF Opened
  <2> QED
    BY <1>1, <1>3, <2>1, <2>2, SumIs
<1>5. CASE x = None
  <2>1. Aggregate(a, x) = a /\ Aggregate(b, y) = b /\ Aggregate(c, z) = c
    BY <1>2, <1>5, SumIs
  <2>2. Opened(x, y, z) = None
    BY <1>5 DEF Opened
  <2> QED
    BY <1>1, <1>3, <2>1, <2>2, SumIs
<1>6. CASE a # None /\ x # None
  <2>1. a \in Int /\ b \in Int /\ c \in Int /\ x \in Int /\ y \in Int /\ z \in Int
    BY <1>2, <1>6 DEF Val
  <2>2. PICK p \in Int, q \in Int, r \in Int : p = a + x /\ q = b + y /\ r = c + z
    BY <2>1
  <2>3. PICK u \in Int, v \in Int : u = a + b + c /\ v = x + y + z
    BY <2>1
  <2>4. /\ Aggregate(a, x) = p % Word /\ Aggregate(b, y) = q % Word /\ Aggregate(c, z) = r % Word
        /\ p % Word # None
    BY <1>2, <1>6, <2>2, SumIs
  <2>5. Opened(Aggregate(a, x), Aggregate(b, y), Aggregate(c, z)) = (p + q + r) % Word
    <3>1. Opened(Aggregate(a, x), Aggregate(b, y), Aggregate(c, z))
            = ((p % Word) + (q % Word) + (r % Word)) % Word
      BY <2>4 DEF Opened
    <3> QED
      BY <3>1, ModSum
  <2>6. Opened(a, b, c) = u % Word /\ Opened(x, y, z) = v % Word
    BY <1>6, <2>3 DEF Opened
  <2>7. Aggregate(u % Word, v % Word) = (u + v) % Word
    <3>1. PICK k \in Int, l \in Int : k = u % Word /\ l = v % Word /\ k # None /\ l # None /\ k \in Val /\ l \in Val
      BY ModIn DEF None, Val
    <3>2. Aggregate(k, l) = (k + l) % Word
      BY <3>1, SumIs
    <3>3. (k + l) % Word = (u + l) % Word /\ (u + l) % Word = (v + u) % Word
      BY <3>1, ModStep
    <3>4. v + u = u + v
      OBVIOUS
    <3> QED
      BY <3>1, <3>2, <3>3, <3>4
  <2>8. p + q + r = u + v
    BY <2>1, <2>2, <2>3
  <2> QED
    BY <1>3, <2>5, <2>6, <2>7, <2>8
<1> QED
  BY <1>4, <1>5, <1>6

\* The client splits a value.
LEMMA OpenedSplit ==
  ASSUME NEW v \in 0 .. Word - 1, NEW r \in 0 .. Word - 1, NEW s \in 0 .. Word - 1
  PROVE  /\ (v - r - s) % Word \in 0 .. Word - 1
         /\ Split(r, s, (v - r - s) % Word)
         /\ Opened(r, s, (v - r - s) % Word) = v
<1>1. PICK d \in Int : d = v - r - s
  OBVIOUS
<1>2. PICK e \in Int : e = d % Word /\ e \in 0 .. Word - 1
  BY ModIn
<1>3. (r + s + e) % Word = v
  <2>1. PICK f \in Int : f = r + s
    OBVIOUS
  <2>2. (f + e) % Word = (d + f) % Word
    BY <1>2, ModStep
  <2>3. d + f = v
    BY <1>1, <2>1
  <2>4. v % Word = v
    BY ModSmall
  <2> QED
    BY <2>1, <2>2, <2>3, <2>4
<1> QED
  BY <1>1, <1>2, <1>3 DEF Split, Opened, Val, None

-----------------------------------------------------------------------------
(* The aggregate of the entries.                                           *)

\* h[i] is the aggregate of the first i of m entries.
Totals(h, m, entries) ==
  /\ h[0] = None /\ h[m] = AggregateOf(entries)
  /\ \A i \in 1 .. m : h[i] = Aggregate(h[i - 1], entries[i].val)

LEMMA TotalsDefined ==
  ASSUME NEW m \in Nat, NEW entries \in [1 .. m -> EntrySet]
  PROVE  \E h \in [0 .. m -> Index] : Totals(h, m, entries)
<1> DEFINE G == [i \in 1 .. m |-> [x \in Index |-> Aggregate(x, entries[i].val)]]
           Step(g) == [s \in SUBSET (1 .. m) |->
                         IF s = {} THEN None ELSE Aggregate(g[s \ {Max(s)}], entries[Max(s)].val)]
           F == CHOOSE g : g = Step(g)
<1>0. None \in Index /\ \A i \in 1 .. m : entries[i].val \in Index
  BY DEF Index, EntrySet
<1>1. AggregateOf(entries) = F[1 .. m]
  BY DEF AggregateOf, FoldLeft, MapThenFoldSet
<1>2. G \in [1 .. m -> [Index -> Index]]
  <2>1. \A i \in 1 .. m, x \in Index : Aggregate(x, entries[i].val) \in Index
    BY <1>0, AggregateType
  <2> QED
    BY <2>1
<1>3. PICK f \in [SUBSET (1 .. m) -> Index] : IsFold(f, m, None, G)
  <2> HIDE DEF G
  <2> QED
    BY <1>0, <1>2, FoldDefined
<1>4. f = Step(f)
  <2>1. ASSUME NEW s \in SUBSET (1 .. m), s # {}
        PROVE  f[s] = Aggregate(f[s \ {Max(s)}], entries[Max(s)].val)
    <3>1. Max(s) \in 1 .. m
      BY <2>1, MaxFact
    <3>2. f[s \ {Max(s)}] \in Index
      OBVIOUS
    <3>3. f[s] = G[Max(s)][f[s \ {Max(s)}]]
      BY <1>3, <2>1 DEF IsFold
    <3> QED
      BY <3>1, <3>2, <3>3
  <2>2. f[{}] = None
    <3>1. {} \in SUBSET (1 .. m)
      OBVIOUS
    <3> QED
      BY <1>3, <3>1 DEF IsFold
  <2>3. \A s \in SUBSET (1 .. m) :
          f[s] = IF s = {} THEN None ELSE Aggregate(f[s \ {Max(s)}], entries[Max(s)].val)
    BY <2>1, <2>2
  <2> QED
    BY <2>3
<1>5. F = Step(F)
  <2> HIDE DEF Step
  <2> QED
    BY <1>4
<1> DEFINE h == [i \in 0 .. m |-> F[1 .. i]]
<1> HIDE DEF F
<1>6. F[{}] = None
  BY <1>5
<1>7. h[0] = None
  BY <1>6, 1 .. 0 = {}
<1>8. ASSUME NEW i \in 1 .. m
      PROVE  h[i] = Aggregate(h[i - 1], entries[i].val)
  <2>1. Max(1 .. i) = i /\ (1 .. i) \ {Max(1 .. i)} = 1 .. i - 1
    BY MaxOfSegment
  <2>2. 1 .. i \in SUBSET (1 .. m) /\ 1 .. i # {}
    <3>1. \A x \in 1 .. i : x \in 1 .. m
      OBVIOUS
    <3>2. i \in 1 .. i
      OBVIOUS
    <3> QED
      BY <3>1, <3>2
  <2> DEFINE seg == 1 .. i
  <2>3. F[seg] = Aggregate(F[seg \ {Max(seg)}], entries[Max(seg)].val)
    <3> HIDE DEF seg
    <3>1. seg \in SUBSET (1 .. m) /\ seg # {}
      BY <2>2 DEF seg
    <3> QED
      BY <1>5, <3>1
  <2>4. h[i] = F[seg]
    OBVIOUS
  <2>5. h[i - 1] = F[1 .. i - 1]
    <3>1. i - 1 \in 0 .. m
      OBVIOUS
    <3> QED
      BY <3>1
  <2> HIDE DEF h
  <2> QED
    BY <2>1, <2>3, <2>4, <2>5
<1>9. 0 .. m \subseteq {i \in 0 .. m : h[i] \in Index}
  <2> DEFINE S == {i \in 0 .. m : h[i] \in Index}
  <2>1. 0 \in S
    BY <1>0, <1>7
  <2>2. \A i \in 0 .. m - 1 : i \in S => i + 1 \in S
    <3> SUFFICES ASSUME NEW i \in 0 .. m - 1, i \in S
                 PROVE  i + 1 \in S
      OBVIOUS
    <3>1. i + 1 \in 1 .. m /\ (i + 1) - 1 = i /\ h[i] \in Index
      OBVIOUS
    <3> HIDE DEF h
    <3>2. h[i + 1] = Aggregate(h[i], entries[i + 1].val)
      BY <1>8, <3>1
    <3>3. h[i + 1] \in Index
      BY <1>0, <3>1, <3>2, AggregateType
    <3> QED
      BY <3>1, <3>3
  <2> HIDE DEF S
  <2>3. 0 .. m \subseteq S
    BY <2>1, <2>2, BoundedInduction
  <2> QED
    BY <2>3 DEF S
<1>10. h \in [0 .. m -> Index]
  BY <1>9
<1>11. h[m] = AggregateOf(entries)
  BY <1>1
<1> QED
  BY <1>7, <1>8, <1>10, <1>11 DEF Totals

\* One more entry.
LEMMA AggregateAppend ==
  ASSUME NEW entries \in Seq(EntrySet), NEW e \in EntrySet
  PROVE  AggregateOf(Append(entries, e)) = Aggregate(AggregateOf(entries), e.val)
<1>1. PICK m \in Nat : m = Len(entries) /\ entries \in [1 .. m -> EntrySet]
  OBVIOUS
<1>2. PICK more : more = Append(entries, e)
  OBVIOUS
<1>3. /\ more \in [1 .. m + 1 -> EntrySet] /\ more[m + 1] = e
      /\ \A i \in 1 .. m : more[i] = entries[i]
  <2>1. /\ Append(entries, e) \in Seq(EntrySet) /\ Len(Append(entries, e)) = m + 1
        /\ Append(entries, e)[m + 1] = e
        /\ \A i \in 1 .. m : Append(entries, e)[i] = entries[i]
    BY <1>1, AppendProperties
  <2>2. PICK n \in Nat : n = m + 1
    OBVIOUS
  <2>3. more \in Seq(EntrySet) /\ Len(more) = n /\ \A i \in 1 .. m : more[i] = entries[i]
    BY <1>2, <2>1, <2>2
  <2>4. more \in [1 .. n -> EntrySet]
    BY <2>3
  <2>5. more[m + 1] = e
    BY <1>2, <2>1
  <2> QED
    BY <2>2, <2>3, <2>4, <2>5
<1>4. PICK h \in [0 .. m -> Index] : Totals(h, m, entries)
  BY <1>1, TotalsDefined
<1>5. PICK g \in [0 .. m + 1 -> Index] : Totals(g, m + 1, more)
  <2>1. PICK n \in Nat : n = m + 1
    OBVIOUS
  <2>2. more \in [1 .. n -> EntrySet]
    BY <1>3, <2>1
  <2>3. \E g \in [0 .. n -> Index] : Totals(g, n, more)
    BY <2>2, TotalsDefined
  <2> QED
    BY <2>1, <2>3
<1> DEFINE S == {i \in 0 .. m : g[i] = h[i]}
<1>6. 0 \in S
  BY <1>4, <1>5 DEF Totals
<1>7. ASSUME NEW i \in 0 .. m - 1, i \in S
      PROVE  i + 1 \in S
  <2>1. i + 1 \in 1 .. m /\ i + 1 \in 1 .. m + 1 /\ (i + 1) - 1 = i /\ i + 1 \in 0 .. m
    OBVIOUS
  <2>2. h[i + 1] = Aggregate(h[i], entries[i + 1].val)
    BY <1>4, <2>1 DEF Totals
  <2>3. g[i + 1] = Aggregate(g[i], more[i + 1].val)
    BY <1>5, <2>1 DEF Totals
  <2>4. g[i] = h[i] /\ more[i + 1] = entries[i + 1]
    BY <1>3, <1>7, <2>1
  <2> QED
    BY <2>1, <2>2, <2>3, <2>4
<1>8. 0 .. m \subseteq S
  <2> HIDE DEF S
  <2>1. \A i \in 0 .. m - 1 : i \in S => i + 1 \in S
    BY <1>7
  <2> QED
    BY <1>6, <2>1, BoundedInduction
<1>9. g[m] = h[m]
  BY <1>8
<1>10. m + 1 \in 1 .. m + 1 /\ (m + 1) - 1 = m
  OBVIOUS
<1>11. g[m + 1] = Aggregate(g[m], more[m + 1].val)
  BY <1>5, <1>10 DEF Totals
<1>12. g[m + 1] = AggregateOf(more) /\ h[m] = AggregateOf(entries)
  BY <1>4, <1>5 DEF Totals
<1> QED
  BY <1>2, <1>3, <1>9, <1>11, <1>12

\* No entry has no aggregate.
LEMMA AggregateNone == AggregateOf(<<>>) = None
<1>1. <<>> \in [1 .. 0 -> EntrySet]
  OBVIOUS
<1>2. PICK h \in [0 .. 0 -> Index] : Totals(h, 0, <<>>)
  BY <1>1, TotalsDefined
<1> QED
  BY <1>2 DEF Totals

-----------------------------------------------------------------------------
(* The shares of a tree.                                                   *)

\* A value in the clear.
LEMMA ClearIs ==
  ASSUME NEW T, ValuesOK(T)
  PROVE  /\ \A p : Clear(T, p) \in Val
         /\ \A p : p \notin DOMAIN T[0] => Clear(T, p) = None
         /\ \A p \in DOMAIN T[0] :
              /\ Clear(T, p) = Opened(T[0][p].agg, T[1][p].agg, T[2][p].agg)
              /\ Split(T[0][p].agg, T[1][p].agg, T[2][p].agg)
<1>1. \A p : p \notin DOMAIN T[0] => Clear(T, p) = None
  BY DEF Clear
<1>2. \A p \in DOMAIN T[0] :
         /\ Clear(T, p) = Opened(T[0][p].agg, T[1][p].agg, T[2][p].agg)
         /\ Split(T[0][p].agg, T[1][p].agg, T[2][p].agg)
  BY DEF Clear, Opened, ValuesOK
<1>3. \A p \in DOMAIN T[0] : Clear(T, p) \in Val
  BY <1>2, OpenedIn
<1>4. None \in Val
  BY DEF Val
<1> QED
  BY <1>1, <1>2, <1>3, <1>4

\* Node q has the shares of node p.
SharesOf(T, p, U, q) ==
  /\ p \in DOMAIN T[0] /\ q \in DOMAIN U[0]
  /\ \A j \in Server : U[j][q].agg = T[j][p].agg

LEMMA ClearSame ==
  ASSUME NEW T, NEW U, ValuesOK(T), NEW p, NEW q, SharesOf(T, p, U, q)
  PROVE  /\ Clear(U, q) = Clear(T, p)
         /\ Split(U[0][q].agg, U[1][q].agg, U[2][q].agg)
<1>1. /\ U[0][q].agg = T[0][p].agg /\ U[1][q].agg = T[1][p].agg /\ U[2][q].agg = T[2][p].agg
      /\ p \in DOMAIN T[0] /\ q \in DOMAIN U[0]
  BY DEF Server, SharesOf
<1>2. Split(T[0][p].agg, T[1][p].agg, T[2][p].agg)
  BY <1>1 DEF ValuesOK
<1> QED
  BY <1>1, <1>2 DEF Clear

\* The shares of node q are the sums of those of p and r.
SharesAdded(T, p, r, U, q) ==
  /\ p \in DOMAIN T[0] /\ r \in DOMAIN T[0] /\ q \in DOMAIN U[0]
  /\ \A j \in Server : U[j][q].agg = Aggregate(T[j][p].agg, T[j][r].agg)

LEMMA ClearSum ==
  ASSUME AggFunc = "sum", NEW T, NEW U, ValuesOK(T), NEW p, NEW r, NEW q, SharesAdded(T, p, r, U, q)
  PROVE  /\ Clear(U, q) = Aggregate(Clear(T, p), Clear(T, r))
         /\ Split(U[0][q].agg, U[1][q].agg, U[2][q].agg)
<1>1. /\ U[0][q].agg = Aggregate(T[0][p].agg, T[0][r].agg)
      /\ U[1][q].agg = Aggregate(T[1][p].agg, T[1][r].agg)
      /\ U[2][q].agg = Aggregate(T[2][p].agg, T[2][r].agg)
      /\ p \in DOMAIN T[0] /\ r \in DOMAIN T[0] /\ q \in DOMAIN U[0]
  BY DEF Server, SharesAdded
<1>2. /\ Split(T[0][p].agg, T[1][p].agg, T[2][p].agg)
      /\ Split(T[0][r].agg, T[1][r].agg, T[2][r].agg)
  BY <1>1 DEF ValuesOK
<1>3. /\ Split(U[0][q].agg, U[1][q].agg, U[2][q].agg)
      /\ Opened(U[0][q].agg, U[1][q].agg, U[2][q].agg)
           = Aggregate(Opened(T[0][p].agg, T[1][p].agg, T[2][p].agg),
                       Opened(T[0][r].agg, T[1][r].agg, T[2][r].agg))
  BY <1>1, <1>2, OpenedSum
<1>4. Clear(U, q) = Opened(U[0][q].agg, U[1][q].agg, U[2][q].agg)
  BY <1>1 DEF Clear, Opened
<1>5. /\ Clear(T, p) = Opened(T[0][p].agg, T[1][p].agg, T[2][p].agg)
      /\ Clear(T, r) = Opened(T[0][r].agg, T[1][r].agg, T[2][r].agg)
  BY <1>1, ClearIs
<1> QED
  BY <1>3, <1>4, <1>5

\* All three shares of a tree are rolled up.
AllRolled(T, U) ==
  /\ \A j \in Server : DOMAIN T[j] = Paths /\ Rolled(T[j], U[j])
  /\ ValuesOK(T) /\ ChildrenOK(T)

\* What a roll-up does to the aggregates of nodes.
RolledClear(T, U) ==
  /\ Clear(U, <<"L">>) = Aggregate(Clear(T, <<"L">>), Clear(T, <<"R", "L">>))
  /\ Clear(U, <<>>) = Aggregate(Clear(U, <<"L">>), Clear(T, <<"R", "R">>))
  /\ Clear(U, <<"R">>) = Clear(T, <<"R", "R">>)
  /\ \A q \in Paths : Len(q) >= 2 /\ Corner(q) => Clear(U, q) = None
  /\ \A q \in Paths : Len(q) >= 2 /\ ~ Corner(q) => Clear(U, q) = Clear(T, Origin(q))

LEMMA RolledValues ==
  ASSUME AggFunc = "sum", NEW T, NEW U, AllRolled(T, U)
  PROVE  ValuesOK(U) /\ RolledClear(T, U)
<1>1. /\ ValuesOK(T) /\ \A j \in Server : DOMAIN T[j] = Paths /\ Rolled(T[j], U[j])
      /\ 0 \in Server /\ 1 \in Server /\ 2 \in Server
  BY DEF AllRolled, Server
<1>2. \A j \in Server : DOMAIN U[j] = {q \in Paths : q \in Inner \/ ~ Corner(q)}
  BY <1>1 DEF Rolled
<1>3. DOMAIN U[0] = DOMAIN U[1] /\ DOMAIN U[0] = DOMAIN U[2] /\ DOMAIN T[0] = Paths
  BY <1>1, <1>2
<1>4. /\ <<>> \in Inner /\ <<"L">> \in Inner /\ <<"R">> \in Inner
      /\ <<"R", "L">> \in Inner /\ <<"R", "R">> \in Inner /\ Inner \subseteq Paths
  BY FirstLevels, SecondLevel, InnerPaths
<1>5. /\ <<>> \in DOMAIN U[0] /\ <<"L">> \in DOMAIN U[0] /\ <<"R">> \in DOMAIN U[0]
      /\ <<"L">> \in DOMAIN T[0] /\ <<"R", "L">> \in DOMAIN T[0] /\ <<"R", "R">> \in DOMAIN T[0]
  BY <1>1, <1>2, <1>3, <1>4
<1>6. /\ \A j \in Server : U[j][<<"L">>].agg = Aggregate(T[j][<<"L">>].agg, T[j][<<"R", "L">>].agg)
      /\ \A j \in Server : U[j][<<"R">>].agg = T[j][<<"R", "R">>].agg
      /\ \A j \in Server : U[j][<<>>].agg = Aggregate(U[j][<<"L">>].agg, T[j][<<"R", "R">>].agg)
  <2>1. ASSUME NEW j \in Server
        PROVE  /\ U[j][<<"L">>].agg = Aggregate(T[j][<<"L">>].agg, T[j][<<"R", "L">>].agg)
               /\ U[j][<<"R">>].agg = T[j][<<"R", "R">>].agg
               /\ U[j][<<>>].agg = Aggregate(U[j][<<"L">>].agg, T[j][<<"R", "R">>].agg)
    <3>1. U[j][<<>>] = NewRoot(T[j]) /\ U[j][<<"L">>] = OldRoot(T[j]) /\ U[j][<<"R">>] = NewRight(T[j])
      BY <1>1 DEF Rolled
    <3>2. OldRoot(T[j]).agg = Aggregate(T[j][<<"L">>].agg, T[j][<<"R", "L">>].agg)
      BY DEF OldRoot
    <3>3. NewRoot(T[j]).agg = Aggregate(OldRoot(T[j]).agg, T[j][<<"R", "R">>].agg)
      BY DEF NewRoot
    <3>4. NewRight(T[j]).agg = T[j][<<"R", "R">>].agg
      BY DEF NewRight
    <3> QED
      BY <3>1, <3>2, <3>3, <3>4
  <2> QED
    BY <2>1
<1>7. /\ Clear(U, <<"L">>) = Aggregate(Clear(T, <<"L">>), Clear(T, <<"R", "L">>))
      /\ Split(U[0][<<"L">>].agg, U[1][<<"L">>].agg, U[2][<<"L">>].agg)
  <2>1. PICK l : l = <<"L">>
    OBVIOUS
  <2>2. PICK rl : rl = <<"R", "L">>
    OBVIOUS
  <2>3. Clear(U, l) = Aggregate(Clear(T, l), Clear(T, rl)) /\ Split(U[0][l].agg, U[1][l].agg, U[2][l].agg)
    <3>1. SharesAdded(T, l, rl, U, l)
      BY <1>5, <1>6, <2>1, <2>2 DEF SharesAdded
    <3> QED
      BY <1>1, <3>1, ClearSum
  <2> QED
    BY <2>1, <2>2, <2>3
<1>8. /\ Clear(U, <<"R">>) = Clear(T, <<"R", "R">>)
      /\ Split(U[0][<<"R">>].agg, U[1][<<"R">>].agg, U[2][<<"R">>].agg)
  <2>1. PICK r : r = <<"R">>
    OBVIOUS
  <2>2. PICK rr : rr = <<"R", "R">>
    OBVIOUS
  <2>3. Clear(U, r) = Clear(T, rr) /\ Split(U[0][r].agg, U[1][r].agg, U[2][r].agg)
    <3>1. SharesOf(T, rr, U, r)
      BY <1>5, <1>6, <2>1, <2>2 DEF SharesOf
    <3> QED
      BY <1>1, <3>1, ClearSame
  <2> QED
    BY <2>1, <2>2, <2>3
<1>9. /\ Clear(U, <<>>) = Aggregate(Clear(U, <<"L">>), Clear(T, <<"R", "R">>))
      /\ Split(U[0][<<>>].agg, U[1][<<>>].agg, U[2][<<>>].agg)
  <2>1. PICK o : o = <<>>
    OBVIOUS
  <2>2. PICK l : l = <<"L">>
    OBVIOUS
  <2>3. PICK rr : rr = <<"R", "R">>
    OBVIOUS
  <2>4. /\ U[0][o].agg = Aggregate(U[0][l].agg, T[0][rr].agg)
        /\ U[1][o].agg = Aggregate(U[1][l].agg, T[1][rr].agg)
        /\ U[2][o].agg = Aggregate(U[2][l].agg, T[2][rr].agg)
    BY <1>1, <1>6, <2>1, <2>2, <2>3
  <2>5. Split(U[0][l].agg, U[1][l].agg, U[2][l].agg) /\ Split(T[0][rr].agg, T[1][rr].agg, T[2][rr].agg)
    BY <1>1, <1>5, <1>7, <2>2, <2>3, ClearIs
  <2>6. /\ Split(U[0][o].agg, U[1][o].agg, U[2][o].agg)
        /\ Opened(U[0][o].agg, U[1][o].agg, U[2][o].agg)
             = Aggregate(Opened(U[0][l].agg, U[1][l].agg, U[2][l].agg),
                         Opened(T[0][rr].agg, T[1][rr].agg, T[2][rr].agg))
    BY <2>4, <2>5, OpenedSum
  <2>7. /\ Clear(U, o) = Opened(U[0][o].agg, U[1][o].agg, U[2][o].agg)
        /\ Clear(U, l) = Opened(U[0][l].agg, U[1][l].agg, U[2][l].agg)
        /\ Clear(T, rr) = Opened(T[0][rr].agg, T[1][rr].agg, T[2][rr].agg)
    BY <1>5, <2>1, <2>2, <2>3 DEF Clear, Opened
  <2> QED
    BY <2>1, <2>2, <2>3, <2>6, <2>7
<1>10. ASSUME NEW q \in Paths, Len(q) >= 2, Corner(q)
       PROVE  /\ Clear(U, q) = None
              /\ q \in DOMAIN U[0] => Split(U[0][q].agg, U[1][q].agg, U[2][q].agg)
  <2>1. CASE q \in Inner
    <3>1. U[0][q] = EmptyNode /\ U[1][q] = EmptyNode /\ U[2][q] = EmptyNode
      BY <1>1, <1>10, <2>1 DEF Rolled
    <3>2. U[0][q].agg = None /\ U[1][q].agg = None /\ U[2][q].agg = None
      BY <3>1 DEF EmptyNode
    <3> QED
      BY <3>2 DEF Clear, Opened, Split, Val
  <2>2. CASE q \notin Inner
    <3>1. q \notin DOMAIN U[0]
      BY <1>1, <1>2, <1>10, <2>2
    <3> QED
      BY <3>1 DEF Clear
  <2> QED
    BY <2>1, <2>2
<1>11. ASSUME NEW q \in Paths, Len(q) >= 2, ~ Corner(q)
       PROVE  /\ Clear(U, q) = Clear(T, Origin(q))
              /\ Split(U[0][q].agg, U[1][q].agg, U[2][q].agg)
  <2>1. PICK o \in Paths : o = Origin(q)
    BY <1>11, OriginFact DEF OriginIs
  <2>2. q \in DOMAIN U[0] /\ o \in DOMAIN T[0]
    BY <1>1, <1>2, <1>11
  <2>3. \A j \in Server : U[j][q] = T[j][o]
    BY <1>1, <1>11, <2>1 DEF Rolled
  <2>4. \A j \in Server : U[j][q].agg = T[j][o].agg
    BY <2>3
  <2>5. SharesOf(T, o, U, q)
    BY <2>2, <2>4 DEF SharesOf
  <2> QED
    BY <1>1, <2>1, <2>5, ClearSame
<1>12. ASSUME NEW q \in DOMAIN U[0]
       PROVE  Split(U[0][q].agg, U[1][q].agg, U[2][q].agg)
  <2>1. q \in Paths /\ Len(q) \in Nat
    BY <1>1, <1>2, PathFact
  <2>2. CASE Len(q) >= 2
    BY <1>10, <1>11, <1>12, <2>1, <2>2
  <2>3. CASE Len(q) < 2
    <3>1. q = <<>> \/ q = <<"L">> \/ q = <<"R">>
      BY <2>1, <2>3, FirstLevels
    <3> QED
      BY <1>7, <1>8, <1>9, <3>1, Zenon
  <2> QED
    BY <2>1, <2>2, <2>3
<1>13. ValuesOK(U)
  BY <1>3, <1>12 DEF ValuesOK
<1> QED
  BY <1>7, <1>8, <1>9, <1>10, <1>11, <1>13 DEF RolledClear

\* A roll-up keeps the aggregates right.
LEMMA RolledShares ==
  ASSUME AggFunc = "sum", NEW T, NEW U, AllRolled(T, U)
  PROVE  ValuesOK(U) /\ ChildrenOK(U) /\ Clear(U, <<>>) = Clear(T, <<>>)
<1>1. ValuesOK(U) /\ RolledClear(T, U)
  BY RolledValues
<1>2. ValuesOK(T) /\ ChildrenOK(T)
  BY DEF AllRolled
<1>3. \A p : Clear(T, p) \in Val /\ Clear(U, p) \in Val
  BY <1>1, <1>2, ClearIs
<1>4. /\ <<>> \in Inner /\ <<"L">> \in Inner /\ <<"R">> \in Inner
      /\ <<"R", "L">> \in Inner /\ <<"R", "R">> \in Inner /\ Inner \subseteq Paths
  BY FirstLevels, SecondLevel, InnerPaths
<1>5. /\ <<"L">> = Append(<<>>, "L") /\ <<"R">> = Append(<<>>, "R")
      /\ <<"R", "L">> = Append(<<"R">>, "L") /\ <<"R", "R">> = Append(<<"R">>, "R")
  BY FirstLevels, SecondLevel
<1>6. Clear(U, <<>>) = Clear(T, <<>>)
  <2>1. Clear(T, <<>>) = Aggregate(Clear(T, <<"L">>), Clear(T, <<"R">>))
    BY <1>2, <1>4, <1>5 DEF ChildrenOK
  <2>2. Clear(T, <<"R">>) = Aggregate(Clear(T, <<"R", "L">>), Clear(T, <<"R", "R">>))
    BY <1>2, <1>4, <1>5 DEF ChildrenOK
  <2>3. Clear(U, <<>>)
          = Aggregate(Aggregate(Clear(T, <<"L">>), Clear(T, <<"R", "L">>)), Clear(T, <<"R", "R">>))
    BY <1>1 DEF RolledClear
  <2>4. PICK a \in Val, b \in Val, c \in Val :
          a = Clear(T, <<"L">>) /\ b = Clear(T, <<"R", "L">>) /\ c = Clear(T, <<"R", "R">>)
    BY <1>3
  <2>5. Aggregate(Aggregate(a, b), c) = Aggregate(a, Aggregate(b, c))
    BY SumAssoc
  <2> QED
    BY <2>1, <2>2, <2>3, <2>4, <2>5
<1>7. ASSUME NEW p \in Inner
      PROVE  Clear(U, p) = Aggregate(Clear(U, Append(p, "L")), Clear(U, Append(p, "R")))
  <2>0. p \in Paths /\ Len(p) \in Nat
    BY <1>4, PathFact
  <2>1. PICK l \in Paths, r \in Paths : l = Append(p, "L") /\ r = Append(p, "R")
    BY StepFact
  <2>2. /\ Len(l) = Len(p) + 1 /\ l[Len(p) + 1] = "L" /\ \A i \in 1 .. Len(p) : l[i] = p[i]
        /\ Len(r) = Len(p) + 1 /\ r[Len(p) + 1] = "R" /\ \A i \in 1 .. Len(p) : r[i] = p[i]
    BY <2>1, StepFact
  <2>3. CASE Len(p) >= 2 /\ ~ Corner(p)
    <3>1. /\ Len(l) >= 2 /\ ~ Corner(l) /\ Origin(l) = Append(Origin(p), "L")
          /\ Len(r) >= 2 /\ ~ Corner(r) /\ Origin(r) = Append(Origin(p), "R")
      BY <2>1, <2>3, OriginChild
    <3>2. Origin(p) \in Inner
      BY <2>0, <2>3, OriginFact
    <3>3. Clear(U, p) = Clear(T, Origin(p)) /\ Clear(U, l) = Clear(T, Origin(l))
          /\ Clear(U, r) = Clear(T, Origin(r))
      BY <1>1, <2>0, <2>3, <3>1 DEF RolledClear
    <3>4. Clear(T, Origin(p)) = Aggregate(Clear(T, Append(Origin(p), "L")), Clear(T, Append(Origin(p), "R")))
      BY <1>2, <3>2 DEF ChildrenOK
    <3> QED
      BY <2>1, <3>1, <3>3, <3>4
  <2>4. CASE Len(p) >= 2 /\ Corner(p)
    <3>1. Corner(l) /\ Corner(r)
      <4>1. 1 \in 1 .. Len(p) /\ 2 \in 1 .. Len(p) /\ Len(l) >= 2 /\ Len(r) >= 2
        BY <2>0, <2>2, <2>4
      <4> QED
        BY <2>2, <2>4, <4>1 DEF Corner
    <3>2. Clear(U, p) = None /\ Clear(U, l) = None /\ Clear(U, r) = None
      <4>1. Len(l) >= 2 /\ Len(r) >= 2
        BY <3>1 DEF Corner
      <4> QED
        BY <1>1, <2>0, <2>4, <3>1, <4>1 DEF RolledClear
    <3> QED
      BY <2>1, <3>2 DEF Aggregate
  <2>5. CASE p = <<>>
    BY <1>1, <1>5, <2>5 DEF RolledClear
  <2>6. CASE p = <<"L">>
    <3>1. Len(p) = 1 /\ p[1] = "L"
      BY <2>6
    <3>2. /\ Len(l) = 2 /\ l[1] = "L" /\ l[2] = "L"
          /\ Len(r) = 2 /\ r[1] = "L" /\ r[2] = "R"
      BY <2>2, <3>1
    <3>3. ~ Corner(l) /\ ~ Corner(r) /\ Len(l) >= 2 /\ Len(r) >= 2
      BY <3>2 DEF Corner
    <3>4. PICK o \in Paths, u \in Paths : o = Origin(l) /\ u = Origin(r) /\ OriginIs(l, o) /\ OriginIs(r, u)
      BY <3>3, OriginFact DEF OriginIs
    <3>5. Len(o) = 1 /\ o[1] = "L"
      BY <3>2, <3>4 DEF OriginIs
    <3>6. Len(u) = 2 /\ u[1] = "R" /\ u[2] = "L"
      BY <3>2, <3>4 DEF OriginIs
    <3>7. o = <<"L">>
      BY <2>0, <2>6, <3>1, <3>5, PathEqual
    <3>8. u = <<"R", "L">>
      <4>1. PICK x \in Paths : x = <<"R", "L">>
        BY <1>4
      <4>2. Len(x) = 2 /\ x[1] = "R" /\ x[2] = "L"
        BY <4>1
      <4>3. \A i \in 1 .. Len(u) : i = 1 \/ i = 2
        BY <3>6
      <4>4. u = x
        BY <3>6, <4>2, <4>3, PathEqual
      <4> QED
        BY <4>1, <4>4
    <3>9. Clear(U, l) = Clear(T, <<"L">>) /\ Clear(U, r) = Clear(T, <<"R", "L">>)
      BY <1>1, <3>3, <3>4, <3>7, <3>8 DEF RolledClear
    <3> QED
      BY <1>1, <2>1, <2>6, <3>9 DEF RolledClear
  <2>7. CASE p = <<"R">>
    <3>1. Len(p) = 1 /\ p[1] = "R"
      BY <2>7
    <3>2. /\ Len(l) = 2 /\ l[1] = "R" /\ l[2] = "L"
          /\ Len(r) = 2 /\ r[1] = "R" /\ r[2] = "R"
      BY <2>2, <3>1
    <3>3. ~ Corner(l) /\ Corner(r) /\ Len(l) >= 2 /\ Len(r) >= 2
      BY <3>2 DEF Corner
    <3>4. PICK o \in Paths : o = Origin(l) /\ OriginIs(l, o)
      BY <3>3, OriginFact DEF OriginIs
    <3>5. Len(o) = 2 /\ o[1] = "R" /\ o[2] = "R"
      BY <3>2, <3>4 DEF OriginIs
    <3>6. o = <<"R", "R">>
      <4>1. PICK x \in Paths : x = <<"R", "R">>
        BY <1>4
      <4>2. Len(x) = 2 /\ x[1] = "R" /\ x[2] = "R"
        BY <4>1
      <4>3. \A i \in 1 .. Len(o) : i = 1 \/ i = 2
        BY <3>5
      <4>4. o = x
        BY <3>5, <4>2, <4>3, PathEqual
      <4> QED
        BY <4>1, <4>4
    <3>7. Clear(U, l) = Clear(T, <<"R", "R">>) /\ Clear(U, r) = None
      BY <1>1, <3>3, <3>4, <3>6 DEF RolledClear
    <3>8. Aggregate(Clear(U, l), Clear(U, r)) = Clear(U, l)
      BY <1>3, <3>7, SumIs
    <3> QED
      BY <1>1, <2>1, <2>7, <3>7, <3>8 DEF RolledClear
  <2>8. Len(p) < 2 => p \in {<<>>, <<"L">>, <<"R">>}
    BY <2>0, FirstLevels
  <2>9. Len(p) < 2 \/ Len(p) >= 2
    BY <2>0
  <2> QED
    BY <2>3, <2>4, <2>5, <2>6, <2>7, <2>8, <2>9
<1> QED
  BY <1>1, <1>6, <1>7 DEF ChildrenOK

\* The aggregates of the nodes on the way to a new leaf are what the client sent.
LEMMA GrewAgg ==
  ASSUME NEW t, NEW u, NEW e, NEW idx, NEW aggs, Grew(t, u, e, idx, aggs)
  PROVE  \A k \in 0 .. Depth - 1 : Top(e, k) \in DOMAIN u /\ u[Top(e, k)].agg = aggs[Depth - k]
<1>1. GrewOK(t, u, e) /\ PutBelow(t, u, e, idx, aggs) /\ \A k \in 0 .. Depth - 2 : WentUp(t, u, e, k)
  BY GrewKnown, ClimbedFact DEF Grew
<1>2. /\ TreeOK(t) /\ TreeOK(u) /\ e \in Paths /\ Len(e) = Depth - 1 /\ DOMAIN u = DOMAIN t \cup {e}
  BY <1>1 DEF GrewOK
<1>3. ASSUME NEW k \in 0 .. Depth - 2
      PROVE  Top(e, k) \in DOMAIN u /\ u[Top(e, k)].agg = aggs[Depth - k]
  <2>1. Top(e, k) \in DOMAIN t /\ t[Top(e, k)] \in Node /\ e[k + 1] \in {"L", "R"}
    BY <1>1, <1>2, AboveFact DEF WentUp, TreeOK
  <2>2. PICK c, cr : c = u[Top(e, k + 1)] /\ cr = RightIdx(u, Append(Top(e, k + 1), "R"))
    OBVIOUS
  <2>3. u[Top(e, k)] = [Widen(t[Top(e, k)], e[k + 1], c, cr) EXCEPT !.agg = aggs[Depth - k]]
    BY <1>1, <2>2 DEF PutBelow, Climbed
  <2>4. Widen(t[Top(e, k)], e[k + 1], c, cr) = WidenTo(t[Top(e, k)], e[k + 1], c, cr)
    BY <2>1, WidenIs
  <2>5. [WidenTo(t[Top(e, k)], e[k + 1], c, cr) EXCEPT !.agg = aggs[Depth - k]].agg = aggs[Depth - k]
    BY DEF WidenTo
  <2> QED
    BY <1>2, <2>1, <2>3, <2>4, <2>5
<1>4. CASE TRUE
  <2>1. Top(e, Depth - 1) = e /\ e \in DOMAIN u
    BY <1>2, AboveFact
  <2>2. u[e].agg = aggs[1]
    BY <1>1 DEF PutBelow
  <2>3. Depth - (Depth - 1) = 1 /\ \A k \in 0 .. Depth - 1 : k = Depth - 1 \/ k \in 0 .. Depth - 2
    BY DepthAssumption
  <2> QED
    BY <1>3, <2>1, <2>2, <2>3
<1> QED
  BY <1>4

\* A leaf with the value val is appended to all three shares of a tree.
AllGrew(T, U, e, idx, A, val) ==
  /\ \A j \in Server : Grew(T[j], U[j], e, idx, A[j])
  /\ ValuesOK(T) /\ ChildrenOK(T) /\ val \in 0 .. Word - 1 /\ SharesSent(T, e, A, val)

LEMMA GrewValues ==
  ASSUME NEW T, NEW U, NEW e, NEW idx, NEW A, NEW val, AllGrew(T, U, e, idx, A, val)
  PROVE  /\ ValuesOK(U)
         /\ \A k \in 0 .. Depth - 1 : Clear(U, Top(e, k)) = Aggregate(Clear(T, Top(e, k)), val)
         /\ \A q : q # e /\ OffPath(e, q, 0) => Clear(U, q) = Clear(T, q)
<1>1. /\ ValuesOK(T) /\ \A j \in Server : Grew(T[j], U[j], e, idx, A[j])
      /\ 0 \in Server /\ 1 \in Server /\ 2 \in Server
  BY DEF AllGrew, Server
<1>2. \A j \in Server : GrewOK(T[j], U[j], e)
  BY <1>1, GrewKnown
<1>3. /\ DOMAIN T[0] = DOMAIN T[1] /\ DOMAIN T[0] = DOMAIN T[2]
      /\ \A j \in Server : DOMAIN U[j] = DOMAIN T[j] \cup {e}
  BY <1>1, <1>2 DEF ValuesOK, GrewOK
<1>4. DOMAIN U[0] = DOMAIN U[1] /\ DOMAIN U[0] = DOMAIN U[2]
  BY <1>1, <1>3
<1>5. ASSUME NEW k \in 0 .. Depth - 1
      PROVE  /\ Clear(U, Top(e, k)) = Aggregate(Clear(T, Top(e, k)), val)
             /\ Split(U[0][Top(e, k)].agg, U[1][Top(e, k)].agg, U[2][Top(e, k)].agg)
  <2>1. PICK q : q = Top(e, k)
    OBVIOUS
  <2>2. \A j \in Server : q \in DOMAIN U[j] /\ U[j][q].agg = A[j][Depth - k]
    BY <1>1, <2>1, GrewAgg
  <2>3. /\ U[0][q].agg = A[0][Depth - k] /\ U[1][q].agg = A[1][Depth - k]
        /\ U[2][q].agg = A[2][Depth - k] /\ q \in DOMAIN U[0]
    BY <1>1, <2>2
  <2>4. /\ Split(A[0][Depth - k], A[1][Depth - k], A[2][Depth - k])
        /\ Opened(A[0][Depth - k], A[1][Depth - k], A[2][Depth - k]) = Aggregate(Clear(T, q), val)
    BY <2>1 DEF AllGrew, SharesSent
  <2>5. Clear(U, q) = Opened(U[0][q].agg, U[1][q].agg, U[2][q].agg)
    BY <2>3 DEF Clear, Opened
  <2> QED
    BY <2>1, <2>3, <2>4, <2>5
<1>6. ASSUME NEW q, q # e, OffPath(e, q, 0)
      PROVE  /\ Clear(U, q) = Clear(T, q)
             /\ q \in DOMAIN U[0] => Split(U[0][q].agg, U[1][q].agg, U[2][q].agg)
  <2>1. CASE q \in DOMAIN T[0]
    <3>1. \A j \in Server : q \in DOMAIN T[j] /\ U[j][q] = T[j][q]
      <4>1. q \in DOMAIN T[0] /\ q \in DOMAIN T[1] /\ q \in DOMAIN T[2]
        BY <1>3, <2>1
      <4>2. \A j \in Server : q \in DOMAIN T[j]
        BY <4>1 DEF Server
      <4> QED
        BY <1>2, <1>6, <4>2 DEF GrewOK
    <3>2. \A j \in Server : U[j][q].agg = T[j][q].agg
      BY <3>1
    <3>3. q \in DOMAIN U[0]
      BY <1>1, <1>3, <2>1
    <3>4. SharesOf(T, q, U, q)
      BY <2>1, <3>2, <3>3 DEF SharesOf
    <3>5. ValuesOK(T)
      BY <1>1
    <3>6. Clear(U, q) = Clear(T, q) /\ Split(U[0][q].agg, U[1][q].agg, U[2][q].agg)
      BY <3>4, <3>5, ClearSame
    <3> QED
      BY <3>6
  <2>2. CASE q \notin DOMAIN T[0]
    <3>0. DOMAIN U[0] = DOMAIN T[0] \cup {e}
      BY <1>1, <1>3
    <3>1. q \notin DOMAIN U[0]
      BY <1>6, <2>2, <3>0
    <3> QED
      BY <2>2, <3>1 DEF Clear
  <2> QED
    BY <2>1, <2>2
<1>7. ASSUME NEW q \in DOMAIN U[0]
      PROVE  Split(U[0][q].agg, U[1][q].agg, U[2][q].agg)
  <2>1. q = e \/ OffPath(e, q, 0) \/ \E k \in 0 .. Depth - 2 : q = Top(e, k)
    BY <1>1, <1>2 DEF GrewOK
  <2>2. /\ e = Top(e, Depth - 1) /\ Depth - 1 \in 0 .. Depth - 1
        /\ \A k \in 0 .. Depth - 2 : k \in 0 .. Depth - 1
    BY <1>1, <1>2, AboveFact, DepthAssumption DEF GrewOK
  <2> QED
    BY <1>5, <1>6, <2>1, <2>2
<1>8. ValuesOK(U)
  BY <1>4, <1>7 DEF ValuesOK
<1> QED
  BY <1>5, <1>6, <1>8

\* An append keeps the aggregates right.
LEMMA GrewShares ==
  ASSUME AggFunc = "sum",
         NEW T, NEW U, NEW e, NEW idx, NEW A, NEW val, AllGrew(T, U, e, idx, A, val)
  PROVE  ValuesOK(U) /\ ChildrenOK(U) /\ Clear(U, <<>>) = Aggregate(Clear(T, <<>>), val)
<1>1. /\ ValuesOK(U)
      /\ \A k \in 0 .. Depth - 1 : Clear(U, Top(e, k)) = Aggregate(Clear(T, Top(e, k)), val)
      /\ \A q : q # e /\ OffPath(e, q, 0) => Clear(U, q) = Clear(T, q)
  BY GrewValues
<1>2. ValuesOK(T) /\ ChildrenOK(T) /\ val \in Val /\ GrewOK(T[0], U[0], e)
  BY GrewKnown DEF AllGrew, Val, Server
<1>3. e \in Paths /\ Len(e) = Depth - 1 /\ Inner \subseteq DOMAIN T[0] /\ e \notin DOMAIN T[0]
  BY <1>2 DEF GrewOK, TreeOK
<1>4. \A p : Clear(T, p) \in Val
  BY <1>2, ClearIs
<1>5. Clear(U, <<>>) = Aggregate(Clear(T, <<>>), val)
  <2>1. Top(e, 0) = <<>> /\ 0 \in 0 .. Depth - 1
    BY <1>3, AboveFact, DepthAssumption
  <2> QED
    BY <1>1, <2>1
<1>6. ASSUME NEW p \in Inner
      PROVE  Clear(U, p) = Aggregate(Clear(U, Append(p, "L")), Clear(U, Append(p, "R")))
  <2>1. Clear(T, p) = Aggregate(Clear(T, Append(p, "L")), Clear(T, Append(p, "R")))
    BY <1>2 DEF ChildrenOK
  <2>2. CASE OffPath(e, p, 0)
    <3>1. \A d \in {"L", "R"} : OffPath(e, Append(p, d), 0) /\ Append(p, d) # e
      BY <1>3, <2>2, OffChild
    <3>2. p # e
      BY <1>3
    <3> QED
      BY <1>1, <2>1, <2>2, <3>1, <3>2
  <2>3. CASE ~ OffPath(e, p, 0)
    <3>1. PICK k \in 0 .. Depth - 2 : p = Top(e, k)
      BY <2>3 DEF OffPath
    <3>2. e[k + 1] \in {"L", "R"} /\ Append(p, e[k + 1]) = Top(e, k + 1)
      BY <1>3, <3>1, AboveFact
    <3>3. k \in 0 .. Depth - 1 /\ k + 1 \in 0 .. Depth - 1
      BY DepthAssumption
    <3>4. PICK a \in Val, b \in Val : a = Clear(T, Append(p, "L")) /\ b = Clear(T, Append(p, "R"))
      BY <1>4
    <3>5. Clear(U, p) = Aggregate(Aggregate(a, b), val)
      BY <1>1, <2>1, <3>1, <3>3, <3>4
    <3>6. PICK l \in Paths, r \in Paths : l = Append(p, "L") /\ r = Append(p, "R")
      BY StepFact
    <3>7. /\ p \in Paths /\ Len(p) = k /\ Len(l) = k + 1 /\ l[k + 1] = "L"
          /\ Len(r) = k + 1 /\ r[k + 1] = "R"
      <4>1. Len(p) = k
        BY <1>3, <3>1, <3>3, AboveFact
      <4> QED
        BY <3>6, <4>1, StepFact, InnerPaths
    <3>8. \A x \in {l, r} : x # Top(e, k + 1) => x # e /\ OffPath(e, x, 0)
      <4> SUFFICES ASSUME NEW x \in {l, r}, x # Top(e, k + 1)
                   PROVE  x # e /\ OffPath(e, x, 0)
        OBVIOUS
      <4>1. ASSUME NEW i \in 0 .. Depth - 1
            PROVE  x # Top(e, i)
        <5>1. Len(Top(e, i)) = i /\ Len(x) = k + 1
          BY <1>3, <3>7, AboveFact
        <5> QED
          BY <5>1
      <4>2. e = Top(e, Depth - 1) /\ Depth - 1 \in 0 .. Depth - 1 /\ \A i \in 0 .. Depth - 2 : i \in 0 .. Depth - 1
        BY <1>3, AboveFact, DepthAssumption
      <4> QED
        BY <4>1, <4>2 DEF OffPath
    <3>9. Clear(U, Top(e, k + 1)) = Aggregate(Clear(T, Top(e, k + 1)), val)
      BY <1>1, <3>3
    <3>10. l # r
      <4>1. l[k + 1] # r[k + 1]
        BY <3>7
      <4> QED
        BY <4>1
    <3>11. CASE e[k + 1] = "L"
      <4>1. l = Top(e, k + 1)
        BY <3>2, <3>6, <3>11
      <4>2. Clear(U, l) = Aggregate(a, val)
        BY <3>4, <3>6, <3>9, <4>1
      <4>3. Clear(U, r) = b
        BY <1>1, <3>4, <3>6, <3>8, <3>10, <4>1
      <4>4. Aggregate(Aggregate(a, b), val) = Aggregate(Aggregate(a, val), b)
        <5>1. Aggregate(Aggregate(a, b), val) = Aggregate(a, Aggregate(b, val))
          BY <1>2, SumAssoc
        <5>2. Aggregate(Aggregate(a, val), b) = Aggregate(a, Aggregate(val, b))
          BY <1>2, SumAssoc
        <5>3. Aggregate(b, val) = Aggregate(val, b)
          BY <1>2, SumIs
        <5> QED
          BY <5>1, <5>2, <5>3
      <4> QED
        BY <3>5, <3>6, <4>2, <4>3, <4>4
    <3>12. CASE e[k + 1] = "R"
      <4>1. r = Top(e, k + 1)
        BY <3>2, <3>6, <3>12
      <4>2. Clear(U, r) = Aggregate(b, val)
        BY <3>4, <3>6, <3>9, <4>1
      <4>3. Clear(U, l) = a
        BY <1>1, <3>4, <3>6, <3>8, <3>10, <4>1
      <4>4. Aggregate(Aggregate(a, b), val) = Aggregate(a, Aggregate(b, val))
        BY <1>2, SumAssoc
      <4> QED
        BY <3>5, <3>6, <4>2, <4>3, <4>4
    <3> QED
      BY <3>2, <3>11, <3>12
  <2> QED
    BY <2>2, <2>3
<1> QED
  BY <1>1, <1>5, <1>6 DEF ChildrenOK

-----------------------------------------------------------------------------
(* An append to the shares of a tree.                                      *)

\* All three trees go the same way.
OneShape(T) ==
  /\ \A j \in Server : ShapeOK(T[j]) /\ SameShape(T[0], T[j])
  /\ \A j \in Server :
       /\ FreeParent(T[j]) = FreeParent(T[0]) /\ Offered(T[j]) = Offered(T[0])
       /\ SameShape(Grown(T[0]), Grown(T[j])) /\ TreeOK(Grown(T[j]))
       /\ Place(Grown(T[j]), Offered(T[j])) = Place(Grown(T[0]), Offered(T[0]))

LEMMA RestShape ==
  ASSUME NEW T, NEW entries, RestOK(T, entries)
  PROVE  OneShape(T)
<1>1. \A j \in Server : ShapeOK(T[j]) /\ SameShape(T[0], T[j])
  BY DEF RestOK
<1>2. 0 \in Server
  BY DEF Server
<1>3. ASSUME NEW j \in Server
      PROVE  /\ FreeParent(T[j]) = FreeParent(T[0]) /\ Offered(T[j]) = Offered(T[0])
             /\ SameShape(Grown(T[0]), Grown(T[j])) /\ TreeOK(Grown(T[j]))
             /\ Place(Grown(T[j]), Offered(T[j])) = Place(Grown(T[0]), Offered(T[0]))
  <2>1. ShapeOK(T[0]) /\ ShapeOK(T[j]) /\ SameShape(T[0], T[j])
    BY <1>1, <1>2
  <2>2. TreeOK(T[0]) /\ TreeOK(T[j])
    BY <2>1 DEF ShapeOK
  <2>3. FreeParent(T[j]) = FreeParent(T[0])
    BY <2>1, <2>2, SameFree
  <2>4. TreeOK(Grown(T[j]))
    BY <2>1, OfferedFact
  <2> QED
    BY <2>1, <2>3, <2>4, SameFinished
<1> QED
  BY <1>1, <1>3 DEF OneShape

\* The shares that the servers answer with stand for the same tree.
LEMMA GrownShares ==
  ASSUME AggFunc = "sum", NEW T, NEW entries, RestOK(T, entries)
  PROVE  SharesOK([j \in Server |-> Grown(T[j])], entries)
<1>1. OneShape(T) /\ SharesOK(T, entries)
  BY RestShape DEF RestOK
<1>2. PICK G : G = [j \in Server |-> Grown(T[j])]
  OBVIOUS
<1>3. 0 \in Server /\ 1 \in Server /\ 2 \in Server /\ \A j \in Server : G[j] = Grown(T[j])
  BY <1>2 DEF Server
<1>4. CASE FreeParent(T[0]) = NULL
  <2>1. ASSUME NEW j \in Server
        PROVE  DOMAIN T[j] = Paths /\ Rolled(T[j], G[j])
    <3>1. ShapeOK(T[j]) /\ FreeParent(T[j]) = NULL
      BY <1>1, <1>4 DEF OneShape
    <3> QED
      BY <1>3, <3>1, OfferedFact
  <2>2. AllRolled(T, G)
    BY <1>1, <2>1 DEF AllRolled, SharesOK
  <2>3. ValuesOK(G) /\ ChildrenOK(G) /\ Clear(G, <<>>) = Clear(T, <<>>)
    BY <2>2, RolledShares
  <2> QED
    BY <1>1, <1>2, <2>3 DEF SharesOK
<1>5. CASE FreeParent(T[0]) # NULL
  <2>1. \A j \in Server : G[j] = T[j]
    BY <1>1, <1>3, <1>5 DEF OneShape, Grown
  <2>2. G[0] = T[0] /\ G[1] = T[1] /\ G[2] = T[2]
    BY <1>3, <2>1
  <2>3. \A p : Clear(G, p) = Clear(T, p)
    BY <2>2 DEF Clear
  <2>4. ValuesOK(G)
    BY <1>1, <2>2 DEF SharesOK, ValuesOK
  <2>5. ChildrenOK(G)
    BY <1>1, <2>3 DEF SharesOK, ChildrenOK
  <2> QED
    BY <1>1, <1>2, <2>3, <2>4, <2>5 DEF SharesOK
<1> QED
  BY <1>4, <1>5

\* What AggTreeAppend2 makes of the shares has one entry more.
LEMMA FinishedRest ==
  ASSUME NEW T, NEW entries \in Seq(EntrySet), RestOK(T, entries), NEW entry \in EntrySet,
         NEW A \in [Server -> [1 .. Depth -> Index]],
         AggFunc = "sum" => SharesSent([j \in Server |-> Grown(T[j])],
                                       Place(Grown(T[0]), Offered(T[0])), A, entry.val)
  PROVE  RestOK([j \in Server |-> Finished(T[j], entry.idx, A[j])], Append(entries, entry))
<1>1. OneShape(T)
  BY RestShape
<1>2. PICK G : G = [j \in Server |-> Grown(T[j])]
  OBVIOUS
<1>3. PICK U : U = [j \in Server |-> Finished(T[j], entry.idx, A[j])]
  OBVIOUS
<1>4. PICK e : e = Place(Grown(T[0]), Offered(T[0]))
  OBVIOUS
<1>5. /\ 0 \in Server /\ 1 \in Server /\ 2 \in Server
      /\ \A j \in Server : G[j] = Grown(T[j])
      /\ \A j \in Server : U[j] = Finished(T[j], entry.idx, A[j])
  BY <1>2, <1>3 DEF Server
<1>6. entry.idx \in Nat /\ entry.val \in 0 .. Word - 1
  BY DEF EntrySet
<1>7. ASSUME NEW j \in Server
      PROVE  Grew(G[j], U[j], e, entry.idx, A[j]) /\ ShapeOK(U[j])
  <2>1. ShapeOK(T[j]) /\ e = Place(Grown(T[j]), Offered(T[j]))
    BY <1>1, <1>4 DEF OneShape
  <2>2. A[j] \in [1 .. Depth -> Index]
    OBVIOUS
  <2> QED
    BY <1>5, <1>6, <2>1, <2>2, FinishedFact
<1>8. ASSUME NEW j \in Server
      PROVE  SameShape(U[0], U[j])
  <2>1. ShapeOK(T[0]) /\ ShapeOK(T[j]) /\ SameShape(T[0], T[j])
    BY <1>1, <1>5 DEF OneShape
  <2>2. A[0] \in [1 .. Depth -> Index] /\ A[j] \in [1 .. Depth -> Index]
    BY <1>5
  <2> QED
    BY <1>5, <1>6, <2>1, <2>2, SameFinished
<1>9. ASSUME AggFunc = "sum"
      PROVE  SharesOK(U, Append(entries, entry))
  <2>1. ValuesOK(G) /\ ChildrenOK(G) /\ Clear(G, <<>>) = AggregateOf(entries)
    BY <1>2, <1>9, GrownShares DEF SharesOK
  <2>2. SharesSent(G, e, A, entry.val)
    BY <1>2, <1>4, <1>9
  <2>3. AllGrew(G, U, e, entry.idx, A, entry.val)
    BY <1>6, <1>7, <2>1, <2>2 DEF AllGrew
  <2>4. ValuesOK(U) /\ ChildrenOK(U) /\ Clear(U, <<>>) = Aggregate(Clear(G, <<>>), entry.val)
    BY <1>9, <2>3, GrewShares
  <2>5. AggregateOf(Append(entries, entry)) = Aggregate(AggregateOf(entries), entry.val)
    BY AggregateAppend
  <2> QED
    BY <2>1, <2>4, <2>5 DEF SharesOK
<1> QED
  BY <1>3, <1>7, <1>8, <1>9 DEF RestOK

-----------------------------------------------------------------------------
(* What the client makes of the paths.                                     *)

LEMMA TopOfStep ==
  ASSUME NEW p \in Inner, NEW d \in {"L", "R"}, NEW k \in 0 .. Len(p)
  PROVE  Top(Append(p, d), k) = Top(p, k) /\ Top(p, k) \in Inner
<1>1. p \in Paths /\ Len(p) \in Nat /\ Len(p) <= Depth - 2
  BY InnerPaths, PathFact, DepthAssumption
<1>2. PICK a \in Paths : a = Append(p, d)
  BY StepFact
<1>3. Len(a) = Len(p) + 1 /\ \A i \in 1 .. Len(p) : a[i] = p[i]
  BY <1>2, StepFact
<1>4. k \in 0 .. Len(a) /\ \A i \in 1 .. k : i \in 1 .. Len(p)
  BY <1>1, <1>3
<1>5. /\ Top(a, k) \in Paths /\ Len(Top(a, k)) = k /\ \A i \in 1 .. k : Top(a, k)[i] = a[i]
      /\ Top(p, k) \in Paths /\ Len(Top(p, k)) = k /\ \A i \in 1 .. k : Top(p, k)[i] = p[i]
  BY <1>1, <1>4, TopFact
<1>6. Top(a, k) = Top(p, k)
  BY <1>3, <1>4, <1>5, PathEqual
<1>7. Top(p, k) \in Inner
  <2>1. k \in 0 .. Len(p) /\ k <= Depth - 2
    BY <1>1, DepthAssumption
  <2> QED
    BY <1>5, <2>1, PathFact
<1> QED
  BY <1>2, <1>6, <1>7

\* The path from the free place to the root.
PathIsUp(t, path) ==
  /\ path \in [1 .. Depth - 1 -> Index]
  /\ \A i \in 1 .. Depth - 1 :
       path[i] = Grown(t)[Top(Place(Grown(t), Offered(t)), Depth - 1 - i)].agg

LEMMA PathUpFact ==
  ASSUME NEW t, ShapeOK(t)
  PROVE  PathIsUp(t, PathUp(Grown(t), Offered(t)))
<1>1. PICK p : p = Offered(t)
  OBVIOUS
<1>2. PICK g : g = Grown(t)
  OBVIOUS
<1>3. p \in Inner /\ Len(p) = Depth - 2 /\ TreeOK(g)
  BY <1>1, <1>2, OfferedFact
<1>4. Len(p) + 1 = Depth - 1 /\ Depth - 1 \in Nat
  BY <1>3, DepthAssumption
<1>5. PathUp(g, p) = [i \in 1 .. Depth - 1 |-> g[Top(p, Depth - 1 - i)].agg]
  BY <1>4 DEF PathUp, Top
<1>6. ASSUME NEW i \in 1 .. Depth - 1
      PROVE  /\ Top(Place(g, p), Depth - 1 - i) = Top(p, Depth - 1 - i)
             /\ g[Top(p, Depth - 1 - i)].agg \in Index
  <2>1. Depth - 1 - i \in 0 .. Len(p)
    BY <1>3, <1>4
  <2>2. Place(g, p) = Append(p, "L") \/ Place(g, p) = Append(p, "R")
    BY DEF Place
  <2>3. Top(Place(g, p), Depth - 1 - i) = Top(p, Depth - 1 - i) /\ Top(p, Depth - 1 - i) \in Inner
    BY <1>3, <2>1, <2>2, TopOfStep
  <2>4. g[Top(p, Depth - 1 - i)] \in Node
    BY <1>3, <2>3 DEF TreeOK
  <2> QED
    BY <2>3, <2>4 DEF Node
<1>7. PICK path : path = PathUp(g, p)
  OBVIOUS
<1>8. path \in [1 .. Depth - 1 -> Index] /\ \A i \in 1 .. Depth - 1 : path[i] = g[Top(Place(g, p), Depth - 1 - i)].agg
  BY <1>5, <1>6, <1>7
<1> QED
  BY <1>1, <1>2, <1>7, <1>8 DEF PathIsUp

\* The aggregates and the shares of a Combine with the paths of T.
Sums(parents, val) ==
  [i \in 1 .. Len(parents[1][0]) + 1 |->
     IF i = 1 THEN val ELSE Aggregate(Combined(parents, i - 1), val)]
Shared(aggs, n) ==
  [j \in 0 .. 2 |-> [i \in DOMAIN aggs |->
     IF j < 2 THEN Rand(n, i, j) ELSE (aggs[i] - Rand(n, i, 0) - Rand(n, i, 1)) % Word]]

\* The paths in the answers of the three servers.
LEMMA AnsweredPaths ==
  ASSUME NEW T, NEW entries, RestOK(T, entries), NEW parents, parents = [k \in 1 .. 3 |-> PathOf(T, k - 1)]
  PROVE  /\ PathIsUp(T[0], parents[1][0]) /\ PathIsUp(T[1], parents[2][0])
         /\ PathIsUp(T[2], parents[3][0])
         /\ Len(parents[1][0]) = Depth - 1
<1>1. OneShape(T) /\ 0 \in Server /\ 1 \in Server /\ 2 \in Server /\ 0 \in Slot
  BY RestShape DEF Server, Slot
<1>2. ASSUME NEW s \in Server
      PROVE  PathIsUp(T[s], PathOf(T, s)[0])
  <2>1. ShareOf(s, 0) = s
    BY DEF Server, ShareOf
  <2>2. PathOf(T, s)[0] = PathUp(Grown(T[s]), Offered(T[0]))
    BY <1>1, <2>1 DEF PathOf
  <2>3. Offered(T[0]) = Offered(T[s]) /\ ShapeOK(T[s])
    BY <1>1 DEF OneShape
  <2> QED
    BY <2>2, <2>3, PathUpFact
<1>3. parents[1] = PathOf(T, 0) /\ parents[2] = PathOf(T, 1) /\ parents[3] = PathOf(T, 2)
  <2>1. 1 \in 1 .. 3 /\ 2 \in 1 .. 3 /\ 3 \in 1 .. 3 /\ 1 - 1 = 0 /\ 2 - 1 = 1 /\ 3 - 1 = 2
    OBVIOUS
  <2> QED
    BY <2>1
<1>4. PathIsUp(T[0], parents[1][0])
  BY <1>1, <1>2, <1>3
<1>5. Len(parents[1][0]) = Depth - 1
  <2>1. Depth - 1 \in Nat /\ parents[1][0] \in [1 .. Depth - 1 -> Index]
    BY <1>4, DepthAssumption DEF PathIsUp
  <2> QED
    BY <2>1
<1> QED
  BY <1>1, <1>2, <1>3, <1>4, <1>5

\* The new aggregates.
LEMMA SumsFact ==
  ASSUME NEW T, NEW entries, RestOK(T, entries), NEW parents, parents = [k \in 1 .. 3 |-> PathOf(T, k - 1)],
         NEW val \in 0 .. Word - 1
  PROVE  /\ Sums(parents, val) \in [1 .. Depth -> Index]
         /\ AggFunc = "sum" =>
              \A k \in 0 .. Depth - 1 :
                /\ Sums(parents, val)[Depth - k]
                     = Aggregate(Clear([j \in Server |-> Grown(T[j])],
                                       Top(Place(Grown(T[0]), Offered(T[0])), k)), val)
                /\ Sums(parents, val)[Depth - k] \in 0 .. Word - 1
<1>1. /\ PathIsUp(T[0], parents[1][0]) /\ PathIsUp(T[1], parents[2][0])
      /\ PathIsUp(T[2], parents[3][0]) /\ Len(parents[1][0]) = Depth - 1
  BY AnsweredPaths
<1>2. OneShape(T)
  BY RestShape
<1>3. PICK e : e = Place(Grown(T[0]), Offered(T[0]))
  OBVIOUS
<1>4. PICK G : G = [j \in Server |-> Grown(T[j])]
  OBVIOUS
<1>5. /\ 0 \in Server /\ 1 \in Server /\ 2 \in Server
      /\ G[0] = Grown(T[0]) /\ G[1] = Grown(T[1]) /\ G[2] = Grown(T[2])
  BY <1>4 DEF Server
<1>6. ShapeOK(T[0]) /\ e \in Paths /\ Len(e) = Depth - 1 /\ e \notin DOMAIN G[0] /\ TreeOK(G[0])
  <2>1. ShapeOK(T[0])
    BY <1>2, <1>5 DEF OneShape
  <2>2. Ready(Grown(T[0]), e) /\ TreeOK(Grown(T[0]))
    BY <1>3, <2>1, OfferedFact
  <2> QED
    BY <1>5, <2>1, <2>2 DEF Ready
<1>7. ASSUME NEW i \in 1 .. Depth - 1
      PROVE  /\ parents[1][0][i] = G[0][Top(e, Depth - 1 - i)].agg
             /\ parents[2][0][i] = G[1][Top(e, Depth - 1 - i)].agg
             /\ parents[3][0][i] = G[2][Top(e, Depth - 1 - i)].agg
             /\ parents[1][0][i] \in Index /\ parents[2][0][i] \in Index /\ parents[3][0][i] \in Index
  <2>1. /\ e = Place(Grown(T[0]), Offered(T[0])) /\ e = Place(Grown(T[1]), Offered(T[1]))
        /\ e = Place(Grown(T[2]), Offered(T[2]))
    BY <1>2, <1>3, <1>5 DEF OneShape
  <2> QED
    BY <1>1, <1>5, <2>1 DEF PathIsUp
<1>8. Len(parents[1][0]) + 1 = Depth
  BY <1>1, DepthAssumption
<1>9. Sums(parents, val)
        = [i \in 1 .. Depth |-> IF i = 1 THEN val ELSE Aggregate(Combined(parents, i - 1), val)]
  BY <1>8 DEF Sums
<1>10. val \in Index /\ val \in Val /\ val # None
  BY DEF Index, Val, None
<1>11. ASSUME NEW i \in 1 .. Depth - 1
       PROVE  Combined(parents, i) \in Index
  <2>1. CASE parents[1][0][i] = None
    BY <2>1 DEF Combined, Index
  <2>2. CASE parents[1][0][i] # None
    <3>1. parents[1][0][i] \in Int /\ parents[2][0][i] \in Int /\ parents[3][0][i] \in Int
      BY <1>7 DEF Index, None
    <3>2. PICK x \in Int : x = parents[1][0][i] + parents[2][0][i] + parents[3][0][i]
      BY <3>1
    <3>3. x % Word \in 0 .. Word - 1
      BY ModIn
    <3> QED
      BY <2>2, <3>2, <3>3, WordAssumption DEF Combined, Index
  <2> QED
    BY <2>1, <2>2
<1>12. ASSUME NEW i \in 1 .. Depth
       PROVE  Sums(parents, val)[i] \in Index
  <2>1. i = 1 \/ i - 1 \in 1 .. Depth - 1
    BY DepthAssumption
  <2>2. CASE i = 1
    BY <1>9, <1>10, <2>2
  <2>3. CASE i # 1
    BY <1>9, <1>10, <1>11, <2>1, <2>3, AggregateType
  <2> QED
    BY <2>2, <2>3
<1>13. ASSUME AggFunc = "sum", NEW k \in 0 .. Depth - 1
       PROVE  /\ Sums(parents, val)[Depth - k] = Aggregate(Clear(G, Top(e, k)), val)
              /\ Sums(parents, val)[Depth - k] \in 0 .. Word - 1
  <2>1. SharesOK(G, entries)
    BY <1>4, <1>13, GrownShares
  <2>2. Clear(G, Top(e, k)) \in Val
    BY <2>1, ClearIs DEF SharesOK
  <2>3. Depth - k \in 1 .. Depth
    BY DepthAssumption
  <2>4. Sums(parents, val)[Depth - k] = Aggregate(Clear(G, Top(e, k)), val)
    <3>1. CASE k = Depth - 1
      <4>1. Top(e, k) = e /\ Depth - k = 1
        BY <1>6, <3>1, AboveFact, DepthAssumption
      <4>2. Clear(G, Top(e, k)) = None
        BY <1>6, <4>1 DEF Clear
      <4>3. Sums(parents, val)[Depth - k] = val
        BY <1>9, <2>3, <4>1
      <4> QED
        BY <1>10, <1>13, <4>2, <4>3, SumIs
    <3>2. CASE k # Depth - 1
      <4>1. PICK i \in 1 .. Depth - 1 : i = Depth - k - 1 /\ Depth - 1 - i = k
        BY <3>2, DepthAssumption
      <4>2. Sums(parents, val)[Depth - k] = Aggregate(Combined(parents, i), val)
        <5>1. Depth - k # 1 /\ (Depth - k) - 1 = i
          BY <4>1, DepthAssumption
        <5> QED
          BY <1>9, <2>3, <5>1
      <4>3. Combined(parents, i) = Opened(G[0][Top(e, k)].agg, G[1][Top(e, k)].agg, G[2][Top(e, k)].agg)
        BY <1>7, <4>1 DEF Combined, Opened
      <4>4. Top(e, k) \in DOMAIN G[0]
        <5>1. k \in 0 .. Depth - 2
          BY <3>2, DepthAssumption
        <5> QED
          BY <1>6, <5>1, AboveFact DEF TreeOK
      <4> QED
        BY <4>2, <4>3, <4>4 DEF Clear
    <3> QED
      BY <3>1, <3>2
  <2>5. Aggregate(Clear(G, Top(e, k)), val) \in Val /\ Aggregate(Clear(G, Top(e, k)), val) # None
    BY <1>10, <1>13, <2>2, SumIs
  <2> QED
    BY <2>4, <2>5 DEF Val
<1>14. Sums(parents, val) \in [1 .. Depth -> Index]
  BY <1>9, <1>12
<1> QED
  BY <1>3, <1>4, <1>13, <1>14

\* The client's shares stand for the new aggregates.
LEMMA SharedFact ==
  ASSUME NEW T, NEW entries, RestOK(T, entries), NEW parents, parents = [k \in 1 .. 3 |-> PathOf(T, k - 1)],
         NEW val \in 0 .. Word - 1, NEW n \in 0 .. Len(Entries)
  PROVE  /\ Shared(Sums(parents, val), n) \in [Server -> [1 .. Depth -> Index]]
         /\ AggFunc = "sum" =>
              SharesSent([j \in Server |-> Grown(T[j])], Place(Grown(T[0]), Offered(T[0])),
                         Shared(Sums(parents, val), n), val)
<1>1. PICK aggs : aggs = Sums(parents, val)
  OBVIOUS
<1>2. aggs \in [1 .. Depth -> Index]
  BY <1>1, SumsFact
<1>3. PICK A : A = Shared(aggs, n)
  OBVIOUS
<1>4. A = [j \in 0 .. 2 |-> [i \in 1 .. Depth |->
            IF j < 2 THEN Rand(n, i, j) ELSE (aggs[i] - Rand(n, i, 0) - Rand(n, i, 1)) % Word]]
  BY <1>2, <1>3 DEF Shared
<1>5. ASSUME NEW i \in 1 .. Depth
      PROVE  /\ A[0][i] = Rand(n, i, 0) /\ A[1][i] = Rand(n, i, 1)
             /\ A[2][i] = (aggs[i] - A[0][i] - A[1][i]) % Word
             /\ A[0][i] \in 0 .. Word - 1 /\ A[1][i] \in 0 .. Word - 1 /\ A[2][i] \in 0 .. Word - 1
  <2>1. A[0][i] = Rand(n, i, 0) /\ A[1][i] = Rand(n, i, 1)
    BY <1>4
  <2>2. A[2][i] = (aggs[i] - Rand(n, i, 0) - Rand(n, i, 1)) % Word
    BY <1>4
  <2>3. Rand(n, i, 0) \in 0 .. Word - 1 /\ Rand(n, i, 1) \in 0 .. Word - 1
    BY RandAssumption
  <2>4. PICK x \in Int : x = aggs[i] - Rand(n, i, 0) - Rand(n, i, 1)
    <3>1. aggs[i] \in Int
      BY <1>2 DEF Index, None
    <3> QED
      BY <3>1, <2>3, WordAssumption
  <2>5. x % Word \in 0 .. Word - 1
    BY ModIn
  <2> QED
    BY <2>1, <2>2, <2>3, <2>4, <2>5
<1>6. A \in [Server -> [1 .. Depth -> Index]]
  <2>1. ASSUME NEW j \in Server
        PROVE  A[j] \in [1 .. Depth -> Index]
    <3>1. A[j] = [i \in 1 .. Depth |->
            IF j < 2 THEN Rand(n, i, j) ELSE (aggs[i] - Rand(n, i, 0) - Rand(n, i, 1)) % Word]
      BY <1>4 DEF Server
    <3>2. \A i \in 1 .. Depth : A[j][i] \in Index
      <4>1. j = 0 \/ j = 1 \/ j = 2
        BY DEF Server
      <4>2. 0 .. Word - 1 \subseteq Index
        BY WordAssumption DEF Index
      <4> QED
        BY <1>5, <4>1, <4>2
    <3> QED
      BY <3>1, <3>2
  <2>2. A = [j \in Server |-> A[j]]
    BY <1>4 DEF Server
  <2> QED
    BY <2>1, <2>2
<1>7. ASSUME AggFunc = "sum"
      PROVE  SharesSent([j \in Server |-> Grown(T[j])], Place(Grown(T[0]), Offered(T[0])), A, val)
  <2>1. PICK G : G = [j \in Server |-> Grown(T[j])]
    OBVIOUS
  <2>2. PICK e : e = Place(Grown(T[0]), Offered(T[0]))
    OBVIOUS
  <2>3. ASSUME NEW k \in 0 .. Depth - 1
        PROVE  /\ Split(A[0][Depth - k], A[1][Depth - k], A[2][Depth - k])
               /\ Opened(A[0][Depth - k], A[1][Depth - k], A[2][Depth - k]) = Aggregate(Clear(G, Top(e, k)), val)
    <3>1. PICK i \in 1 .. Depth : i = Depth - k
      BY DepthAssumption
    <3>2. aggs[i] = Aggregate(Clear(G, Top(e, k)), val) /\ aggs[i] \in 0 .. Word - 1
      BY <1>1, <1>7, <2>1, <2>2, <3>1, SumsFact
    <3>3. /\ Split(A[0][i], A[1][i], (aggs[i] - A[0][i] - A[1][i]) % Word)
          /\ Opened(A[0][i], A[1][i], (aggs[i] - A[0][i] - A[1][i]) % Word) = aggs[i]
      BY <1>5, <3>2, OpenedSplit
    <3> QED
      BY <1>5, <3>1, <3>2, <3>3
  <2> QED
    BY <2>1, <2>2, <2>3 DEF SharesSent
<1> QED
  BY <1>1, <1>3, <1>6, <1>7

-----------------------------------------------------------------------------
(* The invariant.                                                          *)

\* Three empty trees.
LEMMA EmptyRest == RestOK([j \in Server |-> EmptyTree], <<>>)
<1>1. PICK t : t = EmptyTree
  OBVIOUS
<1>2. PICK T : T = [j \in Server |-> t]
  OBVIOUS
<1>3. /\ 0 \in Server /\ 1 \in Server /\ 2 \in Server
      /\ \A j \in Server : T[j] = t
  BY <1>2 DEF Server
<1>4. /\ DOMAIN t = Inner /\ t = [p \in Inner |-> EmptyNode]
      /\ EmptyNode \in Node
      /\ EmptyNode.left = None /\ EmptyNode.mid = None /\ EmptyNode.right = None /\ EmptyNode.agg = None
  BY <1>1 DEF EmptyTree, EmptyNode, Node, Index
<1>5. TreeOK(t)
  <2>1. t \in [DOMAIN t -> Node]
    BY <1>4
  <2> QED
    BY <1>4, <2>1, InnerPaths DEF TreeOK
<1>6. \A p \in Paths : ~ Full(Inner, p)
  BY LastFact DEF Full
<1>7. ShapeOK(t)
  <2>1. \A p \in DOMAIN t : RightOK(t, p)
    BY <1>4, <1>6, InnerPaths DEF RightOK
  <2>2. \A p \in Inner : MidOK(t, p)
    <3> TAKE p \in Inner
    <3>1. Append(p, "L") \in Paths
      BY StepFact
    <3> QED
      BY <1>4, <1>6, <3>1 DEF MidOK
  <2>3. DOMAIN t \ Inner = {}
    BY <1>4
  <2> QED
    BY <1>5, <2>1, <2>2, <2>3 DEF ShapeOK
<1>8. \A j \in Server : ShapeOK(T[j]) /\ SameShape(T[0], T[j])
  BY <1>3, <1>7 DEF SameShape
<1>9. SharesOK(T, <<>>)
  <2>1. ValuesOK(T)
    BY <1>3, <1>4 DEF ValuesOK, Split, Val
  <2>2. \A p : Clear(T, p) = None
    BY <1>3, <1>4 DEF Clear, Opened
  <2>3. ChildrenOK(T)
    BY <2>2 DEF ChildrenOK, Aggregate
  <2> QED
    BY <2>1, <2>2, <2>3, AggregateNone DEF SharesOK
<1> QED
  BY <1>1, <1>2, <1>8, <1>9 DEF RestOK

\* Initially every server has two empty trees.
THEOREM InitInv ==
  ASSUME NEW c, Clients = {c}, Init
  PROVE  IInv(c)
<1>1. PICK T : T = [j \in Server |-> EmptyTree]
  OBVIOUS
<1>2. RestOK(T, log) /\ log \in Seq(EntrySet)
  BY <1>1, EmptyRest DEF Init
<1>3. client = [x \in {c} |-> Idle] /\ client[c] = Idle
  BY DEF Init
<1>4. Done(c) = 0 /\ Served(c) = 0
  BY <1>3 DEF Done, Served, Idle
<1>5. ServersOK(c, T)
  <2>1. DOMAIN tree = Server /\ DOMAIN nextFree = Server /\ DOMAIN crashed = Server
    BY DEF Init
  <2>2. ASSUME NEW s \in Server
        PROVE  /\ ~ crashed[s] /\ nextFree[s] = NULL /\ ~ (s < 0)
               /\ tree[s] = [i \in Slot |-> T[ShareOf(s, i)]]
    <3>1. \A i \in Slot : ShareOf(s, i) \in Server
      BY DEF ShareOf, Slot, Server
    <3>2. tree[s] = [i \in Slot |-> EmptyTree]
      BY DEF Init
    <3>3. \A i \in Slot : T[ShareOf(s, i)] = EmptyTree
      BY <1>1, <3>1
    <3>4. ~ (s < 0)
      BY DEF Server
    <3> QED
      BY <3>2, <3>3, <3>4 DEF Init
  <2> QED
    BY <1>4, <2>1, <2>2 DEF ServersOK
<1>6. ClientOK(c, T)
  <2>1. IsClient(Idle) /\ DOMAIN Idle.answers \subseteq Server /\ Len(Idle.parents) <= 3
    BY DEF Idle, IsClient
  <2>2. Idle.pc = "idle" /\ Idle.to = 0 /\ 0 \in Server
    BY DEF Idle, Server
  <2> QED
    BY <1>3, <2>1, <2>2 DEF ClientOK
<1> QED
  BY <1>2, <1>5, <1>6 DEF IInv, IInvFor

\* Steps that leave the servers alone.
LEMMA SameServers ==
  ASSUME NEW c, NEW T, ServersOK(c, T), UNCHANGED <<tree, nextFree, crashed>>,
         Done(c) = 0, Done(c)' = 0, Served(c)' = Served(c)
  PROVE  ServersOK(c, T)'
<1>1. \A s \in Server : ~ (s < 0)
  BY DEF Server
<1> QED
  BY <1>1 DEF ServersOK

LEMMA StartAppendInv ==
  ASSUME NEW c, Clients = {c}, NEW T, IInvFor(c, T), StartAppend(c)
  PROVE  IInvFor(c, T)'
<1>1. /\ log \in Seq(EntrySet) /\ RestOK(T, log) /\ ServersOK(c, T) /\ DOMAIN client = {c}
      /\ client[c].pc = "idle"
      /\ UNCHANGED <<tree, nextFree, crashed, log>>
  BY DEF IInvFor, ClientOK, StartAppend
<1>2. Busy = 0
  <2>1. {x \in Clients : client[x].pc # "idle"} = {}
    BY <1>1
  <2> QED
    BY <2>1, FS_EmptySet DEF Busy
<1>3. Len(log) \in Nat /\ Len(log) + Busy = Len(log) /\ Len(log) < Len(Entries)
  BY <1>1, <1>2 DEF StartAppend
<1>4. PICK entry \in Entries[Len(log) + 1] :
        client' = [client EXCEPT ![c] = [Idle EXCEPT !.pc = "append1", !.entry = entry]]
  BY <1>3 DEF StartAppend, Local
<1>5. entry \in EntrySet
  <2>1. Entries \in Seq(SUBSET EntrySet)
    BY EntriesAssumption DEF EntrySet
  <2>2. Len(log) + 1 \in 1 .. Len(Entries)
    BY <1>3, <2>1
  <2>3. Entries[Len(log) + 1] \in SUBSET EntrySet
    BY <2>1, <2>2
  <2> QED
    BY <1>4, <2>3
<1>6. PICK cl : cl = [Idle EXCEPT !.pc = "append1", !.entry = entry]
  OBVIOUS
<1>7. client'[c] = cl /\ DOMAIN client' = {c}
  BY <1>1, <1>4, <1>6
<1>8. /\ IsClient(cl) /\ cl.pc = "append1" /\ cl.to = 0 /\ cl.entry = entry /\ cl.parents = <<>>
      /\ DOMAIN cl.answers \subseteq Server /\ Len(cl.parents) <= 3
  <2>1. cl = [pc |-> "append1", to |-> 0, entry |-> entry, parents |-> <<>>,
              shares |-> Idle.shares, query |-> Idle.query, answers |-> <<>>, result |-> NULL]
    BY <1>6 DEF Idle
  <2>2. Len(<<>>) = 0 /\ DOMAIN <<>> = {}
    BY EmptySeq
  <2>3. cl.pc = "append1" /\ cl.to = 0 /\ cl.entry = entry /\ cl.parents = <<>> /\ cl.answers = <<>>
    BY <2>1
  <2>4. IsClient(cl)
    BY <2>1 DEF IsClient
  <2>5. DOMAIN cl.answers \subseteq Server /\ Len(cl.parents) <= 3
    BY <2>2, <2>3
  <2> QED
    BY <2>3, <2>4, <2>5
<1>9. Done(c) = 0 /\ Served(c) = 0 /\ Done(c)' = 0 /\ Served(c)' = 0
  BY <1>1, <1>7, <1>8 DEF Done, Served
<1>10. ServersOK(c, T)'
  BY <1>1, <1>9, SameServers
<1>11. ClientOK(c, T)'
  <2>1. cl.parents = [k \in 1 .. 0 |-> PathOf(T, k - 1)]
    BY <1>8
  <2>2. 0 \in Server /\ DOMAIN client' = Clients
    BY <1>7 DEF Server
  <2> QED
    BY <1>1, <1>3, <1>5, <1>7, <1>8, <1>9, <2>1, <2>2 DEF ClientOK
<1> QED
  BY <1>1, <1>10, <1>11 DEF IInvFor

LEMMA CombineInv ==
  ASSUME NEW c, Clients = {c}, NEW T, IInvFor(c, T), Combine(c)
  PROVE  IInvFor(c, T)'
<1>1. /\ log \in Seq(EntrySet) /\ RestOK(T, log) /\ ServersOK(c, T) /\ DOMAIN client = {c}
      /\ client[c].pc = "combine" /\ ClientOK(c, T)
      /\ UNCHANGED <<tree, nextFree, crashed, log>>
  BY DEF IInvFor, ClientOK, Combine
<1>2. PICK cl : cl = client[c]
  OBVIOUS
<1>3. /\ IsClient(cl) /\ cl.to = 0 /\ cl.entry \in EntrySet /\ Len(log) < Len(Entries)
      /\ DOMAIN cl.answers \subseteq Server /\ Len(cl.parents) <= 3
      /\ cl.parents = [k \in 1 .. 3 |-> PathOf(T, k - 1)]
  BY <1>1, <1>2 DEF ClientOK, Served
<1>4. PICK A : A = Shared(Sums(cl.parents, cl.entry.val), Len(log))
  BY ZenonT(60)
<1>5. client' = [client EXCEPT ![c].pc = "append2", ![c].shares = A]
  BY <1>2, <1>4 DEF Combine, Sums, Shared
<1>6. PICK new : new = client'[c]
  OBVIOUS
<1>7. new = [cl EXCEPT !.pc = "append2", !.shares = A] /\ DOMAIN client' = {c}
  BY <1>1, <1>2, <1>5, <1>6
<1>8. /\ IsClient(new) /\ new.pc = "append2" /\ new.to = 0 /\ new.entry = cl.entry
      /\ new.parents = cl.parents /\ new.answers = cl.answers /\ new.shares = A
  <2>1. new = [pc |-> "append2", to |-> cl.to, entry |-> cl.entry, parents |-> cl.parents,
               shares |-> A, query |-> cl.query, answers |-> cl.answers, result |-> cl.result]
    BY <1>3, <1>7 DEF IsClient
  <2> QED
    BY <1>3, <2>1 DEF IsClient
<1>9. Done(c) = 0 /\ Served(c) = 3 /\ Done(c)' = 0 /\ Served(c)' = 3
  BY <1>1, <1>6, <1>8 DEF Done, Served
<1>10. ServersOK(c, T)'
  BY <1>1, <1>9, SameServers
<1>11. /\ A \in [Server -> [1 .. Depth -> Index]]
       /\ AggFunc = "sum" => SharesSent([j \in Server |-> Grown(T[j])], Place(Grown(T[0]), Offered(T[0])),
                                        A, cl.entry.val)
  <2>1. PICK val \in 0 .. Word - 1 : val = cl.entry.val
    BY <1>3 DEF EntrySet
  <2>2. PICK n \in 0 .. Len(Entries) : n = Len(log)
    <3>1. Len(log) \in Nat /\ Len(Entries) \in Nat
      BY <1>1, EntriesAssumption
    <3> QED
      BY <1>3, <3>1
  <2>3. PICK parents : parents = cl.parents
    OBVIOUS
  <2>4. A = Shared(Sums(parents, val), n) /\ parents = [k \in 1 .. 3 |-> PathOf(T, k - 1)]
    BY <1>3, <1>4, <2>1, <2>2, <2>3
  <2> QED
    BY <1>1, <2>1, <2>4, SharedFact
<1>12. ClientOK(c, T)'
  <2>2. 0 \in Server /\ DOMAIN client' = Clients
    BY <1>7 DEF Server
  <2>3. /\ client'[c].to \in Server /\ DOMAIN client'[c].answers \subseteq Server /\ Len(client'[c].parents) <= 3
        /\ IsClient(client'[c]) /\ client'[c].pc = "append2"
        /\ client'[c].entry \in EntrySet /\ Len(log') < Len(Entries)
        /\ client'[c].parents = [k \in 1 .. Served(c)' |-> PathOf(T, k - 1)]
        /\ client'[c].shares = A /\ client'[c].entry.val = cl.entry.val
    BY <1>1, <1>3, <1>6, <1>8, <1>9, <2>2
  <2> QED
    BY <1>11, <2>2, <2>3 DEF ClientOK
<1> QED
  BY <1>1, <1>10, <1>12 DEF IInvFor

\* The steps of a query change nothing that the invariant is about.
LEMMA QueryInv ==
  ASSUME NEW c, Clients = {c}, NEW T, IInvFor(c, T), UNCHANGED <<tree, nextFree, crashed, log>>,
         client[c].pc \in {"idle", "query"}, DOMAIN client' = {c},
         IsClient(client'[c]), client'[c].pc \in {"idle", "query"}, client'[c].to = 0,
         DOMAIN client'[c].answers \subseteq Server, Len(client'[c].parents) <= 3
  PROVE  IInvFor(c, T)'
<1>1. log \in Seq(EntrySet) /\ RestOK(T, log) /\ ServersOK(c, T)
  BY DEF IInvFor
<1>2. Done(c) = 0 /\ Served(c) = 0 /\ Done(c)' = 0 /\ Served(c)' = 0
  BY DEF Done, Served
<1>3. ServersOK(c, T)'
  BY <1>1, <1>2, SameServers
<1>4. ClientOK(c, T)'
  <2>1. 0 \in Server /\ DOMAIN client' = Clients
    BY DEF Server
  <2> QED
    BY <2>1 DEF ClientOK
<1> QED
  BY <1>1, <1>3, <1>4 DEF IInvFor

LEMMA QueriesInv ==
  ASSUME NEW c, Clients = {c}, NEW T, IInvFor(c, T),
         StartQuery(c) \/ Gather(c) \/ \E s \in Server : AggTreeQuery(s, c)
  PROVE  IInvFor(c, T)'
<1>1. PICK cl : cl = client[c]
  OBVIOUS
<1>2. /\ IsClient(cl) /\ DOMAIN client = {c}
      /\ cl.pc \notin {"append1", "append2"} => cl.to = 0
      /\ DOMAIN cl.answers \subseteq Server /\ Len(cl.parents) <= 3
  BY <1>1 DEF IInvFor, ClientOK
<1>3. CASE StartQuery(c)
  <2>1. PICK q \in Queries : client' = [client EXCEPT ![c] = [Idle EXCEPT !.pc = "query", !.query = q]]
    BY <1>3 DEF StartQuery
  <2>2. PICK new : new = [Idle EXCEPT !.pc = "query", !.query = q]
    OBVIOUS
  <2>3. client'[c] = new /\ DOMAIN client' = {c}
    BY <1>2, <2>1, <2>2
  <2>4. /\ IsClient(new) /\ new.pc = "query" /\ new.to = 0
        /\ DOMAIN new.answers \subseteq Server /\ Len(new.parents) <= 3
    <3>1. new = [pc |-> "query", to |-> 0, entry |-> Idle.entry, parents |-> <<>>,
                 shares |-> Idle.shares, query |-> q, answers |-> <<>>, result |-> NULL]
      BY <2>2 DEF Idle
    <3>2. Len(<<>>) = 0 /\ DOMAIN <<>> = {}
      BY EmptySeq
    <3>3. new.pc = "query" /\ new.to = 0 /\ new.parents = <<>> /\ new.answers = <<>>
      BY <3>1
    <3>4. IsClient(new)
      BY <3>1 DEF IsClient
    <3>5. DOMAIN new.answers \subseteq Server /\ Len(new.parents) <= 3
      BY <3>2, <3>3
    <3> QED
      BY <3>3, <3>4, <3>5
  <2>5. client[c].pc = "idle" /\ UNCHANGED <<tree, nextFree, crashed, log>>
    BY <1>3 DEF StartQuery
  <2> QED
    BY <2>3, <2>4, <2>5, QueryInv
<1>4. CASE Gather(c)
  <2>1. PICK r : client' = [client EXCEPT ![c].pc = "idle", ![c].result = r]
    BY <1>4 DEF Gather
  <2>2. cl.pc = "query" /\ UNCHANGED <<tree, nextFree, crashed, log>>
    BY <1>1, <1>4 DEF Gather
  <2>3. DOMAIN client' = {c} /\ client'[c] = [cl EXCEPT !.pc = "idle", !.result = r]
    BY <1>1, <1>2, <2>1
  <2>4. PICK new : new = client'[c]
    OBVIOUS
  <2>5. new = [pc |-> "idle", to |-> cl.to, entry |-> cl.entry, parents |-> cl.parents,
               shares |-> cl.shares, query |-> cl.query, answers |-> cl.answers, result |-> r]
    BY <1>2, <2>3, <2>4 DEF IsClient
  <2>6. IsClient(new) /\ new.pc = "idle" /\ new.to = 0 /\ new.answers = cl.answers /\ new.parents = cl.parents
    BY <1>2, <2>2, <2>5 DEF IsClient
  <2> QED
    BY <1>1, <1>2, <2>2, <2>3, <2>4, <2>6, QueryInv
<1>5. ASSUME NEW s \in Server, AggTreeQuery(s, c)
      PROVE  IInvFor(c, T)'
  <2>1. PICK answer : answer = Answer(s, client[c].query)
    OBVIOUS
  <2>2. cl.pc = "query" /\ UNCHANGED <<tree, nextFree, crashed, log>>
    BY <1>1, <1>5 DEF AggTreeQuery
  <2>3. PICK a : a = [x \in DOMAIN cl.answers \cup {s} |-> IF x = s THEN answer ELSE cl.answers[x]]
    OBVIOUS
  <2>4. DOMAIN client' = {c} /\ client'[c] = [cl EXCEPT !.answers = a]
    BY <1>1, <1>2, <1>5, <2>1, <2>3 DEF AggTreeQuery
  <2>5. PICK new : new = client'[c]
    OBVIOUS
  <2>6. new = [pc |-> cl.pc, to |-> cl.to, entry |-> cl.entry, parents |-> cl.parents,
               shares |-> cl.shares, query |-> cl.query, answers |-> a, result |-> cl.result]
    BY <1>2, <2>4, <2>5 DEF IsClient
  <2>7. IsClient(new) /\ new.pc = "query" /\ new.to = 0 /\ new.answers = a /\ new.parents = cl.parents
    BY <1>2, <2>2, <2>6 DEF IsClient
  <2>8. DOMAIN a \subseteq Server
    BY <1>2, <2>3
  <2> QED
    BY <1>1, <1>2, <2>2, <2>4, <2>5, <2>7, <2>8, QueryInv
<1> QED
  BY <1>3, <1>4, <1>5

\* What a call of getAppendPath finds at server s.
LEMMA Append1Sees ==
  ASSUME NEW c, NEW T, IInvFor(c, T), NEW s \in Server,
         client[c].pc = "append1", client[c].to = s
  PROVE  /\ nextFree[s] = NULL
         /\ FreeParent(tree[s][0]) = FreeParent(T[0])
         /\ \A i \in Slot : ShareOf(s, i) \in Server /\ tree[s][i] = T[ShareOf(s, i)]
         /\ \A i \in Slot : Grown(T[ShareOf(s, i)])
                              = IF FreeParent(T[0]) = NULL THEN RollUp(tree[s][i]) ELSE tree[s][i]
         /\ Len(Offered(T[0])) = Depth - 2
<1>1. OneShape(T) /\ ServersOK(c, T) /\ 0 \in Server /\ 0 \in Slot
  BY RestShape DEF IInvFor, Server, Slot
<1>2. Done(c) = 0 /\ Served(c) = s
  BY DEF Done, Served
<1>3. ~ (s < s) /\ ~ (s < 0)
  BY DEF Server
<1>4. nextFree[s] = NULL /\ tree[s] = [i \in Slot |-> T[ShareOf(s, i)]]
  BY <1>1, <1>2, <1>3 DEF ServersOK
<1>5. \A i \in Slot : ShareOf(s, i) \in Server
  BY DEF ShareOf, Slot, Server
<1>6. \A j \in Server : FreeParent(T[j]) = FreeParent(T[0])
  BY <1>1 DEF OneShape
<1>7. \A i \in Slot : tree[s][i] = T[ShareOf(s, i)]
  BY <1>4
<1>8. FreeParent(tree[s][0]) = FreeParent(T[0])
  BY <1>1, <1>5, <1>6, <1>7
<1>9. \A i \in Slot : Grown(T[ShareOf(s, i)])
                        = IF FreeParent(T[0]) = NULL THEN RollUp(tree[s][i]) ELSE tree[s][i]
  BY <1>5, <1>6, <1>7 DEF Grown
<1>10. Len(Offered(T[0])) = Depth - 2
  BY <1>1, OfferedFact DEF OneShape
<1> QED
  BY <1>4, <1>5, <1>7, <1>8, <1>9, <1>10

\* The server grows its trees and answers with their paths.
GrownAt(T, s) == [i \in Slot |-> Grown(T[ShareOf(s, i)])]
PathServed(c, T, s) ==
  /\ client[c].pc = "append1" /\ client[c].to = s
  /\ UNCHANGED <<crashed, log>>
  /\ tree' = [tree EXCEPT ![s] = GrownAt(T, s)]
  /\ nextFree' = [nextFree EXCEPT ![s] = Offered(T[0])]
  /\ client' = [client EXCEPT
       ![c].parents = Append(@, PathOf(T, s)),
       ![c].pc = IF s = 2 THEN "combine" ELSE @,
       ![c].to = (s + 1) % 3]

LEMMA Append1Does ==
  ASSUME NEW c, NEW T, IInvFor(c, T), NEW s \in Server, Append1(s, c)
  PROVE  PathServed(c, T, s)
<1>1. client[c].pc = "append1" /\ client[c].to = s /\ UNCHANGED log
  BY DEF Append1
<1>2. PICK free : free = FreeParent(tree[s][0])
  OBVIOUS
<1>3. PICK grown : grown = [i \in Slot |-> IF free = NULL THEN RollUp(tree[s][i]) ELSE tree[s][i]]
  OBVIOUS
<1>4. PICK parent : parent = IF free = NULL THEN FirstFresh ELSE free
  OBVIOUS
<1>5. parent = Offered(T[0]) /\ grown = GrownAt(T, s)
  <2>1. free = FreeParent(T[0])
    BY <1>1, <1>2, Append1Sees
  <2>2. \A i \in Slot : Grown(T[ShareOf(s, i)]) = IF free = NULL THEN RollUp(tree[s][i]) ELSE tree[s][i]
    BY <1>1, <2>1, Append1Sees
  <2>3. parent = Offered(T[0])
    BY <1>4, <2>1 DEF Offered
  <2>4. grown = GrownAt(T, s)
    BY <1>3, <2>2 DEF GrownAt
  <2> QED
    BY <2>3, <2>4
<1>6. nextFree[s] = NULL /\ Len(parent) = Depth - 2
  BY <1>1, <1>5, Append1Sees
<1>7. /\ tree' = [tree EXCEPT ![s] = grown]
      /\ nextFree' = [nextFree EXCEPT ![s] = parent]
      /\ client' = [client EXCEPT
           ![c].parents = Append(@, BothPaths(grown, parent)),
           ![c].pc = IF s = 2 THEN "combine" ELSE @,
           ![c].to = (s + 1) % 3]
      /\ UNCHANGED crashed
  <2>1. ~ (nextFree[s] # NULL \/ Len(parent) # Depth - 2)
    BY <1>6
  <2> QED
    BY <1>2, <1>3, <1>4, <2>1, ZenonT(60) DEF Append1
<1>8. BothPaths(grown, parent) = PathOf(T, s)
  <2>1. \A i \in Slot : grown[i] = Grown(T[ShareOf(s, i)])
    BY <1>5 DEF GrownAt
  <2>2. \A i \in Slot : PathUp(grown[i], parent) = PathUp(Grown(T[ShareOf(s, i)]), Offered(T[0]))
    BY <1>5, <2>1
  <2> QED
    BY <2>2 DEF PathOf, BothPaths
<1>9. client' = [client EXCEPT
        ![c].parents = Append(@, PathOf(T, s)),
        ![c].pc = IF s = 2 THEN "combine" ELSE @,
        ![c].to = (s + 1) % 3]
  BY <1>7, <1>8, ZenonT(60)
<1>10. tree' = [tree EXCEPT ![s] = GrownAt(T, s)] /\ nextFree' = [nextFree EXCEPT ![s] = Offered(T[0])]
  BY <1>5, <1>7, ZenonT(60)
<1> QED
  BY <1>1, <1>7, <1>9, <1>10, ZenonT(60) DEF PathServed

LEMMA Append1Inv ==
  ASSUME NEW c, Clients = {c}, NEW T, IInvFor(c, T), NEW s \in Server, Append1(s, c)
  PROVE  IInvFor(c, T)'
<1>1. /\ client[c].pc = "append1" /\ client[c].to = s
      /\ UNCHANGED <<crashed, log>>
      /\ tree' = [tree EXCEPT ![s] = GrownAt(T, s)]
      /\ nextFree' = [nextFree EXCEPT ![s] = Offered(T[0])]
      /\ client' = [client EXCEPT
           ![c].parents = Append(@, PathOf(T, s)),
           ![c].pc = IF s = 2 THEN "combine" ELSE @,
           ![c].to = (s + 1) % 3]
  <2>1. PathServed(c, T, s)
    BY Append1Does
  <2> QED
    BY <2>1 DEF PathServed
<1>2. /\ log \in Seq(EntrySet) /\ RestOK(T, log) /\ ServersOK(c, T) /\ DOMAIN client = {c}
      /\ ClientOK(c, T)
  BY DEF IInvFor, ClientOK
<1>3. PICK cl : cl = client[c]
  OBVIOUS
<1>4. Done(c) = 0 /\ Served(c) = s
  BY <1>1 DEF Done, Served
<1>5. /\ IsClient(cl) /\ cl.pc = "append1" /\ cl.entry \in EntrySet /\ Len(log) < Len(Entries)
      /\ DOMAIN cl.answers \subseteq Server
      /\ cl.parents = [k \in 1 .. s |-> PathOf(T, k - 1)]
  <2>1. /\ IsClient(cl) /\ cl.pc = "append1" /\ DOMAIN cl.answers \subseteq Server
        /\ cl.pc \in {"append1", "combine", "append2"} =>
             /\ cl.entry \in EntrySet /\ Len(log) < Len(Entries)
             /\ cl.parents = [k \in 1 .. Served(c) |-> PathOf(T, k - 1)]
    BY <1>1, <1>2, <1>3 DEF ClientOK
  <2> QED
    BY <1>4, <2>1
<1>6. PICK more : more = Append(cl.parents, PathOf(T, s))
  OBVIOUS
<1>7. more = [k \in 1 .. s + 1 |-> PathOf(T, k - 1)] /\ Len(more) = s + 1 /\ Len(more) <= 3
  <2>1. s \in Nat /\ s <= 2 /\ s + 1 <= 3 /\ (s + 1) - 1 = s
    BY DEF Server
  <2>2. PICK S : S = {PathOf(T, j) : j \in Server}
    OBVIOUS
  <2>3. PathOf(T, s) \in S /\ \A k \in 1 .. s : PathOf(T, k - 1) \in S
    BY <2>2 DEF Server
  <2>4. cl.parents \in Seq(S) /\ Len(cl.parents) = s
    BY <1>5, <2>1, <2>3
  <2>5. /\ more \in Seq(S) /\ Len(more) = s + 1 /\ more[s + 1] = PathOf(T, s)
        /\ \A k \in 1 .. s : more[k] = cl.parents[k]
    BY <1>6, <2>3, <2>4, AppendProperties
  <2>6. \A k \in 1 .. s + 1 : more[k] = PathOf(T, k - 1)
    <3>1. \A k \in 1 .. s : more[k] = PathOf(T, k - 1)
      BY <1>5, <2>5
    <3> QED
      BY <2>1, <2>5, <3>1
  <2>7. more = [k \in 1 .. s + 1 |-> more[k]]
    BY <2>1, <2>5
  <2> QED
    BY <2>1, <2>5, <2>6, <2>7
<1>8. PICK new : new = client'[c]
  OBVIOUS
<1>9. PICK to \in Server : to = (s + 1) % 3 /\ (s # 2 => to = s + 1) /\ (s = 2 => to = 0)
  BY DEF Server
<1>10. PICK pc : pc = IF s = 2 THEN "combine" ELSE "append1"
  OBVIOUS
<1>11. new = [pc |-> pc, to |-> to, entry |-> cl.entry, parents |-> more,
              shares |-> cl.shares, query |-> cl.query, answers |-> cl.answers, result |-> cl.result]
  <2>1. new = [cl EXCEPT !.parents = more, !.pc = pc, !.to = to]
    BY <1>1, <1>2, <1>3, <1>5, <1>6, <1>8, <1>9, <1>10
  <2> QED
    BY <1>5, <2>1 DEF IsClient
<1>12. /\ IsClient(new) /\ new.pc = pc /\ new.to = to /\ new.entry = cl.entry /\ new.parents = more
       /\ new.answers = cl.answers
  BY <1>11 DEF IsClient
<1>13. Done(c)' = 0 /\ Served(c)' = s + 1
  <2>1. Done(c)' = 0
    BY <1>8, <1>10, <1>12 DEF Done
  <2>2. Served(c)' = s + 1
    BY <1>8, <1>9, <1>10, <1>12 DEF Served
  <2> QED
    BY <2>1, <2>2
<1>14. ServersOK(c, T)'
  <2>1. DOMAIN tree' = Server /\ DOMAIN nextFree' = Server /\ DOMAIN crashed' = Server
    BY <1>1, <1>2 DEF ServersOK
  <2>2. ASSUME NEW x \in Server
        PROVE  /\ ~ crashed'[x]
               /\ nextFree'[x] = IF 0 <= x /\ x < s + 1 THEN Offered(T[0]) ELSE NULL
               /\ ~ (x < 0)
               /\ tree'[x] = [i \in Slot |-> IF x < s + 1 THEN Grown(T[ShareOf(x, i)]) ELSE T[ShareOf(x, i)]]
    <3>1. /\ ~ crashed[x] /\ ~ (x < 0) /\ 0 <= x
          /\ nextFree[x] = IF 0 <= x /\ x < s THEN Offered(T[0]) ELSE NULL
          /\ tree[x] = [i \in Slot |-> IF x < s THEN Grown(T[ShareOf(x, i)]) ELSE T[ShareOf(x, i)]]
      <4>1. ~ (x < 0) /\ 0 <= x
        BY DEF Server
      <4> QED
        BY <1>2, <1>4, <4>1 DEF ServersOK
    <3>2. CASE x = s
      <4>1. x < s + 1
        BY <3>2 DEF Server
      <4>2. nextFree'[x] = Offered(T[0]) /\ tree'[x] = [i \in Slot |-> Grown(T[ShareOf(x, i)])]
        BY <1>1, <1>2, <3>2 DEF ServersOK, GrownAt
      <4> QED
        BY <1>1, <3>1, <4>1, <4>2
    <3>3. CASE x # s
      <4>1. x < s <=> x < s + 1
        BY <3>3 DEF Server
      <4>2. nextFree'[x] = nextFree[x] /\ tree'[x] = tree[x]
        BY <1>1, <1>2, <3>3 DEF ServersOK
      <4> QED
        BY <1>1, <3>1, <4>1, <4>2
    <3> QED
      BY <3>2, <3>3
  <2> QED
    BY <1>13, <2>1, <2>2 DEF ServersOK
<1>15. ClientOK(c, T)'
  <2>1. DOMAIN client' = Clients
    BY <1>1, <1>2
  <2>2. /\ client'[c].to \in Server /\ DOMAIN client'[c].answers \subseteq Server /\ Len(client'[c].parents) <= 3
        /\ IsClient(client'[c]) /\ client'[c].pc \in {"append1", "combine"}
        /\ client'[c].pc = "combine" => client'[c].to = 0
        /\ client'[c].entry \in EntrySet /\ Len(log') < Len(Entries)
        /\ client'[c].parents = [k \in 1 .. Served(c)' |-> PathOf(T, k - 1)]
    BY <1>1, <1>5, <1>7, <1>8, <1>9, <1>10, <1>12, <1>13
  <2> QED
    BY <2>1, <2>2 DEF ClientOK
<1> QED
  BY <1>1, <1>2, <1>14, <1>15 DEF IInvFor

\* What a call of finishAppend does.
LEMMA Append2Does ==
  ASSUME NEW c, NEW T, IInvFor(c, T), NEW s \in Server, Append2(s, c),
         NEW e, e = client[c].entry, NEW A, A = client[c].shares
  PROVE  /\ client[c].pc = "append2" /\ client[c].to = s
         /\ UNCHANGED crashed
         /\ tree' = [tree EXCEPT ![s] = [i \in Slot |-> Finished(T[ShareOf(s, i)], e.idx, A[ShareOf(s, i)])]]
         /\ nextFree' = [nextFree EXCEPT ![s] = NULL]
         /\ client' = [client EXCEPT ![c].pc = IF s = 2 THEN "idle" ELSE @, ![c].to = (s + 1) % 3]
         /\ log' = IF s = 2 THEN Append(log, e) ELSE log
<1>1. client[c].pc = "append2" /\ client[c].to = s
  BY DEF Append2
<1>2. OneShape(T) /\ ServersOK(c, T) /\ 0 \in Server /\ 0 \in Slot
  BY RestShape DEF IInvFor, Server, Slot
<1>3. Done(c) = s /\ Served(c) = 3
  BY <1>1 DEF Done, Served
<1>4. ~ (s < s) /\ s < 3 /\ s <= s
  BY DEF Server
<1>5. nextFree[s] = Offered(T[0]) /\ tree[s] = [i \in Slot |-> Grown(T[ShareOf(s, i)])] /\ DOMAIN tree = Server
  BY <1>2, <1>3, <1>4 DEF ServersOK
<1>6. \A i \in Slot : ShareOf(s, i) \in Server
  BY DEF ShareOf, Slot, Server
<1>7. \A j \in Server : Offered(T[j]) = Offered(T[0]) /\ ShapeOK(T[j])
  BY <1>2 DEF OneShape
<1>8. nextFree[s] # NULL
  BY <1>2, <1>5, <1>7, OfferedFact, InnerPaths, NullFact
<1>9. ~ IsFull(tree[s][0], nextFree[s])
  <2>1. PICK j \in Server : j = ShareOf(s, 0)
    BY <1>2, <1>6
  <2>2. tree[s][0] = Grown(T[j]) /\ nextFree[s] = Offered(T[j])
    BY <1>2, <1>5, <1>7, <2>1
  <2> QED
    BY <1>7, <2>2, OfferedFact
<1>10. /\ tree' = [tree EXCEPT ![s] = [i \in Slot |->
                     AppendBelow(tree[s][i], nextFree[s], e.idx, A[ShareOf(s, i)])]]
       /\ nextFree' = [nextFree EXCEPT ![s] = NULL]
       /\ client' = [client EXCEPT ![c].pc = IF s = 2 THEN "idle" ELSE @, ![c].to = (s + 1) % 3]
       /\ log' = IF s = 2 THEN Append(log, e) ELSE log
       /\ UNCHANGED crashed
  BY <1>5, <1>8, <1>9 DEF Append2
<1>11. [i \in Slot |-> AppendBelow(tree[s][i], nextFree[s], e.idx, A[ShareOf(s, i)])]
         = [i \in Slot |-> Finished(T[ShareOf(s, i)], e.idx, A[ShareOf(s, i)])]
  <2>1. \A i \in Slot : AppendBelow(tree[s][i], nextFree[s], e.idx, A[ShareOf(s, i)])
                          = Finished(T[ShareOf(s, i)], e.idx, A[ShareOf(s, i)])
    BY <1>5, <1>6, <1>7 DEF Finished
  <2> QED
    BY <2>1
<1> QED
  BY <1>1, <1>10, <1>11

LEMMA Append2Inv ==
  ASSUME NEW c, Clients = {c}, NEW T, IInvFor(c, T), NEW s \in Server, Append2(s, c)
  PROVE  IInv(c)'
<1>1. PICK cl : cl = client[c]
  OBVIOUS
<1>2. PICK e : e = cl.entry
  OBVIOUS
<1>3. PICK A : A = cl.shares
  OBVIOUS
<1>4. /\ cl.pc = "append2" /\ cl.to = s
      /\ UNCHANGED crashed
      /\ tree' = [tree EXCEPT ![s] = [i \in Slot |-> Finished(T[ShareOf(s, i)], e.idx, A[ShareOf(s, i)])]]
      /\ nextFree' = [nextFree EXCEPT ![s] = NULL]
      /\ client' = [client EXCEPT ![c].pc = IF s = 2 THEN "idle" ELSE @, ![c].to = (s + 1) % 3]
      /\ log' = IF s = 2 THEN Append(log, e) ELSE log
  BY <1>1, <1>2, <1>3, Append2Does
<1>5. /\ log \in Seq(EntrySet) /\ RestOK(T, log) /\ ServersOK(c, T) /\ DOMAIN client = {c}
      /\ ClientOK(c, T)
  BY DEF IInvFor, ClientOK
<1>6. Done(c) = s /\ Served(c) = 3
  BY <1>1, <1>4 DEF Done, Served
<1>7. /\ IsClient(cl) /\ e \in EntrySet /\ Len(log) < Len(Entries)
      /\ DOMAIN cl.answers \subseteq Server /\ Len(cl.parents) <= 3
      /\ cl.parents = [k \in 1 .. 3 |-> PathOf(T, k - 1)]
      /\ A \in [Server -> [1 .. Depth -> Index]]
      /\ AggFunc = "sum" => SharesSent([j \in Server |-> Grown(T[j])], Place(Grown(T[0]), Offered(T[0])),
                                       A, e.val)
  BY <1>1, <1>2, <1>3, <1>4, <1>5, <1>6 DEF ClientOK
<1>8. PICK new : new = client'[c]
  OBVIOUS
<1>9. PICK to \in Server : to = (s + 1) % 3 /\ (s # 2 => to = s + 1) /\ (s = 2 => to = 0)
  BY DEF Server
<1>10. PICK pc : pc = IF s = 2 THEN "idle" ELSE "append2"
  OBVIOUS
<1>11. new = [pc |-> pc, to |-> to, entry |-> cl.entry, parents |-> cl.parents,
              shares |-> cl.shares, query |-> cl.query, answers |-> cl.answers, result |-> cl.result]
  <2>1. new = [cl EXCEPT !.pc = pc, !.to = to]
    BY <1>1, <1>4, <1>5, <1>8, <1>9, <1>10
  <2> QED
    BY <1>7, <2>1 DEF IsClient
<1>12. /\ IsClient(new) /\ new.pc = pc /\ new.to = to /\ new.entry = e /\ new.parents = cl.parents
       /\ new.answers = cl.answers /\ new.shares = A
  BY <1>2, <1>3, <1>11 DEF IsClient
<1>13. DOMAIN client' = Clients
  BY <1>4, <1>5
<1>14. DOMAIN tree' = Server /\ DOMAIN nextFree' = Server /\ DOMAIN crashed' = Server
  BY <1>4, <1>5 DEF ServersOK
<1>15. ASSUME NEW x \in Server
       PROVE  /\ ~ crashed'[x]
              /\ nextFree'[x] = IF s < x THEN Offered(T[0]) ELSE NULL
              /\ tree'[x] = [i \in Slot |-> IF x <= s THEN Finished(T[ShareOf(x, i)], e.idx, A[ShareOf(x, i)])
                                            ELSE Grown(T[ShareOf(x, i)])]
  <2>1. /\ ~ crashed[x]
        /\ nextFree[x] = IF s <= x THEN Offered(T[0]) ELSE NULL
        /\ tree[x] = [i \in Slot |-> IF x < s THEN Finished(T[ShareOf(x, i)], e.idx, A[ShareOf(x, i)])
                                     ELSE Grown(T[ShareOf(x, i)])]
    <3>1. x < 3
      BY DEF Server
    <3> QED
      BY <1>1, <1>2, <1>3, <1>5, <1>6, <3>1 DEF ServersOK
  <2>2. CASE x = s
    <3>1. x <= s /\ ~ (s < x)
      BY <2>2 DEF Server
    <3>2. /\ nextFree'[x] = NULL
          /\ tree'[x] = [i \in Slot |-> Finished(T[ShareOf(x, i)], e.idx, A[ShareOf(x, i)])]
      BY <1>4, <1>5, <2>2 DEF ServersOK
    <3> QED
      BY <1>4, <2>1, <3>1, <3>2
  <2>3. CASE x # s
    <3>1. (x < s <=> x <= s) /\ (s <= x <=> s < x)
      BY <2>3 DEF Server
    <3>2. nextFree'[x] = nextFree[x] /\ tree'[x] = tree[x]
      BY <1>4, <1>5, <2>3 DEF ServersOK
    <3> QED
      BY <1>4, <2>1, <3>1, <3>2
  <2> QED
    BY <2>2, <2>3
<1>16. CASE s # 2
  <2>1. /\ new.pc = "append2" /\ new.to = s + 1 /\ log' = log
        /\ Done(c)' = s + 1 /\ Served(c)' = 3
    BY <1>4, <1>8, <1>9, <1>10, <1>12, <1>16 DEF Done, Served
  <2>2. ServersOK(c, T)'
    <3>1. ASSUME NEW x \in Server
          PROVE  /\ (x < s + 1 <=> x <= s) /\ x < 3 /\ (s + 1 <= x <=> s < x)
      BY DEF Server
    <3>2. client'[c].entry = e /\ client'[c].shares = A
      BY <1>8, <1>12
    <3>3. ASSUME NEW x \in Server
          PROVE  /\ nextFree'[x] = IF s + 1 <= x /\ x < 3 THEN Offered(T[0]) ELSE NULL
                 /\ tree'[x] = [i \in Slot |->
                      IF x < s + 1 THEN Finished(T[ShareOf(x, i)], client'[c].entry.idx, client'[c].shares[ShareOf(x, i)])
                      ELSE IF x < 3 THEN Grown(T[ShareOf(x, i)]) ELSE T[ShareOf(x, i)]]
      BY <1>15, <3>1, <3>2
    <3> QED
      BY <1>14, <1>15, <2>1, <3>3 DEF ServersOK
  <2>3. ClientOK(c, T)'
    <3>1. /\ client'[c].to \in Server /\ DOMAIN client'[c].answers \subseteq Server /\ Len(client'[c].parents) <= 3
          /\ IsClient(client'[c]) /\ client'[c].pc = "append2"
          /\ client'[c].entry = e /\ Len(log') < Len(Entries)
          /\ client'[c].parents = [k \in 1 .. Served(c)' |-> PathOf(T, k - 1)]
          /\ client'[c].shares = A
      BY <1>7, <1>8, <1>9, <1>12, <2>1
    <3> QED
      BY <1>7, <1>13, <3>1 DEF ClientOK
  <2> QED
    BY <1>5, <2>1, <2>2, <2>3 DEF IInvFor, IInv
<1>17. CASE s = 2
  <2>1. PICK U : U = [j \in Server |-> Finished(T[j], e.idx, A[j])]
    OBVIOUS
  <2>2. log' = Append(log, e) /\ log' \in Seq(EntrySet) /\ RestOK(U, log')
    <3>1. log' = Append(log, e)
      BY <1>4, <1>17
    <3>2. RestOK(U, Append(log, e))
      BY <1>5, <1>7, <2>1, FinishedRest
    <3> QED
      BY <1>5, <1>7, <3>1, <3>2, AppendProperties
  <2>3. new.pc = "idle" /\ new.to = 0 /\ Done(c)' = 0 /\ Served(c)' = 0
    BY <1>8, <1>9, <1>10, <1>12, <1>17 DEF Done, Served
  <2>4. ServersOK(c, U)'
    <3>1. ASSUME NEW x \in Server
          PROVE  /\ nextFree'[x] = NULL /\ ~ (x < 0)
                 /\ tree'[x] = [i \in Slot |-> U[ShareOf(x, i)]]
      <4>1. x <= s /\ ~ (s < x) /\ ~ (x < 0)
        BY <1>17 DEF Server
      <4>2. \A i \in Slot : ShareOf(x, i) \in Server
        BY DEF ShareOf, Slot, Server
      <4>3. \A i \in Slot : U[ShareOf(x, i)] = Finished(T[ShareOf(x, i)], e.idx, A[ShareOf(x, i)])
        BY <2>1, <4>2
      <4>4. nextFree'[x] = NULL /\ tree'[x] = [i \in Slot |-> Finished(T[ShareOf(x, i)], e.idx, A[ShareOf(x, i)])]
        BY <1>15, <4>1
      <4> QED
        BY <4>1, <4>3, <4>4
    <3> QED
      BY <1>14, <1>15, <2>3, <3>1 DEF ServersOK
  <2>5. ClientOK(c, U)'
    BY <1>7, <1>8, <1>9, <1>12, <1>13, <2>3 DEF ClientOK
  <2> QED
    BY <2>2, <2>4, <2>5 DEF IInvFor, IInv
<1> QED
  BY <1>16, <1>17

\* Every step of the only client and of the servers preserves the invariant.
THEOREM NextInv ==
  ASSUME NEW c, Clients = {c}, IInv(c), [Next]_vars
  PROVE  IInv(c)'
<1>1. PICK T : IInvFor(c, T)
  BY DEF IInv
<1>2. CASE UNCHANGED vars
  <2>1. IInvFor(c, T)'
    BY <1>1, <1>2 DEF vars, IInvFor, ServersOK, ClientOK, Done, Served
  <2> QED
    BY <2>1 DEF IInv
<1>3. CASE StartAppend(c)
  <2>1. IInvFor(c, T)'
    BY <1>1, <1>3, StartAppendInv
  <2> QED
    BY <2>1 DEF IInv
<1>4. CASE Combine(c)
  <2>1. IInvFor(c, T)'
    BY <1>1, <1>4, CombineInv
  <2> QED
    BY <2>1 DEF IInv
<1>5. CASE StartQuery(c) \/ Gather(c) \/ \E s \in Server : AggTreeQuery(s, c)
  <2>1. IInvFor(c, T)'
    BY <1>1, <1>5, QueriesInv
  <2> QED
    BY <2>1 DEF IInv
<1>6. ASSUME NEW s \in Server, Append1(s, c)
      PROVE  IInv(c)'
  <2>1. IInvFor(c, T)'
    BY <1>1, <1>6, Append1Inv
  <2> QED
    BY <2>1 DEF IInv
<1>7. ASSUME NEW s \in Server, Append2(s, c)
      PROVE  IInv(c)'
  BY <1>1, <1>7, Append2Inv
<1>8. \/ UNCHANGED vars \/ StartAppend(c) \/ Combine(c) \/ StartQuery(c) \/ Gather(c)
      \/ \E s \in Server : Append1(s, c) \/ Append2(s, c) \/ AggTreeQuery(s, c)
  <2>1. ASSUME NEW x \in Clients,
               \/ StartAppend(x) \/ Combine(x) \/ StartQuery(x) \/ Gather(x)
               \/ \E s \in Server : Append1(s, x) \/ Append2(s, x) \/ AggTreeQuery(s, x)
        PROVE  \/ StartAppend(c) \/ Combine(c) \/ StartQuery(c) \/ Gather(c)
               \/ \E s \in Server : Append1(s, c) \/ Append2(s, c) \/ AggTreeQuery(s, c)
    <3>1. x = c
      OBVIOUS
    <3> QED
      BY <2>1, <3>1, Zenon
  <2>2. Next \/ UNCHANGED vars
    OBVIOUS
  <2> QED
    BY <2>1, <2>2, Zenon DEF Next, Appended
<1> QED
  BY <1>2, <1>3, <1>4, <1>5, <1>6, <1>7, <1>8

\* With one client, the servers have the shares of one well-formed tree, or what
\* the append that is under way has made of them (RestOK, ServersOK, ClientOK).
THEOREM AlwaysShared ==
  ASSUME NEW c, Clients = {c}
  PROVE  Spec => []IInv(c)
<1>1. Init => IInv(c)
  BY InitInv
<1>2. IInv(c) /\ [Next]_vars => IInv(c)'
  BY NextInv
<1> QED
  BY <1>1, <1>2, PTL DEF Spec

-----------------------------------------------------------------------------
(* What the invariant says.                                                *)

LEMMA TypeOfInv ==
  ASSUME NEW c, Clients = {c}, IInv(c)
  PROVE  TypeOK
<1>1. PICK T : IInvFor(c, T)
  BY DEF IInv
<1>2. ServersOK(c, T) /\ ClientOK(c, T) /\ OneShape(T) /\ 0 \in Server
  BY <1>1, RestShape DEF IInvFor, Server
<1>3. \A s \in Server, i \in Slot : ShareOf(s, i) \in Server
  BY DEF ShareOf, Slot, Server
<1>4. ASSUME NEW s \in Server, NEW i \in Slot
      PROVE  TreeOK(tree[s][i])
  <2>1. PICK j \in Server : j = ShareOf(s, i)
    BY <1>3
  <2>2. ShapeOK(T[j])
    BY <1>2 DEF OneShape
  <2>3. TreeOK(T[j]) /\ TreeOK(Grown(T[j]))
    BY <2>2, OfferedFact DEF ShapeOK
  <2>4. s < Done(c) => TreeOK(Finished(T[j], client[c].entry.idx, client[c].shares[j]))
    <3>1. HAVE s < Done(c)
    <3>2. client[c].pc = "append2"
      BY <3>1 DEF Done, Server
    <3>3. client[c].entry \in EntrySet /\ client[c].shares \in [Server -> [1 .. Depth -> Index]]
      BY <1>2, <3>2 DEF ClientOK
    <3>4. PICK idx \in Nat : idx = client[c].entry.idx
      BY <3>3 DEF EntrySet
    <3>5. PICK aggs \in [1 .. Depth -> Index] : aggs = client[c].shares[j]
      BY <3>3
    <3>6. ShapeOK(Finished(T[j], idx, aggs))
      BY <2>2, FinishedFact
    <3> QED
      BY <3>4, <3>5, <3>6 DEF ShapeOK
  <2>5. tree[s][i] = IF s < Done(c) THEN Finished(T[j], client[c].entry.idx, client[c].shares[j])
                     ELSE IF s < Served(c) THEN Grown(T[j]) ELSE T[j]
    BY <1>2, <2>1 DEF ServersOK
  <2> QED
    BY <2>3, <2>4, <2>5
<1>5. \A s \in Server, i \in Slot :
        /\ DOMAIN tree[s][i] \subseteq Paths
        /\ \A p \in DOMAIN tree[s][i] : tree[s][i][p] \in Node
  BY <1>4 DEF TreeOK
<1>6. Offered(T[0]) \in Inner
  BY <1>2, OfferedFact DEF OneShape
<1>7. \A s \in Server : nextFree[s] \in Inner \cup {NULL} /\ crashed[s] = FALSE
  <2>1. \A s \in Server : nextFree[s] \in Inner \cup {NULL} /\ ~ crashed[s]
    BY <1>2, <1>6 DEF ServersOK
  <2> QED
    BY <2>1
<1> QED
  BY <1>2, <1>5, <1>7 DEF TypeOK, ClientOK

\* At rest, server s has share s in its first tree and share s + 1 in its second.
LEMMA SharesAtRest ==
  ASSUME NEW c, Clients = {c}, NEW T, IInvFor(c, T), AtRest
  PROVE  \A s \in Server : tree[s][0] = T[s] /\ tree[s][1] = T[(s + 1) % 3]
<1>1. client[c].pc = "idle"
  BY DEF AtRest
<1>2. Done(c) = 0 /\ Served(c) = 0
  BY <1>1 DEF Done, Served
<1>3. ASSUME NEW s \in Server
      PROVE  tree[s][0] = T[s] /\ tree[s][1] = T[(s + 1) % 3]
  <2>1. ~ (s < 0) /\ 0 \in Slot /\ 1 \in Slot /\ ShareOf(s, 0) = s /\ ShareOf(s, 1) = (s + 1) % 3
    BY DEF Server, Slot, ShareOf
  <2>2. tree[s] = [i \in Slot |-> T[ShareOf(s, i)]]
    BY <1>2, <2>1 DEF IInvFor, ServersOK
  <2> QED
    BY <2>1, <2>2
<1> QED
  BY <1>3

LEMMA CopiesOfInv ==
  ASSUME NEW c, Clients = {c}, IInv(c)
  PROVE  CopiesAgree
<1> SUFFICES ASSUME AtRest, NEW s \in Server
             PROVE  tree[s][1] = tree[(s + 1) % 3][0]
  BY DEF CopiesAgree
<1>1. PICK T : IInvFor(c, T)
  BY DEF IInv
<1>2. (s + 1) % 3 \in Server
  BY DEF Server
<1> QED
  BY <1>1, <1>2, SharesAtRest

LEMMA AggregatesOfInv ==
  ASSUME NEW c, Clients = {c}, AggFunc = "sum", IInv(c)
  PROVE  AggregatesExact
<1> SUFFICES ASSUME AtRest
             PROVE  /\ Value(<<>>) = AggregateOf(log)
                    /\ \A p \in DOMAIN tree[0][0] :
                         {Append(p, "L"), Append(p, "R")} \subseteq DOMAIN tree[0][0] =>
                           Value(p) = Aggregate(Value(Append(p, "L")), Value(Append(p, "R")))
  BY DEF AggregatesExact
<1>1. PICK T : IInvFor(c, T)
  BY DEF IInv
<1>2. 0 \in Server /\ 1 \in Server /\ 2 \in Server
  BY DEF Server
<1>3. tree[0][0] = T[0] /\ tree[1][0] = T[1] /\ tree[2][0] = T[2]
  <2>1. \A s \in Server : tree[s][0] = T[s] /\ tree[s][1] = T[(s + 1) % 3]
    BY <1>1, SharesAtRest
  <2> QED
    BY <1>2, <2>1
<1>4. RestOK(T, log) /\ SharesOK(T, log) /\ ShapeOK(T[0])
  <2>1. RestOK(T, log)
    BY <1>1 DEF IInvFor
  <2>2. OneShape(T)
    BY <2>1, RestShape
  <2> QED
    BY <1>2, <2>1, <2>2 DEF RestOK, OneShape
<1>5. Inner \subseteq DOMAIN T[0] /\ DOMAIN T[0] \subseteq Paths
  BY <1>4 DEF ShapeOK, TreeOK
<1>6. \A p \in DOMAIN T[0] : Value(p) = Clear(T, p)
  BY <1>3 DEF Value, Clear, Opened
<1>7. Value(<<>>) = AggregateOf(log)
  <2>1. PICK r : r = <<>>
    OBVIOUS
  <2>2. r \in DOMAIN T[0] /\ Clear(T, r) = AggregateOf(log)
    BY <1>4, <1>5, <2>1, InnerPaths DEF SharesOK
  <2> QED
    BY <1>6, <2>1, <2>2
<1>8. ASSUME NEW p \in DOMAIN T[0], Append(p, "L") \in DOMAIN T[0], Append(p, "R") \in DOMAIN T[0]
      PROVE  Value(p) = Aggregate(Value(Append(p, "L")), Value(Append(p, "R")))
  <2>1. p \in Inner
    <3>1. p \in Seq(Dir) /\ Len(p) \in 0 .. Depth - 1 /\ (p \notin Inner => Len(p) = Depth - 1)
      BY <1>5, PathFact
    <3>2. Len(Append(p, "L")) <= Depth - 1
      <4>1. PICK q \in Paths : q = Append(p, "L")
        BY <1>5, <1>8
      <4>2. Len(q) \in 0 .. Depth - 1
        BY PathFact
      <4> QED
        BY <4>1, <4>2, DepthAssumption
    <3>3. Len(Append(p, "L")) = Len(p) + 1
      BY <3>1, AppendProperties DEF Dir
    <3> QED
      BY <3>1, <3>2, <3>3, DepthAssumption
  <2>2. Clear(T, p) = Aggregate(Clear(T, Append(p, "L")), Clear(T, Append(p, "R")))
    BY <1>4, <2>1 DEF SharesOK, ChildrenOK
  <2> QED
    BY <1>6, <1>8, <2>2
<1> QED
  BY <1>3, <1>7, <1>8

-----------------------------------------------------------------------------
(* The theorems.                                                           *)

\* Trees, places and clients have their types, through all appends and roll-ups.
THEOREM AlwaysTyped ==
  ASSUME NEW c, Clients = {c}
  PROVE  Spec => []TypeOK
<1>1. Spec => []IInv(c)
  BY AlwaysShared
<1>2. IInv(c) => TypeOK
  BY TypeOfInv
<1> QED
  BY <1>1, <1>2, PTL

\* No assertion of AggTreeAppend1 or AggTreeAppend2 fails: getAppendParent always
\* finds a node with a free place just above the leaves, on every server the same.
THEOREM AlwaysSlotFound ==
  ASSUME NEW c, Clients = {c}
  PROVE  Spec => []SlotFound
<1>1. Spec => []IInv(c)
  BY AlwaysShared
<1>2. IInv(c) => SlotFound
  BY DEF IInv, IInvFor, ServersOK, SlotFound
<1> QED
  BY <1>1, <1>2, PTL

\* Between two appends, the second tree of a server is the first of the next one.
THEOREM CopiesAlwaysAgree ==
  ASSUME NEW c, Clients = {c}
  PROVE  Spec => []CopiesAgree
<1>1. Spec => []IInv(c)
  BY AlwaysShared
<1>2. IInv(c) => CopiesAgree
  BY CopiesOfInv
<1> QED
  BY <1>1, <1>2, PTL

\* Between two appends, the shares of a node add up to the aggregate of its
\* children and those of the root to that of all entries, for sums.
THEOREM AggregatesAlwaysExact ==
  ASSUME NEW c, Clients = {c}, AggFunc = "sum"
  PROVE  Spec => []AggregatesExact
<1>1. Spec => []IInv(c)
  BY AlwaysShared
<1>2. IInv(c) => AggregatesExact
  BY AggregatesOfInv
<1> QED
  BY <1>1, <1>2, PTL

LEMMA RestOfInv ==
  ASSUME NEW c, Clients = {c}, IInv(c)
  PROVE  RestInv
<1> SUFFICES ASSUME AtRest
             PROVE  RestOK([j \in Server |-> tree[j][0]], log)
  BY DEF RestInv
<1>1. PICK T : IInvFor(c, T)
  BY DEF IInv
<1>2. PICK U : U = [j \in Server |-> tree[j][0]]
  OBVIOUS
<1>3. \A s \in Server : tree[s][0] = T[s] /\ tree[s][1] = T[(s + 1) % 3]
  BY <1>1, SharesAtRest
<1>4. 0 \in Server /\ 1 \in Server /\ 2 \in Server /\ \A j \in Server : U[j] = T[j]
  BY <1>2, <1>3 DEF Server
<1>5. U[0] = T[0] /\ U[1] = T[1] /\ U[2] = T[2]
  BY <1>4
<1>6. RestOK(T, log)
  BY <1>1 DEF IInvFor
<1>7. \A p : Clear(U, p) = Clear(T, p)
  BY <1>5 DEF Clear
<1>8. ValuesOK(T) => ValuesOK(U)
  BY <1>5 DEF ValuesOK
<1>9. SharesOK(T, log) => SharesOK(U, log)
  BY <1>7, <1>8 DEF SharesOK, ChildrenOK
<1>10. RestOK(U, log)
  BY <1>4, <1>5, <1>6, <1>9 DEF RestOK
<1> QED
  BY <1>2, <1>10

\* Between two appends, every server's trees are well formed and of one shape, a
\* node says which of its last leaves are there, and the three shares of every
\* aggregate are there or none is.
THEOREM AlwaysWellFormed ==
  ASSUME NEW c, Clients = {c}
  PROVE  Spec => []RestInv
<1>1. Spec => []IInv(c)
  BY AlwaysShared
<1>2. IInv(c) => RestInv
  BY RestOfInv
<1> QED
  BY <1>1, <1>2, PTL

=============================================================================
