--------------------------- MODULE RSSQuery_proofs ---------------------------
(***************************************************************************)
(* Proofs about a query at the servers, for queries of any kind with any   *)
(* number of predicates and leaves, windows of any length and servers at   *)
(* any pace: what the plans of the handlers write before they read it, and *)
(* mask before they send it; that the masks cancel; that neighbours hold   *)
(* the same third of every vector; and that the client's result is exact,  *)
(* so that the servers and the client implement PrivateAggregate.          *)
(***************************************************************************)
EXTENDS RSSQuery, RecursionFacts, SequenceTheorems, TLAPS

-----------------------------------------------------------------------------
(* Plans.                                                                  *)

Reg == {"block", "offset", "leaf", "pred"} \X Nat \X Nat

InstrSet ==
  [op : {"reshare"}, regs : Seq(Reg)]
    \cup [op : {"fill"}, first : Nat, rows : Nat]
    \cup [op : {"and", "or"}, x : Reg, y : Reg, dst : Reg, row : Nat]

\* The vectors that an exchange writes.
Outputs(in) == IF in.op = "reshare" THEN Range(in.regs) ELSE {in.dst}

\* What the instructions of seq before the i-th one write.
WrittenIn(seq, i) ==
  UNION {Outputs(seq[j]) : j \in {j \in 1 .. Len(seq) : j < i /\ seq[j].op \in Exchanges}}

\* The f-th instruction filled the zero shares that the i-th one finds; only
\* combinations are between them, which reuse the coefficients as well.
LastFill(seq, f, i) ==
  /\ f \in 1 .. i - 1 /\ seq[f].op = "fill"
  /\ \A g \in f + 1 .. i - 1 : seq[g].op \in {"and", "or"}

Masked(seq, i) ==
  \E f \in 1 .. i - 1 :
    LastFill(seq, f, i) /\ seq[i].row \in seq[f].first .. seq[f].first + seq[f].rows - 1

\* The i-th instruction reshares vectors of In, or combines two vectors that
\* are in W or were written before it, with a mask of the last Fill.
InstrOK(seq, i, W, In) ==
  /\ seq[i].op = "reshare" => Range(seq[i].regs) \subseteq In
  /\ seq[i].op \in {"and", "or"} =>
       /\ {seq[i].x, seq[i].y} \subseteq W \cup WrittenIn(seq, i)
       /\ seq[i].y # seq[i].dst
       /\ Masked(seq, i)

\* A piece of a plan that can follow after W was written, and then V is.
Piece(seq, W, V, In) ==
  /\ seq \in Seq(InstrSet)
  /\ \A i \in 1 .. Len(seq) : InstrOK(seq, i, W, In)
  /\ V \subseteq W \cup WrittenIn(seq, Len(seq) + 1)

\* Which instructions there are.
LEMMA InstrKinds ==
  ASSUME NEW in \in InstrSet
  PROVE  /\ in.op \in {"reshare", "fill", "and", "or"}
         /\ in.op = "reshare" => in.regs \in Seq(Reg)
         /\ in.op = "fill" => in.first \in Nat /\ in.rows \in Nat
         /\ in.op \in {"and", "or"} =>
              in.x \in Reg /\ in.y \in Reg /\ in.dst \in Reg /\ in.row \in Nat
BY DEF InstrSet

\* Later instructions find more written.
LEMMA WrittenMember ==
  ASSUME NEW seq, NEW i, NEW j \in 1 .. Len(seq), j < i, seq[j].op \in Exchanges,
         NEW v \in Outputs(seq[j])
  PROVE  v \in WrittenIn(seq, i)
BY DEF WrittenIn

\* What was written was written by some exchange.
LEMMA WrittenBy ==
  ASSUME NEW seq, NEW i, NEW v \in WrittenIn(seq, i)
  PROVE  \E j \in 1 .. Len(seq) : j < i /\ seq[j].op \in Exchanges /\ v \in Outputs(seq[j])
BY DEF WrittenIn

\* A piece may find more written, and promise less.
LEMMA PieceWeaker ==
  ASSUME NEW seq, NEW W, NEW V, NEW In, Piece(seq, W, V, In),
         NEW W2, NEW V2, W \subseteq W2, V2 \subseteq V \cup W2
  PROVE  Piece(seq, W2, V2, In)
BY DEF Piece, InstrOK

\* Nothing is a piece.
LEMMA PieceEmpty ==
  ASSUME NEW W, NEW In
  PROVE  Piece(<<>>, W, W, In)
BY DEF Piece

\* One piece after the other is a piece.
LEMMA PieceConcat ==
  ASSUME NEW a, NEW b, NEW W, NEW V, NEW U, NEW In,
         Piece(a, W, V, In), Piece(b, V, U, In)
  PROVE  Piece(a \o b, W, U, In)
<1> DEFINE c == a \o b
           n == Len(a)
           m == Len(b)
<1>1. a \in Seq(InstrSet) /\ b \in Seq(InstrSet) /\ n \in Nat /\ m \in Nat
  BY DEF Piece
<1>2. /\ c \in Seq(InstrSet) /\ Len(c) = n + m
      /\ \A i \in 1 .. n + m : c[i] = IF i <= n THEN a[i] ELSE b[i - n]
  BY <1>1, ConcatProperties
<1>3. /\ \A i \in 1 .. n : i \in 1 .. n + m /\ c[i] = a[i]
      /\ \A i \in 1 .. m : n + i \in 1 .. n + m /\ c[n + i] = b[i]
  BY <1>1, <1>2
<1> HIDE DEF c
<1>4. ASSUME NEW i \in Int, i <= n + 1
      PROVE  WrittenIn(a, i) \subseteq WrittenIn(c, i)
  <2> SUFFICES ASSUME NEW v \in WrittenIn(a, i) PROVE v \in WrittenIn(c, i)
    OBVIOUS
  <2>1. PICK j \in 1 .. n : j < i /\ a[j].op \in Exchanges /\ v \in Outputs(a[j])
    BY WrittenBy
  <2> QED
    BY <1>2, <1>3, <2>1, WrittenMember
<1>5. ASSUME NEW i \in 1 .. m + 1
      PROVE  WrittenIn(a, n + 1) \cup WrittenIn(b, i) \subseteq WrittenIn(c, n + i)
  <2>1. ASSUME NEW v \in WrittenIn(a, n + 1) PROVE v \in WrittenIn(c, n + i)
    <3>1. PICK j \in 1 .. n : j < n + 1 /\ a[j].op \in Exchanges /\ v \in Outputs(a[j])
      BY <2>1, WrittenBy
    <3>2. j < n + i
      BY <1>1, <3>1
    <3> QED
      BY <1>2, <1>3, <3>1, <3>2, WrittenMember
  <2>2. ASSUME NEW v \in WrittenIn(b, i) PROVE v \in WrittenIn(c, n + i)
    <3>1. PICK j \in 1 .. m : j < i /\ b[j].op \in Exchanges /\ v \in Outputs(b[j])
      BY <2>2, WrittenBy
    <3> DEFINE k == n + j
    <3>2. k \in 1 .. Len(c) /\ k < n + i /\ c[k] = b[j]
      BY <1>1, <1>2, <1>3, <3>1
    <3> HIDE DEF k
    <3> QED
      BY <3>1, <3>2, WrittenMember
  <2> QED
    BY <2>1, <2>2
<1>6. V \subseteq W \cup WrittenIn(c, n + 1)
  BY <1>1, <1>4 DEF Piece
<1>7. ASSUME NEW i \in 1 .. n
      PROVE  InstrOK(c, i, W, In)
  <2>1. InstrOK(a, i, W, In)
    BY DEF Piece
  <2>2. WrittenIn(a, i) \subseteq WrittenIn(c, i)
    BY <1>1, <1>4
  <2>3. Masked(a, i) => Masked(c, i)
    <3>1. \A g \in 1 .. i : c[g] = a[g]
      BY <1>3
    <3> QED
      BY SMTT(30), <3>1 DEF Masked, LastFill
  <2> QED
    BY <1>3, <2>1, <2>2, <2>3 DEF InstrOK
<1>8. ASSUME NEW i \in 1 .. m
      PROVE  InstrOK(c, n + i, W, In)
  <2> DEFINE k == n + i
  <2>1. InstrOK(b, i, V, In) /\ c[k] = b[i]
    BY <1>3 DEF Piece
  <2>2. V \cup WrittenIn(b, i) \subseteq W \cup WrittenIn(c, k)
    <3>1. WrittenIn(a, n + 1) \cup WrittenIn(b, i) \subseteq WrittenIn(c, n + i)
      BY <1>1, <1>5
    <3>2. V \subseteq W \cup WrittenIn(a, n + 1)
      BY DEF Piece
    <3> QED
      BY <3>1, <3>2
  <2>3. ASSUME Masked(b, i)
        PROVE  Masked(c, k)
    <3>1. PICK f \in 1 .. i - 1 :
            LastFill(b, f, i) /\ b[i].row \in b[f].first .. b[f].first + b[f].rows - 1
      BY <2>3 DEF Masked
    <3> DEFINE e == n + f
    <3>2. e \in 1 .. k - 1 /\ c[e] = b[f]
      BY <1>1, <1>3, <3>1
    <3>3. \A g \in e + 1 .. k - 1 : c[g].op \in {"and", "or"}
      <4> SUFFICES ASSUME NEW g \in e + 1 .. k - 1 PROVE c[g].op \in {"and", "or"}
        OBVIOUS
      <4>1. g - n \in f + 1 .. i - 1 /\ g - n \in 1 .. m /\ n + (g - n) = g
        BY <1>1, <3>1
      <4>2. c[g] = b[g - n]
        BY <1>3, <4>1
      <4> QED
        BY <3>1, <4>1, <4>2 DEF LastFill
    <3> HIDE DEF e, k
    <3>4. LastFill(c, e, k)
      BY <3>1, <3>2, <3>3 DEF LastFill
    <3> QED
      BY <2>1, <3>1, <3>2, <3>4 DEF Masked
  <2> HIDE DEF k
  <2>4. InstrOK(c, k, W, In)
    BY <2>1, <2>2, <2>3 DEF InstrOK
  <2> QED
    BY <2>4 DEF k
<1>9. \A i \in 1 .. Len(c) : InstrOK(c, i, W, In)
  <2> SUFFICES ASSUME NEW i \in 1 .. Len(c) PROVE InstrOK(c, i, W, In)
    OBVIOUS
  <2>1. CASE i <= n
    BY <1>1, <1>2, <1>7, <2>1
  <2>2. CASE i > n
    <3>1. i - n \in 1 .. m /\ n + (i - n) = i
      BY <1>1, <1>2, <2>2
    <3> QED
      BY <1>8, <3>1
  <2> QED
    BY <1>1, <2>1, <2>2
<1>10. U \subseteq W \cup WrittenIn(c, Len(c) + 1)
  <2>1. U \subseteq V \cup WrittenIn(b, m + 1)
    BY DEF Piece
  <2>2. V \subseteq W \cup WrittenIn(a, n + 1)
    BY DEF Piece
  <2>3. WrittenIn(a, n + 1) \cup WrittenIn(b, m + 1) \subseteq WrittenIn(c, n + (m + 1))
    BY <1>1, <1>5
  <2>4. n + (m + 1) = Len(c) + 1
    BY <1>1, <1>2
  <2> QED
    BY <2>1, <2>2, <2>3, <2>4
<1> QED
  BY <1>2, <1>9, <1>10 DEF Piece, c

\* One exchange of inputs.
LEMMA PieceReshare ==
  ASSUME NEW regs \in Seq(Reg), NEW In, Range(regs) \subseteq In
  PROVE  Piece(<<Reshare(regs)>>, {}, Range(regs), In)
<1> DEFINE seq == <<Reshare(regs)>>
<1>1. Reshare(regs) \in InstrSet
  BY DEF Reshare, InstrSet
<1>2. seq \in Seq(InstrSet) /\ Len(seq) = 1 /\ seq[1] = Reshare(regs)
  BY <1>1
<1>3. /\ Reshare(regs).op = "reshare" /\ Reshare(regs).regs = regs
  BY DEF Reshare
<1> HIDE DEF seq
<1>4. InstrOK(seq, 1, {}, In)
  BY <1>2, <1>3 DEF InstrOK
<1>5. Range(regs) \subseteq WrittenIn(seq, 2)
  <2>1. 1 \in 1 .. Len(seq) /\ 1 < 2 /\ seq[1].op \in Exchanges
    BY <1>2, <1>3 DEF Exchanges
  <2>2. Outputs(seq[1]) = Range(regs)
    BY <1>2, <1>3 DEF Outputs
  <2> QED
    BY <2>1, <2>2, WrittenMember
<1> QED
  BY <1>2, <1>4, <1>5 DEF Piece, seq

\* Combinations of vectors in W, with masks of rows rows.
Combinations(body, W, rows) ==
  \A i \in 1 .. Len(body) :
    /\ body[i].op \in {"and", "or"}
    /\ {body[i].x, body[i].y} \subseteq W /\ body[i].y # body[i].dst
    /\ body[i].row \in rows

\* What they write.
Destinations(body) == {body[i].dst : i \in 1 .. Len(body)}

\* A Fill and combinations that use its rows, of vectors written before.
LEMMA PieceFill ==
  ASSUME NEW W, NEW In, NEW f \in Nat, NEW rows \in Nat, NEW body \in Seq(InstrSet),
         Combinations(body, W, f .. f + rows - 1)
  PROVE  Piece(<<Fill(f, rows)>> \o body, W, W \cup Destinations(body), In)
<1> DEFINE n == Len(body)
<1> DEFINE one == <<Fill(f, rows)>>
           c   == one \o body
<1>0. n \in Nat
  OBVIOUS
<1>9. \A i \in 1 .. n :
        /\ body[i].op \in {"and", "or"}
        /\ {body[i].x, body[i].y} \subseteq W /\ body[i].y # body[i].dst
        /\ body[i].row \in f .. f + rows - 1
  BY DEF Combinations
<1>1. Fill(f, rows) \in InstrSet
  BY DEF Fill, InstrSet
<1>2. one \in Seq(InstrSet) /\ Len(one) = 1 /\ one[1] = Fill(f, rows)
  BY <1>1
<1> HIDE DEF one, n
<1>3. /\ c \in Seq(InstrSet) /\ Len(c) = 1 + n
      /\ \A i \in 1 .. 1 + n : c[i] = IF i <= 1 THEN one[i] ELSE body[i - 1]
  <2> DEFINE m == Len(one)
  <2>1. /\ c \in Seq(InstrSet) /\ Len(c) = m + n
        /\ \A i \in 1 .. m + n : c[i] = IF i <= m THEN one[i] ELSE body[i - m]
    BY <1>2, ConcatProperties DEF n
  <2> HIDE DEF c
  <2> QED
    BY <1>2, <2>1
<1>4. c[1] = Fill(f, rows) /\ \A i \in 1 .. n : i + 1 \in 1 .. Len(c) /\ c[i + 1] = body[i]
  <2>1. c[1] = Fill(f, rows)
    BY <1>0, <1>2, <1>3
  <2>2. ASSUME NEW i \in 1 .. n
        PROVE  i + 1 \in 1 .. Len(c) /\ c[i + 1] = body[i]
    <3>1. i + 1 \in 1 .. 1 + n /\ ~(i + 1 <= 1) /\ (i + 1) - 1 = i
      BY <1>0
    <3> HIDE DEF c
    <3> QED
      BY <1>3, <3>1
  <2> QED
    BY <2>1, <2>2
<1>5. c[1].op = "fill" /\ c[1].first = f /\ c[1].rows = rows
  BY <1>4 DEF Fill
<1> HIDE DEF c
<1>6. ASSUME NEW i \in 1 .. n
      PROVE  InstrOK(c, i + 1, W, In)
  <2> DEFINE k == i + 1
  <2>1. c[k] = body[i] /\ k \in 2 .. n + 1 /\ 1 \in 1 .. k - 1
    BY <1>0, <1>4
  <2>2. \A g \in 1 + 1 .. k - 1 : c[g].op \in {"and", "or"}
    <3> SUFFICES ASSUME NEW g \in 2 .. k - 1 PROVE c[g].op \in {"and", "or"}
      OBVIOUS
    <3>1. g - 1 \in 1 .. n /\ (g - 1) + 1 = g
      BY <1>0
    <3>2. c[g] = body[g - 1]
      BY <1>4, <3>1
    <3> QED
      BY <1>9, <3>1, <3>2
  <2> HIDE DEF k
  <2>3. LastFill(c, 1, k)
    BY <1>5, <2>1, <2>2 DEF LastFill
  <2>4. Masked(c, k)
    BY <1>9, <1>5, <2>1, <2>3 DEF Masked
  <2>5. InstrOK(c, k, W, In)
    BY <1>9, <2>1, <2>4 DEF InstrOK
  <2> QED
    BY <2>5 DEF k
<1>7. \A i \in 1 .. Len(c) : InstrOK(c, i, W, In)
  <2> SUFFICES ASSUME NEW i \in 1 .. Len(c) PROVE InstrOK(c, i, W, In)
    OBVIOUS
  <2>1. CASE i = 1
    BY <1>5, <2>1 DEF InstrOK
  <2>2. CASE i # 1
    <3>1. i - 1 \in 1 .. n /\ (i - 1) + 1 = i
      BY <1>0, <1>3, <2>2
    <3> QED
      BY <1>6, <3>1
  <2> QED
    BY <2>1, <2>2
<1>8. ASSUME NEW i \in 1 .. n
      PROVE  body[i].dst \in WrittenIn(c, Len(c) + 1)
  <2> DEFINE k == i + 1
  <2>1. k \in 1 .. Len(c) /\ k < Len(c) + 1 /\ c[k] = body[i]
    BY <1>0, <1>3, <1>4
  <2> HIDE DEF k
  <2>2. c[k].op \in Exchanges /\ body[i].dst \in Outputs(c[k])
    BY <1>9, <2>1 DEF Exchanges, Outputs
  <2> QED
    BY <2>1, <2>2, WrittenMember
<1>10. W \cup Destinations(body) \subseteq W \cup WrittenIn(c, Len(c) + 1)
  BY <1>8 DEF Destinations, n
<1> QED
  BY <1>3, <1>7, <1>10 DEF Piece, c, one

\* The same after another instruction.
LEMMA PieceTwo ==
  ASSUME NEW a \in InstrSet, NEW b \in InstrSet, NEW body \in Seq(InstrSet)
  PROVE  <<a, b>> \o body = <<a>> \o (<<b>> \o body)
<1> DEFINE x == <<a>>
           y == <<b>>
<1>1. x \in Seq(InstrSet) /\ y \in Seq(InstrSet)
  OBVIOUS
<1>2. <<a, b>> = x \o y
  <2> DEFINE z == <<a, b>>
  <2>1. z \in Seq(InstrSet) /\ Len(z) = 2 /\ z[1] = a /\ z[2] = b
    OBVIOUS
  <2>2. Len(x) = 1 /\ x[1] = a /\ Len(y) = 1 /\ y[1] = b
    OBVIOUS
  <2> HIDE DEF x, y, z
  <2> DEFINE w == x \o y
  <2>3. /\ w \in Seq(InstrSet) /\ Len(w) = Len(x) + Len(y)
        /\ \A i \in 1 .. Len(x) + Len(y) : w[i] = IF i <= Len(x) THEN x[i] ELSE y[i - Len(x)]
    BY <1>1, ConcatProperties
  <2> HIDE DEF w
  <2>4. Len(w) = 2 /\ w[1] = a /\ w[2] = b
    BY <2>2, <2>3
  <2>5. z = w
    BY <2>1, <2>3, <2>4, SeqEqual
  <2> QED
    BY <2>5 DEF w, z
<1> HIDE DEF x, y
<1>3. (x \o y) \o body = x \o (y \o body)
  BY <1>1, ConcatAssociative
<1> QED
  BY <1>2, <1>3 DEF x, y

\* The steps of a chain of combinations into the first vector.
IsChain(body, op, regs, row) ==
  /\ body \in Seq(InstrSet)
  /\ Len(body) = Len(regs) - 1
  /\ \A i \in 1 .. Len(regs) - 1 :
       /\ body[i].op = op
       /\ body[i].x = regs[1] /\ body[i].dst = regs[1]
       /\ body[i].y = regs[i + 1] /\ body[i].row = row + i - 1

\* Accumulate is such a chain.
LEMMA AccumulateSteps ==
  ASSUME NEW op \in {"and", "or"}, NEW regs \in Seq(Reg), NEW row \in Nat, Len(regs) \in Nat \ {0}
  PROVE  IsChain(Accumulate(op, regs, row), op, regs, row)
<1> DEFINE body == Accumulate(op, regs, row)
           m == Len(regs) - 1
<1>1. m \in Nat
  OBVIOUS
<1>2. ASSUME NEW i \in 1 .. m
      PROVE  /\ body[i] = Combine(op, regs[1], regs[i + 1], regs[1], row + i - 1)
             /\ body[i] \in InstrSet
  <2>1. regs[1] \in Reg /\ regs[i + 1] \in Reg /\ row + i - 1 \in Nat
    <3>1. 1 \in 1 .. Len(regs) /\ i + 1 \in 1 .. Len(regs)
      OBVIOUS
    <3> QED
      BY <3>1, ElementOfSeq
  <2>2. Combine(op, regs[1], regs[i + 1], regs[1], row + i - 1) \in InstrSet
    BY <2>1 DEF Combine, InstrSet
  <2> QED
    BY <2>2 DEF Accumulate
<1>3. body \in [1 .. m -> InstrSet]
  BY <1>2 DEF Accumulate
<1>4. body \in Seq(InstrSet) /\ Len(body) = m
  <2> HIDE DEF body, m
  <2> QED
    BY <1>1, <1>3
<1>5. ASSUME NEW i \in 1 .. m
      PROVE  /\ body[i].op = op
             /\ body[i].x = regs[1] /\ body[i].dst = regs[1]
             /\ body[i].y = regs[i + 1] /\ body[i].row = row + i - 1
  <2> DEFINE c == Combine(op, regs[1], regs[i + 1], regs[1], row + i - 1)
  <2>1. body[i] = c
    BY <1>2
  <2>2. /\ c.op = op /\ c.x = regs[1] /\ c.dst = regs[1]
        /\ c.y = regs[i + 1] /\ c.row = row + i - 1
    BY DEF Combine
  <2> HIDE DEF body, c
  <2> QED
    BY <2>1, <2>2
<1> HIDE DEF body
<1> QED
  BY <1>4, <1>5 DEF IsChain, body

\* A Fill and a chain over vectors that were written before, none of which is
\* the accumulator.
LEMMA PieceChain ==
  ASSUME NEW op \in {"and", "or"}, NEW regs \in Seq(Reg), Len(regs) \in Nat \ {0},
         \A i \in 2 .. Len(regs) : regs[i] # regs[1],
         NEW W, NEW In, Range(regs) \subseteq W,
         NEW f \in Nat, NEW rows \in Nat, NEW row \in Nat,
         f <= row, row + Len(regs) - 1 <= f + rows
  PROVE  Piece(<<Fill(f, rows)>> \o Accumulate(op, regs, row), W, W, In)
<1> DEFINE body == Accumulate(op, regs, row)
           m == Len(regs) - 1
           V == W \cup Destinations(body)
<1>1. /\ body \in Seq(InstrSet)
      /\ Len(body) = m
      /\ \A i \in 1 .. m :
           /\ body[i].op = op
           /\ body[i].x = regs[1] /\ body[i].dst = regs[1]
           /\ body[i].y = regs[i + 1] /\ body[i].row = row + i - 1
  <2>1. IsChain(body, op, regs, row)
    BY AccumulateSteps
  <2> HIDE DEF body
  <2> QED
    BY <2>1 DEF IsChain
<1>2. m \in Nat
  OBVIOUS
<1>3. \A i \in 1 .. Len(regs) : regs[i] \in W
  BY DEF Range
<1> HIDE DEF body
<1>4. ASSUME NEW i \in 1 .. m
      PROVE  /\ body[i].op \in {"and", "or"}
             /\ {body[i].x, body[i].y} \subseteq W /\ body[i].y # body[i].dst
             /\ body[i].row \in f .. f + rows - 1
  <2>1. i + 1 \in 2 .. Len(regs) /\ i + 1 \in 1 .. Len(regs) /\ 1 \in 1 .. Len(regs)
    OBVIOUS
  <2>2. body[i].row = row + i - 1 /\ body[i].op = op
    BY <1>1
  <2>3. {body[i].x, body[i].y} \subseteq W /\ body[i].y # body[i].dst
    BY ZenonT(60), <1>1, <1>3, <2>1
  <2> QED
    BY <2>2, <2>3
<1> HIDE DEF m, V
<1>5. Piece(<<Fill(f, rows)>> \o body, W, W \cup Destinations(body), In)
  <2>1. Combinations(body, W, f .. f + rows - 1)
    BY <1>1, <1>4 DEF Combinations
  <2> QED
    BY <1>1, <2>1, PieceFill
<1>6. W \subseteq W /\ W \subseteq V \cup W
  OBVIOUS
<1> QED
  BY <1>5, <1>6, PieceWeaker DEF body, V

\* What is left of a union of vectors that were written before.
LEMMA PieceUnion ==
  ASSUME NEW op \in {"and", "or"}, NEW regs \in Seq(Reg), Len(regs) \in Nat \ {0},
         \A i \in 2 .. Len(regs) : regs[i] # regs[1],
         NEW W, NEW In, Range(regs) \subseteq W
  PROVE  Piece(Union(op, regs), W, W, In)
<1>1. CASE Len(regs) = 1
  BY <1>1, PieceEmpty DEF Union
<1>2. CASE Len(regs) # 1
  <2>1. Len(regs) - 1 \in Nat /\ 0 <= 0 /\ 0 + Len(regs) - 1 <= 0 + (Len(regs) - 1) /\ 0 \in Nat
    OBVIOUS
  <2>2. Piece(<<Fill(0, Len(regs) - 1)>> \o Accumulate(op, regs, 0), W, W, In)
    BY <2>1, PieceChain
  <2> QED
    BY <1>2, <2>2 DEF Union
<1> QED
  BY <1>1, <1>2

\* The sequences joined from left to right.
IsJoin(h, n, seqs) == h[0] = <<>> /\ \A i \in 1 .. n : h[i] = h[i - 1] \o seqs[i]

\* FlattenSeq joins sequences from left to right.
LEMMA FlattenJoins ==
  ASSUME NEW S, NEW seqs, NEW N \in Nat \ {0}, Len(seqs) = N,
         \A i \in 1 .. N : seqs[i] \in Seq(S)
  PROVE  \E h \in [0 .. N -> Seq(S)] : IsJoin(h, N, seqs) /\ FlattenSeq(seqs) = h[N]
<1> DEFINE T == Seq(S)
           G == [i \in 1 .. N |-> [x \in T |-> x \o seqs[i]]]
           Join(g) == [i \in 1 .. N |-> IF i = 1 THEN seqs[i] ELSE g[i - 1] \o seqs[i]]
           F == CHOOSE g : g = Join(g)
<1>1. FlattenSeq(seqs) = F[N]
  BY DEF FlattenSeq
<1>2. G \in [1 .. N -> [T -> T]] /\ <<>> \in T
  <2>1. \A i \in 1 .. N, x \in T : x \o seqs[i] \in T
    BY ConcatProperties
  <2>2. <<>> \in T
    OBVIOUS
  <2> QED
    BY <2>1, <2>2
<1>3. PICK h \in [0 .. N -> T] : IsIteration(h, N, <<>>, G)
  <2> HIDE DEF G, T
  <2> QED
    BY <1>2, Iteration
<1>4. \A i \in 1 .. N : h[i - 1] \in T /\ h[i] = h[i - 1] \o seqs[i]
  <2> SUFFICES ASSUME NEW i \in 1 .. N PROVE h[i - 1] \in T /\ h[i] = h[i - 1] \o seqs[i]
    OBVIOUS
  <2>1. i - 1 \in 0 .. N
    OBVIOUS
  <2>2. h[i - 1] \in T
    BY <2>1
  <2>3. h[i] = G[i][h[i - 1]]
    BY <1>3 DEF IsIteration
  <2>4. G[i][h[i - 1]] = h[i - 1] \o seqs[i]
    BY <2>2
  <2> QED
    BY <2>2, <2>3, <2>4
<1>5. h[0] = <<>>
  BY <1>3 DEF IsIteration
<1>6. h[1] = seqs[1]
  <2>1. h[1] = h[1 - 1] \o seqs[1] /\ 1 \in 1 .. N
    BY SMTT(40), <1>4
  <2>2. <<>> \o seqs[1] = seqs[1]
    BY <2>1, ConcatEmptySeq
  <2>3. h[1 - 1] = <<>>
    BY <1>5
  <2> QED
    BY <2>1, <2>2, <2>3
<1> DEFINE hh == [i \in 1 .. N |-> h[i]]
<1>7. hh = Join(hh)
  <2>1. ASSUME NEW i \in 1 .. N
        PROVE  h[i] = IF i = 1 THEN seqs[i] ELSE hh[i - 1] \o seqs[i]
    <3>1. CASE i = 1
      BY <3>1, <1>6
    <3>2. CASE i # 1
      <4>1. i - 1 \in 1 .. N
        BY <3>2
      <4>2. hh[i - 1] = h[i - 1]
        BY <4>1
      <4> QED
        BY <3>2, <4>2, <1>4
    <3> QED
      BY <3>1, <3>2
  <2>2. Join(hh) = [i \in 1 .. N |-> h[i]]
    BY <2>1
  <2> QED
    BY <2>2
<1>8. F = Join(F)
  <2> HIDE DEF Join, hh
  <2> QED
    BY <1>7
<1> DEFINE U == {i \in 0 .. N : i = 0 \/ F[i] = h[i]}
<1> HIDE DEF F
<1>9. \A i \in 1 .. N : F[i] = IF i = 1 THEN seqs[i] ELSE F[i - 1] \o seqs[i]
  BY <1>8
<1>10. \A i \in 0 .. N - 1 : i \in U => i + 1 \in U
  <2> SUFFICES ASSUME NEW i \in 0 .. N - 1, i \in U PROVE i + 1 \in U
    OBVIOUS
  <2>1. i + 1 \in 1 .. N /\ (i + 1) - 1 = i
    OBVIOUS
  <2>2. CASE i = 0
    BY <2>1, <2>2, <1>6, <1>9
  <2>3. CASE i # 0
    <3> DEFINE k == i + 1
    <3>1. k \in 1 .. N /\ k # 1 /\ k - 1 = i
      BY <2>3
    <3>2. F[i] = h[i]
      BY <2>3
    <3> HIDE DEF k, U, T
    <3>3. F[k] = F[k - 1] \o seqs[k]
      BY <3>1, <1>9
    <3>4. h[k] = h[k - 1] \o seqs[k]
      BY <3>1, <1>4
    <3>5. F[k - 1] = h[k - 1]
      BY <3>1, <3>2, Zenon
    <3>6. k \in 0 .. N
      BY <3>1
    <3>7. F[k] = h[k]
      BY <3>3, <3>4, <3>5, Zenon
    <3> QED
      BY <3>6, <3>7 DEF k, U
  <2> QED
    BY <2>2, <2>3
<1>11. N \in U
  <2>1. 0 \in U
    OBVIOUS
  <2> HIDE DEF U
  <2>2. 0 .. N \subseteq U
    BY <1>10, <2>1, BoundedInduction
  <2> QED
    BY <2>2
<1>12. FlattenSeq(seqs) = h[N]
  BY <1>1, <1>11
<1> QED
  BY <1>4, <1>5, <1>12 DEF IsJoin

\* Every element of a flattened sequence is of one of the sequences, and back.
LEMMA FlattenElements ==
  ASSUME NEW S, NEW seqs, NEW N \in Nat \ {0}, Len(seqs) = N,
         \A i \in 1 .. N : seqs[i] \in Seq(S)
  PROVE  /\ FlattenSeq(seqs) \in Seq(S)
         /\ Range(FlattenSeq(seqs)) = UNION {Range(seqs[i]) : i \in 1 .. N}
<1>1. PICK h \in [0 .. N -> Seq(S)] : IsJoin(h, N, seqs) /\ FlattenSeq(seqs) = h[N]
  BY FlattenJoins
<1> DEFINE T == {k \in 0 .. N : Range(h[k]) = UNION {Range(seqs[i]) : i \in 1 .. k}}
<1>2. 0 \in T
  <2>1. h[0] = <<>>
    BY <1>1 DEF IsJoin
  <2>2. Range(h[0]) = {}
    BY <2>1 DEF Range
  <2> QED
    BY <2>2
<1>3. \A k \in 0 .. N - 1 : k \in T => k + 1 \in T
  <2> SUFFICES ASSUME NEW k \in 0 .. N - 1, k \in T PROVE k + 1 \in T
    OBVIOUS
  <2> DEFINE j == k + 1
  <2>1. j \in 1 .. N /\ j - 1 = k /\ j \in 0 .. N /\ k \in 0 .. N
    OBVIOUS
  <2>2. 1 .. j = 1 .. k \cup {j}
    OBVIOUS
  <2> HIDE DEF j
  <2>3. h[j] = h[k] \o seqs[j]
    BY <1>1, <2>1 DEF IsJoin
  <2>4. h[k] \in Seq(S) /\ seqs[j] \in Seq(S)
    BY <2>1
  <2>5. Range(h[k] \o seqs[j]) = Range(h[k]) \cup Range(seqs[j])
    <3> DEFINE a == h[k]
               b == seqs[j]
               c == a \o b
    <3>1. a \in Seq(S) /\ b \in Seq(S)
      BY <2>4
    <3> HIDE DEF a, b
    <3>2. /\ c \in Seq(S) /\ Len(c) = Len(a) + Len(b)
          /\ \A i \in 1 .. Len(a) + Len(b) : c[i] = IF i <= Len(a) THEN a[i] ELSE b[i - Len(a)]
      BY <3>1, ConcatProperties
    <3>3. Len(a) \in Nat /\ Len(b) \in Nat /\ DOMAIN a = 1 .. Len(a) /\ DOMAIN b = 1 .. Len(b)
          /\ DOMAIN c = 1 .. Len(c)
      BY <3>1, <3>2, LenProperties
    <3> HIDE DEF c
    <3>4. ASSUME NEW x \in Range(c) PROVE x \in Range(a) \cup Range(b)
      <4>1. PICK i \in 1 .. Len(c) : c[i] = x
        BY <3>3 DEF Range
      <4>2. CASE i <= Len(a)
        <5>1. i \in 1 .. Len(a) /\ c[i] = a[i]
          BY <3>2, <3>3, <4>1, <4>2
        <5> QED
          BY <3>3, <4>1, <5>1 DEF Range
      <4>3. CASE ~(i <= Len(a))
        <5>1. i - Len(a) \in 1 .. Len(b) /\ c[i] = b[i - Len(a)]
          BY <3>2, <3>3, <4>1, <4>3
        <5> QED
          BY <3>3, <4>1, <5>1 DEF Range
      <4> QED
        BY <4>2, <4>3
    <3>5. ASSUME NEW x \in Range(a) PROVE x \in Range(c)
      <4>1. PICK i \in 1 .. Len(a) : a[i] = x
        BY <3>3 DEF Range
      <4>2. i \in 1 .. Len(c) /\ c[i] = x
        BY <3>2, <3>3, <4>1
      <4> QED
        BY <3>3, <4>2 DEF Range
    <3>6. ASSUME NEW x \in Range(b) PROVE x \in Range(c)
      <4>1. PICK i \in 1 .. Len(b) : b[i] = x
        BY <3>3 DEF Range
      <4> DEFINE e == Len(a) + i
      <4>2. e \in 1 .. Len(c) /\ ~(e <= Len(a)) /\ e - Len(a) = i
        BY <3>2, <3>3
      <4> HIDE DEF e
      <4>3. c[e] = x
        BY <3>2, <4>1, <4>2
      <4> QED
        BY <3>3, <4>2, <4>3 DEF Range
    <3>7. Range(a \o b) = Range(a) \cup Range(b)
      BY <3>4, <3>5, <3>6 DEF c
    <3> QED
      BY <3>7 DEF a, b
  <2>6. Range(h[k]) = UNION {Range(seqs[i]) : i \in 1 .. k}
    OBVIOUS
  <2> HIDE DEF T
  <2>7. Range(h[j]) = UNION {Range(seqs[i]) : i \in 1 .. j}
    BY <2>2, <2>3, <2>5, <2>6
  <2> QED
    BY <2>1, <2>7 DEF T, j
<1>4. N \in T
  <2> HIDE DEF T
  <2>1. 0 .. N \subseteq T
    BY <1>2, <1>3, BoundedInduction
  <2> QED
    BY <2>1
<1>5. h[N] \in Seq(S)
  OBVIOUS
<1> QED
  BY <1>1, <1>4, <1>5

\* Pieces that follow one another, each from what the one before leaves.
LEMMA PieceFlatten ==
  ASSUME NEW N \in Nat \ {0}, NEW seqs, Len(seqs) = N, NEW W, NEW In,
         \A i \in 1 .. N : Piece(seqs[i], W[i - 1], W[i], In)
  PROVE  Piece(FlattenSeq(seqs), W[0], W[N], In)
<1>1. \A i \in 1 .. N : seqs[i] \in Seq(InstrSet)
  BY DEF Piece
<1>2. PICK h \in [0 .. N -> Seq(InstrSet)] : IsJoin(h, N, seqs) /\ FlattenSeq(seqs) = h[N]
  BY ZenonT(60), <1>1, FlattenJoins
<1> DEFINE T == {k \in 0 .. N : Piece(h[k], W[0], W[k], In)}
<1>3. 0 \in T
  <2>1. h[0] = <<>>
    BY <1>2 DEF IsJoin
  <2> QED
    BY <2>1, PieceEmpty
<1>4. \A k \in 0 .. N - 1 : k \in T => k + 1 \in T
  <2> SUFFICES ASSUME NEW k \in 0 .. N - 1, k \in T PROVE k + 1 \in T
    OBVIOUS
  <2> DEFINE j == k + 1
  <2>1. j \in 1 .. N /\ j - 1 = k /\ j \in 0 .. N
    OBVIOUS
  <2>2. Piece(h[k], W[0], W[k], In)
    OBVIOUS
  <2> HIDE DEF j, T
  <2>3. h[j] = h[k] \o seqs[j]
    BY <1>2, <2>1 DEF IsJoin
  <2>4. Piece(seqs[j], W[k], W[j], In)
    BY <2>1
  <2>5. Piece(h[j], W[0], W[j], In)
    BY <2>2, <2>3, <2>4, PieceConcat
  <2> QED
    BY <2>1, <2>5 DEF T, j
<1>5. N \in T
  <2> HIDE DEF T
  <2>1. 0 .. N \subseteq T
    BY <1>3, <1>4, BoundedInduction
  <2> QED
    BY <2>1
<1> QED
  BY <1>2, <1>5

\* The vectors of the dot products, from the leaves of the predicates.
Computed(kind, leafCount) ==
  IF kind \in {"bo", "bofss"}
  THEN UNION {UNION {{Block(p, l), Offset(p, l)} : l \in 1 .. leafCount[p]} :
                p \in DOMAIN leafCount}
  ELSE {Pred(p) : p \in DOMAIN leafCount}

\* BOLeaves writes the leaves it is given, from their blocks and offsets.
LEMMA PieceLeaves ==
  ASSUME NEW leaves \in Seq(Nat \X Nat), leaves # <<>>, NEW In,
         \A a \in Range(leaves) : Block(a[1], a[2]) \in In /\ Offset(a[1], a[2]) \in In
  PROVE  Piece(BOLeaves(leaves), {}, {Leaf(a[1], a[2]) : a \in Range(leaves)}, In)
<1> DEFINE n == Len(leaves)
           regs == [i \in 1 .. 2 * n |-> IF i <= n THEN Block(leaves[i][1], leaves[i][2])
                                         ELSE Offset(leaves[i - n][1], leaves[i - n][2])]
           body == [i \in 1 .. n |-> Combine("and", Block(leaves[i][1], leaves[i][2]),
                                             Offset(leaves[i][1], leaves[i][2]),
                                             Leaf(leaves[i][1], leaves[i][2]), i - 1)]
<1>1. n \in Nat \ {0} /\ DOMAIN leaves = 1 .. n
  BY EmptySeq, LenProperties
<1>2. \A i \in 1 .. n : leaves[i] \in Nat \X Nat /\ leaves[i] \in Range(leaves)
  BY <1>1, ElementOfSeq DEF Range
<1>3. BOLeaves(leaves) = <<Reshare(regs), Fill(0, n)>> \o body
  BY DEF BOLeaves
<1>4. ASSUME NEW a \in Nat \X Nat
      PROVE  Block(a[1], a[2]) \in Reg /\ Offset(a[1], a[2]) \in Reg /\ Leaf(a[1], a[2]) \in Reg
  BY DEF Block, Offset, Leaf, Reg
<1> HIDE DEF n
<1>5. ASSUME NEW i \in 1 .. 2 * n
      PROVE  regs[i] \in Reg /\ regs[i] \in In
  <2>1. CASE i <= n
    <3>1. i \in 1 .. n
      BY <1>1, <2>1
    <3> QED
      BY <1>2, <1>4, <2>1, <3>1
  <2>2. CASE ~(i <= n)
    <3>1. i - n \in 1 .. n
      BY <1>1, <2>2
    <3> QED
      BY <1>2, <1>4, <2>2, <3>1
  <2> QED
    BY <2>1, <2>2
<1>6. regs \in Seq(Reg) /\ Range(regs) \subseteq In /\ DOMAIN regs = 1 .. 2 * n
  <2>1. regs \in [1 .. 2 * n -> Reg] /\ 2 * n \in Nat
    BY <1>1, <1>5
  <2>2. Range(regs) \subseteq In
    BY <1>5 DEF Range
  <2>3. DOMAIN regs = 1 .. 2 * n
    OBVIOUS
  <2> DEFINE m == 2 * n
  <2>4. m \in Nat /\ regs \in [1 .. m -> Reg]
    BY <2>1
  <2> HIDE DEF regs, m
  <2>5. regs \in Seq(Reg)
    BY <2>4
  <2> QED
    BY <2>2, <2>3, <2>5
<1>7. ASSUME NEW i \in 1 .. n
      PROVE  Block(leaves[i][1], leaves[i][2]) \in Range(regs)
             /\ Offset(leaves[i][1], leaves[i][2]) \in Range(regs)
  <2>1. i \in 1 .. 2 * n /\ i <= n
    BY <1>1
  <2>2. regs[i] = Block(leaves[i][1], leaves[i][2])
    BY <2>1
  <2> DEFINE j == n + i
  <2>3. j \in 1 .. 2 * n /\ ~(j <= n) /\ j - n = i
    BY <1>1
  <2> HIDE DEF j
  <2>4. regs[j] = Offset(leaves[i][1], leaves[i][2])
    BY <2>3
  <2> HIDE DEF regs
  <2> QED
    BY <1>6, <2>1, <2>2, <2>3, <2>4 DEF Range
<1>8. ASSUME NEW i \in 1 .. n
      PROVE  /\ body[i] \in InstrSet
             /\ body[i].op = "and"
             /\ body[i].x = Block(leaves[i][1], leaves[i][2])
             /\ body[i].y = Offset(leaves[i][1], leaves[i][2])
             /\ body[i].dst = Leaf(leaves[i][1], leaves[i][2])
             /\ body[i].row = i - 1
  <2> DEFINE b == Combine("and", Block(leaves[i][1], leaves[i][2]),
                          Offset(leaves[i][1], leaves[i][2]),
                          Leaf(leaves[i][1], leaves[i][2]), i - 1)
  <2>1. body[i] = b
    OBVIOUS
  <2>2. i - 1 \in Nat
    BY <1>1
  <2>3. b \in InstrSet
    <3> DEFINE B == Block(leaves[i][1], leaves[i][2])
               O == Offset(leaves[i][1], leaves[i][2])
               L == Leaf(leaves[i][1], leaves[i][2])
    <3>1. B \in Reg /\ O \in Reg /\ L \in Reg
      BY <1>2, <1>4
    <3> HIDE DEF B, O, L
    <3>2. Combine("and", B, O, L, i - 1) \in InstrSet
      BY <2>2, <3>1 DEF Combine, InstrSet
    <3> QED
      BY <3>2 DEF B, O, L
  <2>4. /\ b.op = "and"
        /\ b.x = Block(leaves[i][1], leaves[i][2])
        /\ b.y = Offset(leaves[i][1], leaves[i][2])
        /\ b.dst = Leaf(leaves[i][1], leaves[i][2])
        /\ b.row = i - 1
    BY DEF Combine
  <2> HIDE DEF b, body
  <2> QED
    BY <2>1, <2>3, <2>4
<1>9. body \in Seq(InstrSet) /\ Len(body) = n
  <2>1. body \in [1 .. n -> InstrSet]
    BY <1>8
  <2> HIDE DEF body
  <2> QED
    BY <1>1, <2>1
<1> HIDE DEF regs, body
<1>10. Combinations(body, Range(regs), 0 .. 0 + n - 1)
  <2> SUFFICES ASSUME NEW i \in 1 .. n
               PROVE  /\ body[i].op \in {"and", "or"}
                      /\ {body[i].x, body[i].y} \subseteq Range(regs) /\ body[i].y # body[i].dst
                      /\ body[i].row \in 0 .. 0 + n - 1
    BY <1>9 DEF Combinations
  <2>1. body[i].y # body[i].dst
    <3>1. Offset(leaves[i][1], leaves[i][2]) # Leaf(leaves[i][1], leaves[i][2])
      BY DEF Offset, Leaf
    <3> QED
      BY <1>8, <3>1
  <2>2. body[i].row \in 0 .. 0 + n - 1
    BY <1>1, <1>8
  <2> QED
    BY <1>7, <1>8, <2>1, <2>2
<1>11. Piece(<<Fill(0, n)>> \o body, Range(regs), Range(regs) \cup Destinations(body), In)
  <2>1. 0 \in Nat /\ n \in Nat
    BY <1>1
  <2> QED
    BY <1>9, <1>10, <2>1, PieceFill
<1>12. Piece(<<Reshare(regs)>>, {}, Range(regs), In)
  BY <1>6, PieceReshare
<1>13. Piece(<<Reshare(regs)>> \o (<<Fill(0, n)>> \o body), {},
             Range(regs) \cup Destinations(body), In)
  BY <1>11, <1>12, PieceConcat
<1>14. BOLeaves(leaves) = <<Reshare(regs)>> \o (<<Fill(0, n)>> \o body)
  <2>1. Reshare(regs) \in InstrSet /\ Fill(0, n) \in InstrSet
    BY <1>1, <1>6 DEF Reshare, Fill, InstrSet
  <2>2. <<Reshare(regs), Fill(0, n)>> \o body = <<Reshare(regs)>> \o (<<Fill(0, n)>> \o body)
    BY <1>9, <2>1, PieceTwo
  <2> QED
    BY <1>3, <2>2 DEF regs, body
<1>15. {Leaf(a[1], a[2]) : a \in Range(leaves)} \subseteq Destinations(body)
  <2> SUFFICES ASSUME NEW a \in Range(leaves) PROVE Leaf(a[1], a[2]) \in Destinations(body)
    OBVIOUS
  <2>1. PICK i \in 1 .. n : leaves[i] = a
    BY <1>1 DEF Range
  <2>2. body[i].dst = Leaf(a[1], a[2])
    BY <1>8, <2>1
  <2> QED
    BY <1>9, <2>2 DEF Destinations
<1> DEFINE P == Range(regs) \cup Destinations(body)
           L == {Leaf(a[1], a[2]) : a \in Range(leaves)}
<1>16. Piece(BOLeaves(leaves), {}, P, In)
  BY <1>13, <1>14
<1>17. L \subseteq P \cup {} /\ {} \subseteq {}
  BY <1>15
<1> HIDE DEF P, L
<1>18. Piece(BOLeaves(leaves), {}, L, In)
  BY <1>16, <1>17, PieceWeaker
<1> QED
  BY <1>18 DEF L

\* Numbers of leaves of the predicates of a query.
LeafCounts == Seq(Nat \ {0}) \ {<<>>}

\* The leaves of a predicate.
LEMMA LeavesOfPred ==
  ASSUME NEW lc \in LeafCounts, NEW p \in 1 .. Len(lc)
  PROVE  /\ LeavesOf(p, lc) \in Seq(Nat \X Nat) /\ LeavesOf(p, lc) # <<>>
         /\ Range(LeavesOf(p, lc)) = {<<p, l>> : l \in 1 .. lc[p]}
<1> DEFINE m == lc[p]
           s == [l \in 1 .. m |-> <<p, l>>]
<1>1. m \in Nat \ {0} /\ p \in Nat
  BY ElementOfSeq DEF LeafCounts
<1> HIDE DEF m
<1>2. s \in [1 .. m -> Nat \X Nat] /\ DOMAIN s = 1 .. m
  BY <1>1
<1>3. Range(s) = {<<p, l>> : l \in 1 .. m}
  BY DEF Range
<1>4. 1 \in DOMAIN s
  BY <1>1, <1>2
<1> HIDE DEF s
<1>5. s \in Seq(Nat \X Nat) /\ s # <<>>
  BY <1>1, <1>2, <1>4
<1> QED
  BY <1>3, <1>5 DEF s, m, LeavesOf

\* What is computed before the leaves are combined.
LEMMA ComputedLeaves ==
  ASSUME NEW lc \in LeafCounts, NEW p \in 1 .. Len(lc), NEW l \in 1 .. lc[p]
  PROVE  /\ Block(p, l) \in Computed("bo", lc) /\ Offset(p, l) \in Computed("bo", lc)
         /\ Block(p, l) \in Computed("bofss", lc) /\ Offset(p, l) \in Computed("bofss", lc)
<1> DEFINE all == UNION {UNION {{Block(q, i), Offset(q, i)} : i \in 1 .. lc[q]} : q \in DOMAIN lc}
<1>1. p \in DOMAIN lc
  BY LenProperties DEF LeafCounts
<1>2. Block(p, l) \in all /\ Offset(p, l) \in all
  BY <1>1
<1>3. Computed("bo", lc) = all /\ Computed("bofss", lc) = all
  BY DEF Computed
<1> QED
  BY <1>2, <1>3

\* The union of a predicate's leaves, once they are written.
LEMMA PiecePredUnion ==
  ASSUME NEW lc \in LeafCounts, NEW p \in 1 .. Len(lc), NEW W, NEW In,
         \A l \in 1 .. lc[p] : Leaf(p, l) \in W
  PROVE  Piece(PredUnion(p, lc), W, W, In)
<1> DEFINE m == lc[p]
           regs == [l \in 1 .. m |-> Leaf(p, l)]
<1>1. m \in Nat \ {0} /\ p \in Nat
  BY ElementOfSeq DEF LeafCounts
<1> HIDE DEF m
<1>2. regs \in [1 .. m -> Reg] /\ DOMAIN regs = 1 .. m
  BY <1>1 DEF Leaf, Reg
<1>3. Range(regs) \subseteq W
  BY DEF Range, m
<1>4. \A l \in 2 .. m : regs[l] # regs[1]
  <2>1. \A l \in 1 .. m : regs[l] = <<"leaf", p, l>>
    BY DEF Leaf
  <2> HIDE DEF regs
  <2> SUFFICES ASSUME NEW l \in 2 .. m PROVE regs[l] # regs[1]
    OBVIOUS
  <2>2. l \in 1 .. m /\ 1 \in 1 .. m /\ l # 1
    BY <1>1
  <2>3. <<"leaf", p, l>> # <<"leaf", p, 1>>
    BY <2>2
  <2> QED
    BY <2>1, <2>2, <2>3
<1> HIDE DEF regs
<1>5. regs \in Seq(Reg) /\ Len(regs) = m
  BY <1>1, <1>2
<1>6. Piece(Union("or", regs), W, W, In)
  BY <1>1, <1>3, <1>4, <1>5, PieceUnion
<1> QED
  BY <1>6 DEF PredUnion, regs, m

\* The combination of the predicates, each in its first leaf.
LEMMA PieceFinal ==
  ASSUME NEW lc \in LeafCounts, NEW op \in {"and", "or"}, NEW W, NEW In,
         \A p \in 1 .. Len(lc) : Leaf(p, 1) \in W
  PROVE  Piece(Union(op, [p \in 1 .. Len(lc) |-> Leaf(p, 1)]), W, W, In)
<1> DEFINE n == Len(lc)
           regs == [p \in 1 .. n |-> Leaf(p, 1)]
<1>1. n \in Nat \ {0}
  BY EmptySeq DEF LeafCounts
<1> HIDE DEF n
<1>2. regs \in [1 .. n -> Reg] /\ DOMAIN regs = 1 .. n
  BY <1>1 DEF Leaf, Reg
<1>3. Range(regs) \subseteq W
  BY DEF Range, n
<1>4. \A p \in 2 .. n : regs[p] # regs[1]
  <2>1. \A p \in 1 .. n : regs[p] = <<"leaf", p, 1>>
    BY ZenonT(60) DEF Leaf
  <2> HIDE DEF regs
  <2> SUFFICES ASSUME NEW p \in 2 .. n PROVE regs[p] # regs[1]
    OBVIOUS
  <2>2. p \in 1 .. n /\ 1 \in 1 .. n /\ p # 1
    BY <1>1
  <2>3. <<"leaf", p, 1>> # <<"leaf", 1, 1>>
    BY <2>2
  <2> QED
    BY <2>1, <2>2, <2>3
<1> HIDE DEF regs
<1>5. regs \in Seq(Reg) /\ Len(regs) = n
  BY <1>1, <1>2
<1>6. Piece(Union(op, regs), W, W, In)
  BY <1>1, <1>3, <1>4, <1>5, PieceUnion
<1> QED
  BY <1>6 DEF regs, n

\* The leaves of the first n predicates.
LeavesTo(n, lc) == UNION {{Leaf(p, l) : l \in 1 .. lc[p]} : p \in 1 .. n}

\* All of them, and with them every predicate's first leaf.
LEMMA AllLeaves ==
  ASSUME NEW lc \in LeafCounts
  PROVE  /\ \A p \in 1 .. Len(lc) : \A l \in 1 .. lc[p] : Leaf(p, l) \in LeavesTo(Len(lc), lc)
         /\ \A p \in 1 .. Len(lc) : Leaf(p, 1) \in LeavesTo(Len(lc), lc)
         /\ Len(lc) \in Nat \ {0} /\ DOMAIN lc = 1 .. Len(lc)
<1>1. \A p \in 1 .. Len(lc) : \A l \in 1 .. lc[p] : Leaf(p, l) \in LeavesTo(Len(lc), lc)
  BY DEF LeavesTo
<1>2. \A p \in 1 .. Len(lc) : 1 \in 1 .. lc[p]
  <2> SUFFICES ASSUME NEW p \in 1 .. Len(lc) PROVE 1 \in 1 .. lc[p]
    OBVIOUS
  <2>1. lc[p] \in Nat \ {0}
    BY ElementOfSeq DEF LeafCounts
  <2> QED
    BY <2>1
<1>3. Len(lc) \in Nat \ {0} /\ DOMAIN lc = 1 .. Len(lc)
  BY EmptySeq, LenProperties DEF LeafCounts
<1> QED
  BY <1>1, <1>2, <1>3

\* BOEvalFilter.
LEMMA PieceBO ==
  ASSUME NEW lc \in LeafCounts, NEW op \in {"and", "or"}
  PROVE  Piece(BOPlan(lc, op), {}, LeavesTo(Len(lc), lc), Computed("bo", lc))
<1> DEFINE n == Len(lc)
           In == Computed("bo", lc)
           W == LeavesTo(n, lc)
           groups == [p \in 1 .. n |-> LeavesOf(p, lc)]
           leaves == FlattenSeq(groups)
           unions == [p \in 1 .. n |-> PredUnion(p, lc)]
           last == Union(op, [p \in 1 .. n |-> Leaf(p, 1)])
<1>1. n \in Nat \ {0}
  BY AllLeaves
<1>2. /\ \A p \in 1 .. n : groups[p] \in Seq(Nat \X Nat)
      /\ \A p \in 1 .. n : Range(groups[p]) = {<<p, l>> : l \in 1 .. lc[p]}
      /\ Len(groups) = n
  BY <1>1, LeavesOfPred
<1> HIDE DEF groups
<1>3. leaves \in Seq(Nat \X Nat) /\ Range(leaves) = UNION {Range(groups[p]) : p \in 1 .. n}
  <2> HIDE DEF n
  <2> QED
    BY <1>1, <1>2, FlattenElements
<1>4. Range(leaves) = UNION {{<<p, l>> : l \in 1 .. lc[p]} : p \in 1 .. n}
  BY <1>2, <1>3
<1> HIDE DEF leaves
<1>5. leaves # <<>>
  <2>1. <<1, 1>> \in Range(leaves)
    <3>1. 1 \in 1 .. n
      BY <1>1
    <3>2. lc[1] \in Nat \ {0}
      BY <3>1, ElementOfSeq DEF LeafCounts
    <3>3. 1 \in 1 .. lc[1]
      BY <3>2
    <3>4. <<1, 1>> \in {<<1, l>> : l \in 1 .. lc[1]}
      BY <3>3
    <3> HIDE DEF n
    <3> QED
      BY <1>4, <3>1, <3>4
  <2> QED
    BY <2>1 DEF Range
<1>6. \A a \in Range(leaves) : Block(a[1], a[2]) \in In /\ Offset(a[1], a[2]) \in In
  <2> SUFFICES ASSUME NEW p \in 1 .. n, NEW l \in 1 .. lc[p]
               PROVE  Block(p, l) \in In /\ Offset(p, l) \in In
    <3> HIDE DEF In
    <3> QED
      BY <1>4
  <2> QED
    BY ComputedLeaves
<1> DEFINE K == {Leaf(a[1], a[2]) : a \in Range(leaves)}
<1>7. W \subseteq K
  <2> SUFFICES ASSUME NEW p \in 1 .. n, NEW l \in 1 .. lc[p] PROVE Leaf(p, l) \in K
    BY DEF LeavesTo
  <2> DEFINE a == <<p, l>>
  <2>1. a \in Range(leaves) /\ a[1] = p /\ a[2] = l
    BY <1>4
  <2> HIDE DEF a
  <2> QED
    BY <2>1
<1> HIDE DEF In
<1>8. Piece(BOLeaves(leaves), {}, W, In)
  <2>1. Piece(BOLeaves(leaves), {}, K, In)
    BY <1>3, <1>5, <1>6, PieceLeaves
  <2> HIDE DEF K, W
  <2> QED
    BY <1>7, <2>1, PieceWeaker
<1>9. ASSUME NEW p \in 1 .. n
      PROVE  Piece(unions[p], W, W, In)
  <2>1. \A l \in 1 .. lc[p] : Leaf(p, l) \in W
    BY AllLeaves
  <2> HIDE DEF W
  <2>2. Piece(PredUnion(p, lc), W, W, In)
    BY <2>1, PiecePredUnion
  <2> QED
    BY <2>2
<1>10. Piece(FlattenSeq(unions), W, W, In)
  <2> DEFINE all == [p \in 0 .. n |-> W]
  <2>1. Len(unions) = n
    BY <1>1
  <2>2. all[0] = W /\ all[n] = W
    BY <1>1
  <2>3. \A p \in 1 .. n : Piece(unions[p], all[p - 1], all[p], In)
    BY <1>1, <1>9
  <2> HIDE DEF all, unions, n, W
  <2>4. Piece(FlattenSeq(unions), all[0], all[n], In)
    BY <1>1, <2>1, <2>3, PieceFlatten
  <2> QED
    BY <2>2, <2>4
<1>11. Piece(last, W, W, In)
  <2>1. \A p \in 1 .. Len(lc) : Leaf(p, 1) \in W
    BY AllLeaves
  <2> HIDE DEF W
  <2> QED
    BY <2>1, PieceFinal
<1>12. BOPlan(lc, op) = BOLeaves(leaves) \o FlattenSeq(unions) \o last
  BY DEF BOPlan, leaves, groups
<1> HIDE DEF W, last, unions
<1>13. Piece(BOLeaves(leaves) \o FlattenSeq(unions), {}, W, In)
  BY <1>8, <1>10, PieceConcat
<1>14. Piece(BOLeaves(leaves) \o FlattenSeq(unions) \o last, {}, W, In)
  BY <1>11, <1>13, PieceConcat
<1> QED
  BY <1>12, <1>14 DEF W, In

\* BOFSSEvalFilter.
LEMMA PieceBOFSS ==
  ASSUME NEW lc \in LeafCounts, NEW op \in {"and", "or"}
  PROVE  Piece(BOFSSPlan(lc, op), {}, LeavesTo(Len(lc), lc), Computed("bofss", lc))
<1> DEFINE n == Len(lc)
           In == Computed("bofss", lc)
           W == [p \in 0 .. n |-> LeavesTo(p, lc)]
           preds == [p \in 1 .. n |-> BOLeaves(LeavesOf(p, lc)) \o PredUnion(p, lc)]
           last == Union(op, [p \in 1 .. n |-> Leaf(p, 1)])
<1>1. n \in Nat \ {0}
  BY AllLeaves
<1>2. ASSUME NEW p \in 1 .. n
      PROVE  Piece(preds[p], W[p - 1], W[p], In)
  <2> DEFINE L == {Leaf(p, l) : l \in 1 .. lc[p]}
             V == LeavesTo(p - 1, lc)
             U == LeavesTo(p, lc)
             first == BOLeaves(LeavesOf(p, lc))
             next == PredUnion(p, lc)
  <2>1. /\ LeavesOf(p, lc) \in Seq(Nat \X Nat) /\ LeavesOf(p, lc) # <<>>
        /\ Range(LeavesOf(p, lc)) = {<<p, l>> : l \in 1 .. lc[p]}
    BY LeavesOfPred
  <2>2. \A a \in Range(LeavesOf(p, lc)) : Block(a[1], a[2]) \in In /\ Offset(a[1], a[2]) \in In
    <3> SUFFICES ASSUME NEW l \in 1 .. lc[p] PROVE Block(p, l) \in In /\ Offset(p, l) \in In
      <4> HIDE DEF In
      <4> QED
        BY <2>1
    <3> QED
      BY ComputedLeaves
  <2>3. Piece(first, {}, L, In)
    <3> DEFINE K == {Leaf(a[1], a[2]) : a \in Range(LeavesOf(p, lc))}
    <3>1. L \subseteq K
      <4> SUFFICES ASSUME NEW l \in 1 .. lc[p] PROVE Leaf(p, l) \in K
        OBVIOUS
      <4> DEFINE a == <<p, l>>
      <4>1. a \in Range(LeavesOf(p, lc)) /\ a[1] = p /\ a[2] = l
        BY <2>1
      <4> HIDE DEF a
      <4> QED
        BY <4>1
    <3> HIDE DEF In
    <3>2. Piece(first, {}, K, In)
      BY <2>1, <2>2, PieceLeaves
    <3> HIDE DEF K, L, first
    <3> QED
      BY <3>1, <3>2, PieceWeaker
  <2>4. U = L \cup V
    <3>1. 1 .. p = 1 .. p - 1 \cup {p}
      BY <1>1
    <3> HIDE DEF n
    <3> QED
      BY <3>1 DEF LeavesTo
  <2>5. \A l \in 1 .. lc[p] : Leaf(p, l) \in U
    BY <2>4
  <2> HIDE DEF U, V, L, In, first, next
  <2>6. Piece(first, V, U, In)
    BY <2>3, <2>4, PieceWeaker
  <2>7. Piece(next, U, U, In)
    BY <2>5, PiecePredUnion DEF next
  <2>8. Piece(first \o next, V, U, In)
    BY <2>6, <2>7, PieceConcat
  <2>9. W[p - 1] = V /\ W[p] = U
    BY <1>1 DEF U, V
  <2> HIDE DEF W
  <2> QED
    BY <2>8, <2>9 DEF first, next
<1>3. Piece(FlattenSeq(preds), W[0], W[n], In)
  <2>1. Len(preds) = n
    BY <1>1
  <2> HIDE DEF preds, n, W
  <2> QED
    BY <1>1, <1>2, <2>1, PieceFlatten
<1> DEFINE V == LeavesTo(n, lc)
<1>4. W[0] = {} /\ W[n] = V
  BY <1>1 DEF LeavesTo
<1>5. Piece(last, V, V, In)
  <2>1. \A p \in 1 .. Len(lc) : Leaf(p, 1) \in V
    BY AllLeaves
  <2> HIDE DEF V
  <2> QED
    BY <2>1, PieceFinal
<1>6. BOFSSPlan(lc, op) = FlattenSeq(preds) \o last
  BY DEF BOFSSPlan
<1> HIDE DEF V, W, preds, last, In
<1>7. Piece(FlattenSeq(preds) \o last, {}, V, In)
  BY <1>3, <1>4, <1>5, PieceConcat
<1> QED
  BY <1>6, <1>7 DEF V, In

\* The vectors of the predicates, where their leaves were summed before.
LEMMA PredVectors ==
  ASSUME NEW lc \in LeafCounts
  PROVE  LET preds == [p \in DOMAIN lc |-> Pred(p)] IN
         /\ preds \in Seq(Reg) /\ Len(preds) = Len(lc)
         /\ \A i \in 2 .. Len(preds) : preds[i] # preds[1]
         /\ \A i \in 1 .. Len(preds) : preds[i] = Pred(i)
         /\ Range(preds) = {Pred(p) : p \in DOMAIN lc}
<1> DEFINE n == Len(lc)
           preds == [p \in 1 .. n |-> Pred(p)]
<1>1. n \in Nat \ {0} /\ DOMAIN lc = 1 .. n
  BY AllLeaves
<1> HIDE DEF n
<1>2. \A i \in 1 .. n : preds[i] = Pred(i)
  OBVIOUS
<1>3. \A i \in 2 .. n : Pred(i) # Pred(1)
  BY <1>1 DEF Pred
<1>4. preds \in [1 .. n -> Reg]
  BY <1>1 DEF Pred, Reg
<1>5. Range(preds) = {Pred(p) : p \in 1 .. n}
  BY DEF Range
<1> HIDE DEF preds
<1>6. preds \in Seq(Reg) /\ Len(preds) = n
  BY <1>1, <1>4
<1>7. \A i \in 2 .. n : preds[i] # preds[1]
  <2> SUFFICES ASSUME NEW i \in 2 .. n PROVE preds[i] # preds[1]
    OBVIOUS
  <2>1. i \in 1 .. n /\ 1 \in 1 .. n
    BY <1>1
  <2> QED
    BY <1>2, <1>3, <2>1
<1> QED
  BY <1>1, <1>2, <1>5, <1>6, <1>7 DEF preds, n

\* EvalFilter, and VBEvalFilter and VBFSSAggFilterQuery.
LEMMA PieceVB ==
  ASSUME NEW lc \in LeafCounts, NEW op \in {"and", "or"}
  PROVE  LET preds == [p \in DOMAIN lc |-> Pred(p)]
             In == {Pred(p) : p \in DOMAIN lc}
         IN  Piece(EvalFilterPlan(preds, op), {}, In, In) /\ Piece(VBPlan(preds, op), {}, In, In)
<1> DEFINE preds == [p \in DOMAIN lc |-> Pred(p)]
           In == {Pred(p) : p \in DOMAIN lc}
           n == Len(preds)
           chain == Accumulate(op, preds, 1)
<1>1. /\ preds \in Seq(Reg) /\ n \in Nat \ {0}
      /\ \A i \in 2 .. n : preds[i] # preds[1]
      /\ Range(preds) = In
  BY PredVectors, AllLeaves
<1> HIDE DEF preds, In
<1>2. Piece(<<Reshare(preds)>>, {}, In, In)
  BY <1>1, PieceReshare
<1>3. Piece(<<Fill(0, n)>> \o chain, In, In, In)
  <2>1. 0 \in Nat /\ 1 \in Nat /\ n \in Nat /\ 0 <= 1 /\ 1 + n - 1 <= 0 + n
    BY <1>1
  <2> QED
    BY <1>1, <2>1, PieceChain
<1>4. Piece(<<Fill(1, n - 1)>> \o chain, In, In, In)
  <2>1. 1 \in Nat /\ n - 1 \in Nat /\ 1 <= 1 /\ 1 + n - 1 <= 1 + (n - 1)
    BY <1>1
  <2> QED
    BY <1>1, <2>1, PieceChain
<1>5. Piece(EvalFilterPlan(preds, op), {}, In, In)
  <2>1. Piece(<<Reshare(preds)>> \o (<<Fill(0, n)>> \o chain), {}, In, In)
    BY <1>2, <1>3, PieceConcat
  <2>2. Reshare(preds) \in InstrSet /\ Fill(0, n) \in InstrSet /\ chain \in Seq(InstrSet)
    <3>1. Reshare(preds) \in InstrSet
      BY <1>1 DEF Reshare, InstrSet
    <3>2. Fill(0, n) \in InstrSet
      BY <1>1 DEF Fill, InstrSet
    <3>3. IsChain(chain, op, preds, 1)
      BY <1>1, AccumulateSteps
    <3> QED
      BY <3>1, <3>2, <3>3 DEF IsChain
  <2>3. <<Reshare(preds), Fill(0, n)>> \o chain = <<Reshare(preds)>> \o (<<Fill(0, n)>> \o chain)
    BY <2>2, PieceTwo
  <2> QED
    BY <2>1, <2>3 DEF EvalFilterPlan
<1>6. Piece(VBPlan(preds, op), {}, In, In)
  <2>1. CASE n = 1
    <3>1. VBPlan(preds, op) = <<Reshare(preds)>> \o <<>>
      BY <2>1 DEF VBPlan
    <3>2. Piece(<<>>, In, In, In)
      BY PieceEmpty
    <3>3. Piece(<<Reshare(preds)>> \o <<>>, {}, In, In)
      BY <1>2, <3>2, PieceConcat
    <3> QED
      BY <3>1, <3>3
  <2>2. CASE n # 1
    <3>1. VBPlan(preds, op) = <<Reshare(preds)>> \o (<<Fill(1, n - 1)>> \o chain)
      BY <2>2 DEF VBPlan
    <3>2. Piece(<<Reshare(preds)>> \o (<<Fill(1, n - 1)>> \o chain), {}, In, In)
      BY <1>2, <1>4, PieceConcat
    <3> QED
      BY <3>1, <3>2
  <2> QED
    BY <2>1, <2>2
<1> QED
  BY <1>5, <1>6 DEF preds, In

\* The plan of every handler, from the vectors it computes to its filter.
LEMMA PlanRuns ==
  ASSUME NEW kind \in {"filter", "vb", "vbfss", "bo", "bofss"}, NEW lc \in LeafCounts, NEW isAnd
  PROVE  Piece(Plan(kind, lc, isAnd), {}, {FilterReg(kind)}, Computed(kind, lc))
<1> DEFINE op == Operator(isAnd)
           preds == [p \in DOMAIN lc |-> Pred(p)]
           In == {Pred(p) : p \in DOMAIN lc}
           end == {FilterReg(kind)}
           all == Computed(kind, lc)
           L == LeavesTo(Len(lc), lc)
<1>1. op \in {"and", "or"}
  BY DEF Operator
<1>2. 1 \in 1 .. Len(lc) /\ DOMAIN lc = 1 .. Len(lc) /\ \A p \in 1 .. Len(lc) : Leaf(p, 1) \in L
  BY AllLeaves
<1>3. CASE kind \in {"filter", "vb", "vbfss"}
  <2>1. end \subseteq In
    <3>1. FilterReg(kind) = Pred(1)
      BY <1>3 DEF FilterReg
    <3> QED
      BY <1>2, <3>1
  <2>2. all = In
    BY <1>3 DEF Computed
  <2>3. Piece(EvalFilterPlan(preds, op), {}, In, In) /\ Piece(VBPlan(preds, op), {}, In, In)
    <3> HIDE DEF op
    <3> QED
      BY <1>1, PieceVB
  <2>4. /\ kind = "filter" => Plan(kind, lc, isAnd) = EvalFilterPlan(preds, op)
        /\ kind \in {"vb", "vbfss"} => Plan(kind, lc, isAnd) = VBPlan(preds, op)
    BY DEF Plan
  <2> HIDE DEF op, preds, In, end, all
  <2>5. Piece(Plan(kind, lc, isAnd), {}, In, In)
    BY <1>3, <2>3, <2>4
  <2>6. Piece(Plan(kind, lc, isAnd), {}, end, In)
    BY <2>1, <2>5, PieceWeaker
  <2> QED
    BY <2>2, <2>6 DEF end, all
<1>4. CASE kind = "bo"
  <2>1. end \subseteq L
    <3>1. FilterReg(kind) = Leaf(1, 1)
      BY <1>4 DEF FilterReg
    <3> HIDE DEF L
    <3> QED
      BY <1>2, <3>1
  <2>2. Plan(kind, lc, isAnd) = BOPlan(lc, op)
    BY <1>4 DEF Plan
  <2> HIDE DEF op
  <2>3. Piece(BOPlan(lc, op), {}, L, all)
    BY <1>1, <1>4, PieceBO
  <2> HIDE DEF L, end, all
  <2>4. Piece(BOPlan(lc, op), {}, end, all)
    BY <2>1, <2>3, PieceWeaker
  <2> QED
    BY <2>2, <2>4 DEF end, all
<1>5. CASE kind = "bofss"
  <2>1. end \subseteq L
    <3>1. FilterReg(kind) = Leaf(1, 1)
      BY <1>5 DEF FilterReg
    <3> HIDE DEF L
    <3> QED
      BY <1>2, <3>1
  <2>2. Plan(kind, lc, isAnd) = BOFSSPlan(lc, op)
    BY <1>5 DEF Plan
  <2> HIDE DEF op
  <2>3. Piece(BOFSSPlan(lc, op), {}, L, all)
    BY <1>1, <1>5, PieceBOFSS
  <2> HIDE DEF L, end, all
  <2>4. Piece(BOFSSPlan(lc, op), {}, end, all)
    BY <2>1, <2>3, PieceWeaker
  <2> QED
    BY <2>2, <2>4 DEF end, all
<1> QED
  BY <1>3, <1>4, <1>5

-----------------------------------------------------------------------------
(* The ring of three servers, and where each of them is in its plan.       *)

\* The servers are 0, 1 and 2, and each is the predecessor of one of them.
LEMMA ServerFacts ==
  /\ Server = {0, 1, 2}
  /\ \A s \in Server : Prev(s) \in Server /\ Prev(s) # s
  /\ Prev(0) = 2 /\ Prev(1) = 0 /\ Prev(2) = 1
BY DEF Server, Prev, Ring!Server, Ring!Pred

\* Exchanges among the first n instructions.
ExIn(seq, n) == Cardinality({i \in 1 .. n : seq[i].op \in Exchanges})

\* Their number grows by one with every exchange.
LEMMA ExStep ==
  ASSUME NEW seq, NEW n \in Nat \ {0}
  PROVE  /\ ExIn(seq, n - 1) \in Nat
         /\ ExIn(seq, n) = ExIn(seq, n - 1) + IF seq[n].op \in Exchanges THEN 1 ELSE 0
<1> DEFINE A == {i \in 1 .. n - 1 : seq[i].op \in Exchanges}
           B == {i \in 1 .. n : seq[i].op \in Exchanges}
<1>1. IsFiniteSet(A)
  <2>1. IsFiniteSet(1 .. n - 1)
    BY FS_Interval
  <2> QED
    BY <2>1, FS_Subset
<1>2. n \notin A
  OBVIOUS
<1>3. B = IF seq[n].op \in Exchanges THEN A \cup {n} ELSE A
  OBVIOUS
<1> HIDE DEF A, B
<1>4. Cardinality(A) \in Nat /\ Cardinality(A \cup {n}) = Cardinality(A) + 1
  BY <1>1, <1>2, FS_CardinalityType, FS_AddElement
<1>5. ExIn(seq, n - 1) = Cardinality(A) /\ ExIn(seq, n) = Cardinality(B)
  BY DEF ExIn, A, B
<1> QED
  BY <1>3, <1>4, <1>5

\* None come before the first instruction.
LEMMA ExNone ==
  ASSUME NEW seq, NEW n \in Int, n <= 0
  PROVE  ExIn(seq, n) = 0
<1>1. {i \in 1 .. n : seq[i].op \in Exchanges} = {}
  OBVIOUS
<1> QED
  BY <1>1, FS_EmptySet DEF ExIn

\* A later exchange has a greater number, and so has what follows it.
LEMMA ExGrows ==
  ASSUME NEW seq, NEW m \in Nat \ {0}, NEW n \in Nat, m <= n
  PROVE  /\ ExIn(seq, m) <= ExIn(seq, n) /\ ExIn(seq, n) \in Nat
         /\ \A i \in m + 1 .. n : seq[i].op \in Exchanges => ExIn(seq, m) < ExIn(seq, n)
<1> DEFINE A == {i \in 1 .. m : seq[i].op \in Exchanges}
           B == {i \in 1 .. n : seq[i].op \in Exchanges}
<1>1. IsFiniteSet(B)
  <2>1. IsFiniteSet(1 .. n)
    BY FS_Interval
  <2> QED
    BY <2>1, FS_Subset
<1>2. A \subseteq B
  OBVIOUS
<1>3. ASSUME NEW i \in m + 1 .. n, seq[i].op \in Exchanges
      PROVE  A # B
  <2>1. i \in B /\ i \notin A
    BY <1>3
  <2> QED
    BY <2>1
<1> HIDE DEF A, B
<1>4. /\ Cardinality(A) <= Cardinality(B) /\ Cardinality(A) \in Nat /\ Cardinality(B) \in Nat
      /\ A # B => Cardinality(A) < Cardinality(B)
  <2>1. IsFiniteSet(A) /\ Cardinality(A) <= Cardinality(B)
        /\ (Cardinality(A) = Cardinality(B) => A = B)
    BY <1>1, <1>2, FS_Subset
  <2>2. Cardinality(A) \in Nat /\ Cardinality(B) \in Nat
    BY <1>1, <2>1, FS_CardinalityType
  <2> QED
    BY <2>1, <2>2
<1> QED
  BY <1>3, <1>4 DEF ExIn, A, B

\* A sequence that is long enough for whatever it holds.
AnySeq(seq) == seq \in Seq(Range(seq))

\* Append, for sequences of anything.
LEMMA AppendAny ==
  ASSUME NEW seq, AnySeq(seq), NEW e
  PROVE  /\ AnySeq(Append(seq, e))
         /\ Len(seq) \in Nat
         /\ Len(Append(seq, e)) = Len(seq) + 1
         /\ \A i \in 1 .. Len(seq) : Append(seq, e)[i] = seq[i]
         /\ Append(seq, e)[Len(seq) + 1] = e
<1> DEFINE S == Range(seq) \cup {e}
           r == Append(seq, e)
<1>1. seq \in Seq(S) /\ e \in S
  <2>1. seq \in Seq(Range(seq)) /\ Range(seq) \subseteq S
    BY DEF AnySeq
  <2> HIDE DEF S
  <2>2. seq \in Seq(S)
    BY <2>1, SeqMonotonic
  <2> QED
    BY <2>2 DEF S
<1> HIDE DEF S
<1>2. /\ r \in Seq(S) /\ Len(seq) \in Nat /\ Len(r) = Len(seq) + 1
      /\ \A i \in 1 .. Len(seq) : r[i] = seq[i]
      /\ r[Len(seq) + 1] = e
  BY <1>1
<1> HIDE DEF r
<1>3. r \in Seq(Range(r))
  <2>1. r \in [1 .. Len(r) -> S] /\ Len(r) \in Nat
    BY <1>2, LenProperties
  <2>2. r \in [1 .. Len(r) -> Range(r)]
    BY <2>1 DEF Range
  <2> HIDE DEF S
  <2> QED
    BY <2>1, <2>2
<1> QED
  BY <1>2, <1>3 DEF AnySeq, r

-----------------------------------------------------------------------------
(* The pace of the servers.                                                *)

PlanOK == query \in Requests /\ plan = Plan(query.kind, LeafCount, query.isAnd)

DomainsOK ==
  /\ \A f \in {mem, operand, zero, outbox} : DOMAIN f = Server
  /\ \A f \in {pc, published, finished, counter} : f \in [Server -> Nat]
  /\ used \in [Server -> [1 .. MaxRounds -> Nat]]

\* Server s has sent the vector of its current exchange.
Mid(s) == published[s] = finished[s] + 1

\* Server s has finished the exchanges of the instructions before its current
\* one, which is an exchange in the middle of one.
PaceOK(s) ==
  /\ pc[s] \in 0 .. Len(plan) + 1
  /\ finished[s] = ExIn(plan, pc[s] - 1)
  /\ AtRest(s) \/ (Mid(s) /\ pc[s] \in 1 .. Len(plan) /\ plan[pc[s]].op \in Exchanges)
  /\ published[s] <= MaxRounds
  /\ finished[s] <= published[Prev(s)]
  /\ AnySeq(outbox[s]) /\ Len(outbox[s]) = published[s]

Base == PlanOK /\ DomainsOK /\ \A s \in Server : PaceOK(s)

\* The plan of a request is a piece as above.
LEMMA PlanFacts ==
  ASSUME PlanOK
  PROVE  /\ query.kind \in {"filter", "vb", "vbfss", "bo", "bofss"}
         /\ LeafCount \in LeafCounts /\ DOMAIN LeafCount = DOMAIN query.preds
         /\ \A p \in DOMAIN query.preds : LeafCount[p] = Len(query.preds[p])
                                          /\ DOMAIN query.preds[p] = 1 .. LeafCount[p]
         /\ plan \in Seq(InstrSet) /\ Len(plan) \in Nat
         /\ Piece(plan, {}, {FilterReg(query.kind)}, Computed(query.kind, LeafCount))
<1> DEFINE S == Seq(Seq({0, 1}))
           n == Len(query.preds)
<1>1. /\ query.kind \in {"filter", "vb", "vbfss", "bo", "bofss"}
      /\ query.preds \in Seq(S) /\ query.preds # <<>>
      /\ \A p \in DOMAIN query.preds : query.preds[p] # <<>>
  BY RequestAssumption DEF PlanOK
<1>2. n \in Nat \ {0} /\ DOMAIN query.preds = 1 .. n /\ \A p \in 1 .. n : query.preds[p] \in S
  <2> HIDE DEF S
  <2> QED
    BY <1>1, EmptySeq, LenProperties, ElementOfSeq
<1>3. ASSUME NEW p \in 1 .. n
      PROVE  Len(query.preds[p]) \in Nat \ {0}
             /\ DOMAIN query.preds[p] = 1 .. Len(query.preds[p])
  <2>1. query.preds[p] \in Seq(Seq({0, 1})) /\ query.preds[p] # <<>>
    BY <1>1, <1>2
  <2> QED
    BY <2>1, EmptySeq, LenProperties
<1> HIDE DEF n
<1>4. LeafCount = [p \in 1 .. n |-> Len(query.preds[p])]
  BY <1>2 DEF LeafCount
<1>5. LeafCount \in [1 .. n -> Nat \ {0}]
  BY <1>3, <1>4
<1>6. LeafCount \in LeafCounts
  <2> DEFINE L == LeafCount
  <2>1. L \in [1 .. n -> Nat \ {0}] /\ 1 \in DOMAIN L
    BY <1>2, <1>5
  <2> HIDE DEF L
  <2>2. L \in Seq(Nat \ {0}) /\ L # <<>>
    BY <1>2, <2>1
  <2> QED
    BY <2>2 DEF L, LeafCounts
<1>7. DOMAIN LeafCount = 1 .. n
  BY <1>4
<1>8. \A p \in 1 .. n : LeafCount[p] = Len(query.preds[p])
  BY <1>4
<1>9. Piece(plan, {}, {FilterReg(query.kind)}, Computed(query.kind, LeafCount))
  BY <1>1, <1>6, PlanRuns DEF PlanOK
<1>10. plan \in Seq(InstrSet) /\ Len(plan) \in Nat
  <2>1. plan \in Seq(InstrSet)
    BY <1>9 DEF Piece
  <2> QED
    BY <2>1, LenProperties
<1> QED
  BY <1>1, <1>2, <1>3, <1>6, <1>7, <1>8, <1>9, <1>10

\* The instruction of a server that is in its plan.
LEMMA InstrFacts ==
  ASSUME PlanOK, NEW s \in Server, Running(s), pc[s] \in Nat
  PROVE  /\ pc[s] \in 1 .. Len(plan) /\ Len(plan) \in Nat
         /\ Instr(s) = plan[pc[s]]
         /\ Instr(s) \in InstrSet
         /\ InstrOK(plan, pc[s], {}, Computed(query.kind, LeafCount))
<1>1. plan \in Seq(InstrSet) /\ Piece(plan, {}, {FilterReg(query.kind)}, Computed(query.kind, LeafCount))
      /\ Len(plan) \in Nat
  BY PlanFacts
<1>2. pc[s] \in 1 .. Len(plan)
  BY DEF Running
<1>3. plan[pc[s]] \in InstrSet
  BY <1>1, <1>2, ElementOfSeq
<1>4. InstrOK(plan, pc[s], {}, Computed(query.kind, LeafCount))
  BY <1>1, <1>2 DEF Piece
<1> QED
  BY <1>1, <1>2, <1>3, <1>4 DEF Instr

\* Everything is at the start.
LEMMA BaseInit == Init => Base
<1> SUFFICES ASSUME Init PROVE Base
  OBVIOUS
<1>1. PlanOK
  BY DEF Init, PlanOK
<1>2. DomainsOK
  BY ServerFacts DEF Init, DomainsOK, Ring!Init, Server, Ring!Round
<1>3. ASSUME NEW s \in Server PROVE PaceOK(s)
  <2>1. pc[s] = 0 /\ published[s] = 0 /\ finished[s] = 0 /\ outbox[s] = <<>> /\ Prev(s) \in Server
    BY ServerFacts DEF Init, Ring!Init, Server
  <2>2. published[Prev(s)] = 0
    BY <2>1 DEF Init, Ring!Init, Server
  <2>3. ExIn(plan, pc[s] - 1) = 0
    BY <2>1, ExNone
  <2>4. AnySeq(outbox[s]) /\ Len(outbox[s]) = 0
    BY <2>1 DEF AnySeq
  <2>5. Len(plan) \in Nat
    BY <1>1, PlanFacts
  <2> QED
    BY <2>1, <2>2, <2>3, <2>4, <2>5, SizeAssumption DEF PaceOK, AtRest
<1> QED
  BY <1>1, <1>2, <1>3 DEF Base

\* What a step of server s leaves alone.
Quiet(s) ==
  /\ UNCHANGED <<query, plan>>
  /\ \A t \in Server \ {s} :
       /\ pc'[t] = pc[t] /\ published'[t] = published[t] /\ finished'[t] = finished[t]
       /\ outbox'[t] = outbox[t]

\* A step of server s without an exchange, past an instruction that is none.
Passes(s) ==
  /\ Quiet(s)
  /\ pc[s] \in 0 .. Len(plan)
  /\ pc[s] # 0 => plan[pc[s]].op \notin Exchanges
  /\ pc'[s] = pc[s] + 1
  /\ published'[s] = published[s] /\ finished'[s] = finished[s] /\ outbox'[s] = outbox[s]

\* A step in which server s sends the vector msg of its exchange.
Sends(s, msg) ==
  /\ Quiet(s)
  /\ pc[s] \in 1 .. Len(plan) /\ plan[pc[s]].op \in Exchanges
  /\ AtRest(s) /\ published[s] < MaxRounds
  /\ pc'[s] = pc[s] /\ published'[s] = published[s] + 1 /\ finished'[s] = finished[s]
  /\ outbox'[s] = Append(outbox[s], msg)

\* A step in which server s finishes an exchange.
Finishes(s) ==
  /\ Quiet(s)
  /\ pc[s] \in 1 .. Len(plan) /\ plan[pc[s]].op \in Exchanges
  /\ Mid(s) /\ finished[s] < published[Prev(s)]
  /\ pc'[s] = pc[s] + 1 /\ published'[s] = published[s] /\ finished'[s] = finished[s] + 1
  /\ outbox'[s] = outbox[s]
  /\ Received(s) = outbox[Prev(s)][finished[s] + 1]

\* The pace of the servers after such steps.
LEMMA PaceStep ==
  ASSUME Base, NEW s \in Server, Passes(s) \/ (\E msg : Sends(s, msg)) \/ Finishes(s)
  PROVE  \A t \in Server : PaceOK(t)'
<1>0. /\ Len(plan) \in Nat /\ plan' = plan
      /\ \A t \in Server : Prev(t) \in Server /\ Prev(t) # t
      /\ \A t \in Server : published[t] \in Nat /\ finished[t] \in Nat /\ pc[t] \in Nat
  BY PlanFacts, ServerFacts DEF Passes, Sends, Finishes, Quiet, Base, DomainsOK
<1>1. \A t \in Server : published'[t] \in Nat /\ published'[t] >= published[t]
  BY <1>0 DEF Passes, Sends, Finishes, Quiet
<1>2. ASSUME NEW t \in Server \ {s}
      PROVE  PaceOK(t)'
  <2>1. pc'[t] = pc[t] /\ published'[t] = published[t] /\ finished'[t] = finished[t]
        /\ outbox'[t] = outbox[t]
    BY DEF Passes, Sends, Finishes, Quiet
  <2>2. published'[Prev(t)] >= published[Prev(t)] /\ published[Prev(t)] \in Nat
        /\ published'[Prev(t)] \in Nat
    BY <1>0, <1>1
  <2>3. PaceOK(t)
    BY DEF Base
  <2>4. finished'[t] <= published'[Prev(t)]
    BY <1>0, <2>1, <2>2, <2>3 DEF PaceOK
  <2>5. AtRest(t)' = AtRest(t) /\ Mid(t)' = Mid(t)
    BY <2>1 DEF AtRest, Mid
  <2> QED
    BY <1>0, <2>1, <2>3, <2>4, <2>5 DEF PaceOK
<1>3. PaceOK(s)
  BY DEF Base
<1>4. ASSUME Passes(s)
      PROVE  PaceOK(s)'
  <2>1. ExIn(plan, pc[s]) = ExIn(plan, pc[s] - 1)
    <3>1. CASE pc[s] = 0
      BY <3>1, ExNone
    <3>2. CASE pc[s] # 0
      BY <1>0, <1>4, <3>2, ExStep DEF Passes
    <3> QED
      BY <3>1, <3>2
  <2>2. AtRest(s)
    <3>1. CASE pc[s] = 0
      BY <1>3, <3>1 DEF PaceOK
    <3>2. CASE pc[s] # 0
      BY <1>3, <1>4, <3>2 DEF PaceOK, Passes
    <3> QED
      BY <3>1, <3>2
  <2>3. pc'[s] - 1 = pc[s] /\ pc'[s] \in 0 .. Len(plan) + 1
    BY <1>0, <1>4 DEF Passes
  <2>4. /\ published'[s] = published[s] /\ finished'[s] = finished[s] /\ outbox'[s] = outbox[s]
        /\ published'[Prev(s)] = published[Prev(s)]
    BY <1>0, <1>4 DEF Passes, Quiet
  <2>5. AtRest(s)'
    BY <2>2, <2>4 DEF AtRest
  <2> QED
    BY <1>0, <1>3, <2>1, <2>3, <2>4, <2>5 DEF PaceOK
<1>5. ASSUME NEW msg, Sends(s, msg)
      PROVE  PaceOK(s)'
  <2>1. AnySeq(outbox'[s]) /\ Len(outbox'[s]) = published[s] + 1
    BY <1>3, <1>5, AppendAny DEF PaceOK, Sends
  <2>2. /\ published'[s] = published[s] + 1 /\ finished'[s] = finished[s] /\ pc'[s] = pc[s]
        /\ published'[Prev(s)] = published[Prev(s)]
        /\ pc[s] \in 1 .. Len(plan) /\ plan[pc[s]].op \in Exchanges
        /\ published[s] < MaxRounds /\ published[s] = finished[s]
    BY <1>0, <1>5 DEF Sends, Quiet, AtRest
  <2>3. Mid(s)'
    BY <2>2 DEF Mid
  <2>4. published'[s] <= MaxRounds
    BY <1>0, <2>2, SizeAssumption
  <2> QED
    BY <1>0, <1>3, <2>1, <2>2, <2>3, <2>4 DEF PaceOK
<1>6. ASSUME Finishes(s)
      PROVE  PaceOK(s)'
  <2>1. ExIn(plan, pc[s]) = ExIn(plan, pc[s] - 1) + 1
    BY SMTT(40), <1>0, <1>6, ExStep DEF Finishes
  <2>2. pc'[s] - 1 = pc[s] /\ pc'[s] \in 0 .. Len(plan) + 1
    BY <1>0, <1>6 DEF Finishes
  <2>3. /\ published'[s] = published[s] /\ finished'[s] = finished[s] + 1 /\ outbox'[s] = outbox[s]
        /\ published'[Prev(s)] = published[Prev(s)]
        /\ published[s] = finished[s] + 1 /\ finished[s] < published[Prev(s)]
    BY <1>0, <1>6 DEF Finishes, Quiet, Mid
  <2>4. AtRest(s)'
    BY <2>3 DEF AtRest
  <2>5. finished'[s] <= published'[Prev(s)]
    BY <1>0, <2>3
  <2> QED
    BY <1>0, <1>3, <2>1, <2>2, <2>3, <2>4, <2>5 DEF PaceOK
<1> QED
  BY <1>2, <1>4, <1>5, <1>6

-----------------------------------------------------------------------------
(* What each action does to the state that the invariants are about.       *)

\* The place of a vector among those that are reshared together.
IndexOf(regs, v) == CHOOSE i \in DOMAIN regs : regs[i] = v

\* Other servers keep their vectors, masks and counters.
OthersKeep(s) ==
  \A t \in Server \ {s} :
    /\ mem'[t] = mem[t] /\ operand'[t] = operand[t]
    /\ zero'[t] = zero[t] /\ counter'[t] = counter[t]

KeepsMem(s) == mem'[s] = mem[s] /\ operand'[s] = operand[s]
KeepsMasks(s) == zero'[s] = zero[s] /\ counter'[s] = counter[s]

\* By how much an instruction moves the PRF counter.
Move(in) ==
  IF in.op = "reshare" THEN MacFactor * Len(in.regs) * VectorLen
  ELSE IF in.op = "fill" THEN MacFactor * in.rows * VectorLen ELSE 0

Filling(in) == in.first .. in.first + in.rows - 1

Evaluates(s) ==
  /\ pc[s] = 0 /\ mem'[s] = Inputs(s) /\ operand'[s] = operand[s] /\ KeepsMasks(s)

Fills(s) ==
  /\ pc[s] \in 1 .. Len(plan) /\ plan[pc[s]].op = "fill" /\ KeepsMem(s)
  /\ counter'[s] = counter[s] + Move(plan[pc[s]])
  /\ Filled => zero'[s] = [row \in Filling(plan[pc[s]]) |->
                             ZeroShare(s, row * VectorLen + query.row)]

ReshareSent(s, msg) ==
  LET regs == plan[pc[s]].regs IN
  /\ plan[pc[s]].op = "reshare" /\ operand'[s] = operand[s]
  /\ DOMAIN mem'[s] = DOMAIN mem[s]
  /\ \A v \in DOMAIN mem[s] :
       mem'[s][v] = IF v \in Range(regs) THEN <<mem[s][v][1], msg[IndexOf(regs, v)]>>
                    ELSE mem[s][v]
  /\ zero'[s] = zero[s] /\ counter'[s] = counter[s] + Move(plan[pc[s]])

ReshareFinished(s) ==
  LET regs == plan[pc[s]].regs IN
  /\ plan[pc[s]].op = "reshare" /\ operand'[s] = operand[s]
  /\ DOMAIN mem'[s] = DOMAIN mem[s]
  /\ \A v \in DOMAIN mem[s] :
       mem'[s][v] = IF v \in Range(regs)
                    THEN <<Received(s)[IndexOf(regs, v)], mem[s][v][2]>>
                    ELSE mem[s][v]
  /\ KeepsMasks(s)

ProductSent(s, msg) ==
  LET in == plan[pc[s]] IN
  /\ in.op \in {"and", "or"} /\ operand'[s] = mem[s][in.x]
  /\ DOMAIN mem'[s] = DOMAIN mem[s] \cup {in.dst}
  /\ \A v \in DOMAIN mem[s] : v # in.dst => mem'[s][v] = mem[s][v]
  /\ mem'[s][in.dst][2] = msg[1]
  /\ KeepsMasks(s)

ProductFinished(s) ==
  LET in == plan[pc[s]] IN
  /\ in.op \in {"and", "or"} /\ operand'[s] = operand[s]
  /\ DOMAIN mem'[s] = DOMAIN mem[s]
  /\ \A v \in DOMAIN mem[s] :
       mem'[s][v] = IF v = in.dst
                    THEN Completed(in.op, <<Received(s)[1], mem[s][v][2]>>,
                                   operand[s], mem[s][in.y])
                    ELSE mem[s][v]
  /\ KeepsMasks(s)

\* The lengths of vectors.
LEMMA Sizes ==
  ASSUME PlanOK
  PROVE  /\ MacFactor \in {1, 2} /\ VectorLen \in Nat /\ VectorLen # 0
         /\ VectorLen = Window \/ VectorLen = 2 * Window
         /\ query.row \in 0 .. Window - 1
         /\ \A a \in Nat : MacFactor * a * VectorLen \in Nat
         /\ \A a \in Nat : a * VectorLen + query.row \in Nat
<1>1. MacFactor \in {1, 2}
  <2>1. Cardinality(1 .. 1) = 1 /\ Cardinality(1 .. 2) = 2
    <3>1. 1 .. 1 = {1} /\ 1 .. 2 = {1} \cup {2}
      OBVIOUS
    <3>2. IsFiniteSet({1}) /\ Cardinality({1}) = 1
      BY FS_Singleton
    <3>3. Cardinality({1} \cup {2}) = Cardinality({1}) + 1
      BY <3>2, FS_AddElement
    <3> QED
      BY <3>1, <3>2, <3>3
  <2>2. Columns = 1 .. 1 \/ Columns = 1 .. 2
    BY DEF Columns
  <2> QED
    BY <2>1, <2>2 DEF MacFactor
<1>2. /\ VectorLen \in Nat /\ VectorLen # 0
      /\ VectorLen = Window \/ VectorLen = 2 * Window
  BY <1>1, SizeAssumption DEF VectorLen
<1>3. query.row \in 0 .. Window - 1
  BY RequestAssumption DEF PlanOK
<1>4. \A a, b, c \in Nat : a * b \in Nat /\ a * b * c \in Nat /\ a * b + c \in Nat
  OBVIOUS
<1>5. query.row \in Nat
  BY <1>3, SizeAssumption
<1>6. \A a \in Nat : MacFactor * a * VectorLen \in Nat
  BY <1>1, <1>2, <1>4
<1>7. \A a \in Nat : a * VectorLen + query.row \in Nat
  BY <1>2, <1>4, <1>5
<1> QED
  BY <1>1, <1>2, <1>3, <1>6, <1>7

\* EvalFilter's four threads share the rows without a remainder.
FourChunks == (\E q \in Requests : q.kind = "filter") => Window % 4 = 0

\* Then their chunks cover every row.
LEMMA AlwaysFilled == FourChunks /\ PlanOK => Filled
<1> SUFFICES ASSUME FourChunks, PlanOK, query.kind = "filter"
             PROVE  query.row < NumChunks * ChunkSize
  BY DEF Filled
<1>1. Window % 4 = 0 /\ query.row \in 0 .. Window - 1 /\ Window \in Nat \ {0}
  BY RequestAssumption, SizeAssumption DEF PlanOK, FourChunks
<1>2. VectorLen = Window \/ VectorLen = 2 * Window
  BY Sizes
<1>3. VectorLen \in Nat /\ VectorLen % 4 = 0 /\ VectorLen >= Window
  BY <1>1, <1>2
<1>4. 4 * (VectorLen \div 4) = VectorLen
  BY <1>3
<1> QED
  BY <1>1, <1>3, <1>4 DEF NumChunks, ChunkSize

\* Instructions move the counter forward.
LEMMA MoveNat ==
  ASSUME PlanOK, NEW in \in InstrSet
  PROVE  Move(in) \in Nat
<1>1. \A a \in Nat : MacFactor * a * VectorLen \in Nat
  BY Sizes
<1>2. in.op = "reshare" => Len(in.regs) \in Nat
  BY InstrKinds, LenProperties
<1>3. in.op = "fill" => in.rows \in Nat
  BY InstrKinds
<1> QED
  BY <1>1, <1>2, <1>3 DEF Move

\* Evaluate.
LEMMA EvaluateDoes ==
  ASSUME Base, NEW s \in Server, Evaluate(s)
  PROVE  Passes(s) /\ DomainsOK' /\ OthersKeep(s) /\ Evaluates(s)
<1>1. Len(plan) \in Nat
  BY PlanFacts DEF Base
<1>2. DomainsOK
  BY DEF Base
<1>3. /\ pc[s] = 0 /\ pc' = [pc EXCEPT ![s] = 1] /\ mem' = [mem EXCEPT ![s] = Inputs(s)]
      /\ UNCHANGED <<query, plan, operand, zero, coeff, counter, outbox, published, finished, used>>
  BY DEF Evaluate, masks, ring
<1>4. DomainsOK'
  BY <1>2, <1>3 DEF DomainsOK
<1>5. Passes(s)
  BY <1>1, <1>2, <1>3 DEF Passes, Quiet, DomainsOK
<1>6. OthersKeep(s) /\ Evaluates(s)
  BY <1>2, <1>3 DEF OthersKeep, Evaluates, DomainsOK, KeepsMasks
<1> QED
  BY <1>4, <1>5, <1>6

\* FillZeros.
LEMMA FillZerosDoes ==
  ASSUME Base, NEW s \in Server, FillZeros(s)
  PROVE  Passes(s) /\ DomainsOK' /\ OthersKeep(s) /\ Fills(s)
<1> DEFINE in == plan[pc[s]]
<1>1. DomainsOK /\ PlanOK /\ pc[s] \in Nat
  BY DEF Base, DomainsOK
<1>2. Running(s) /\ Instr(s).op = "fill"
  BY DEF FillZeros
<1>3. /\ pc[s] \in 1 .. Len(plan) /\ Instr(s) = in /\ in.op = "fill" /\ in \in InstrSet
      /\ Len(plan) \in Nat
  BY <1>1, <1>2, InstrFacts
<1>4. /\ counter' = [counter EXCEPT ![s] = @ + MacFactor * in.rows * VectorLen]
      /\ pc' = [pc EXCEPT ![s] = @ + 1]
      /\ \E z : zero' = [zero EXCEPT ![s] = z]
      /\ Filled => zero' = [zero EXCEPT ![s] = [row \in Filling(in) |->
                                 ZeroShare(s, row * VectorLen + query.row)]]
      /\ UNCHANGED <<query, plan, mem, operand, outbox, published, finished, used>>
  BY <1>3 DEF FillZeros, ring, Filling
<1>5. MacFactor * in.rows * VectorLen = Move(in) /\ Move(in) \in Nat
  BY <1>1, <1>3, MoveNat DEF Move
<1> HIDE DEF in
<1>6. counter[s] + Move(in) \in Nat
  BY <1>1, <1>5 DEF DomainsOK
<1>7. DomainsOK'
  BY <1>1, <1>4, <1>5, <1>6 DEF DomainsOK
<1>8. Passes(s)
  BY <1>1, <1>3, <1>4 DEF Passes, Quiet, DomainsOK, Exchanges, in
<1>9. OthersKeep(s)
  BY <1>1, <1>4 DEF OthersKeep, DomainsOK
<1>10. Fills(s)
  BY <1>1, <1>3, <1>4, <1>5 DEF Fills, DomainsOK, KeepsMem, in
<1> QED
  BY <1>7, <1>8, <1>9, <1>10

\* Publishing, for a server at an exchange.
LEMMA PublishSends ==
  ASSUME Base, NEW s \in Server, Running(s), Instr(s).op \in Exchanges, Ring!Publish(s), NEW msg,
         outbox' = [outbox EXCEPT ![s] = Append(@, msg)], UNCHANGED <<query, plan, pc>>
  PROVE  Sends(s, msg) /\ published' \in [Server -> Nat] /\ UNCHANGED <<finished, used>>
<1>1. DomainsOK /\ PlanOK /\ pc[s] \in Nat
  BY DEF Base, DomainsOK
<1>2. pc[s] \in 1 .. Len(plan) /\ Instr(s) = plan[pc[s]]
  BY <1>1, InstrFacts
<1>3. /\ published[s] = finished[s] /\ published[s] < MaxRounds
      /\ published' = [published EXCEPT ![s] = @ + 1]
      /\ UNCHANGED <<finished, used>>
  BY DEF Ring!Publish
<1>4. published' \in [Server -> Nat]
  BY <1>1, <1>3 DEF DomainsOK
<1>5. /\ published'[s] = published[s] + 1
      /\ outbox'[s] = Append(outbox[s], msg)
  BY <1>1, <1>3 DEF DomainsOK
<1>6. Quiet(s)
  BY <1>1, <1>3 DEF Quiet, DomainsOK
<1> QED
  BY <1>2, <1>3, <1>4, <1>5, <1>6 DEF Sends, AtRest

\* Finishing.
LEMMA FinishFinishes ==
  ASSUME Base, NEW s \in Server, Running(s), Instr(s).op \in Exchanges, Ring!Finish(s),
         pc' = [pc EXCEPT ![s] = @ + 1], UNCHANGED <<query, plan, outbox>>
  PROVE  /\ Finishes(s) /\ pc' \in [Server -> Nat] /\ finished' \in [Server -> Nat]
         /\ used' \in [Server -> [1 .. MaxRounds -> Nat]] /\ UNCHANGED published
<1>1. DomainsOK /\ PlanOK /\ pc[s] \in Nat /\ PaceOK(s)
      /\ finished[s] \in Nat /\ published[s] \in Nat
  BY DEF Base, DomainsOK
<1>2. pc[s] \in 1 .. Len(plan) /\ Instr(s) = plan[pc[s]]
  BY <1>1, InstrFacts
<1>3. /\ finished[s] < published[s] /\ finished[s] < published[Prev(s)]
      /\ used' = [used EXCEPT ![s][finished[s] + 1] = finished[s] + 1]
      /\ finished' = [finished EXCEPT ![s] = @ + 1]
      /\ UNCHANGED published
  BY DEF Ring!Finish, Prev
<1>4. Mid(s)
  BY <1>1, <1>3 DEF PaceOK, AtRest
<1>5. finished[s] + 1 \in 1 .. MaxRounds
  BY <1>1, <1>4, SizeAssumption DEF PaceOK, Mid
<1>6. /\ finished' \in [Server -> Nat] /\ used' \in [Server -> [1 .. MaxRounds -> Nat]]
      /\ pc' \in [Server -> Nat]
  BY SMTT(40), <1>1, <1>3, <1>5 DEF DomainsOK
<1>7. finished'[s] = finished[s] + 1 /\ used'[s][finished[s] + 1] = finished[s] + 1
      /\ pc'[s] = pc[s] + 1
  BY <1>1, <1>3, <1>5 DEF DomainsOK
<1>8. Received(s) = outbox[Prev(s)][finished[s] + 1]
  BY <1>7 DEF Received
<1>9. Quiet(s)
  BY <1>1, <1>3 DEF Quiet, DomainsOK
<1> QED
  BY <1>2, <1>3, <1>4, <1>6, <1>7, <1>8, <1>9 DEF Finishes

\* A vector that is reshared has a place among the others.
LEMMA IndexFact ==
  ASSUME NEW regs, NEW v \in Range(regs)
  PROVE  IndexOf(regs, v) \in DOMAIN regs /\ regs[IndexOf(regs, v)] = v
BY DEF Range, IndexOf

\* SendReshare.
LEMMA SendReshareDoes ==
  ASSUME Base, NEW s \in Server, SendReshare(s)
  PROVE  DomainsOK' /\ OthersKeep(s) /\ \E msg : Sends(s, msg) /\ ReshareSent(s, msg)
<1> DEFINE in == Instr(s)
           regs == in.regs
           mask(i) == ZeroShare(s, (i - 1) * Len(regs) + VectorLen)
           own(i) == [k \in Columns |->
                        (mem[s][regs[i]][1][k] + mem[s][regs[i]][2][k] + mask(i)) % Word]
           msg == [i \in DOMAIN regs |-> own(i)]
<1>1. DomainsOK /\ PlanOK /\ pc[s] \in Nat
  BY DEF Base, DomainsOK
<1>2. Running(s) /\ Instr(s).op = "reshare"
  BY ZenonT(60) DEF SendReshare
<1>3. /\ in = plan[pc[s]] /\ in.op = "reshare" /\ in \in InstrSet
  BY ZenonT(60), <1>1, <1>2, InstrFacts
<1>4. /\ mem' = [mem EXCEPT ![s] = [v \in DOMAIN mem[s] |->
                   IF v \in Range(regs) THEN <<mem[s][v][1], own(IndexOf(regs, v))>>
                   ELSE mem[s][v]]]
      /\ outbox' = [outbox EXCEPT ![s] = Append(@, msg)]
      /\ counter' = [counter EXCEPT ![s] = @ + MacFactor * Len(regs) * VectorLen]
      /\ UNCHANGED <<query, plan, pc, operand, zero>>
      /\ Ring!Publish(s)
  BY ZenonT(60) DEF SendReshare, IndexOf
<1>5. MacFactor * Len(regs) * VectorLen = Move(in) /\ Move(in) \in Nat
  BY <1>1, <1>3, MoveNat DEF Move
<1>6. counter[s] + Move(in) \in Nat
  <2>1. counter[s] \in Nat
    BY <1>1 DEF DomainsOK
  <2> HIDE DEF in, regs, msg, own, mask
  <2> QED
    BY <1>5, <2>1
<1>7. \A v \in Range(regs) : msg[IndexOf(regs, v)] = own(IndexOf(regs, v))
  <2> SUFFICES ASSUME NEW v \in Range(regs)
               PROVE  msg[IndexOf(regs, v)] = own(IndexOf(regs, v))
    BY ZenonT(60)
  <2> DEFINE i == IndexOf(regs, v)
  <2>1. i \in DOMAIN regs
    BY ZenonT(60), IndexFact
  <2> HIDE DEF i
  <2>2. msg[i] = own(i)
    BY ZenonT(60), <2>1
  <2> QED
    BY ZenonT(60), <2>2 DEF i
<1> HIDE DEF msg, own
<1>8. Sends(s, msg) /\ published' \in [Server -> Nat] /\ UNCHANGED <<finished, used>>
  BY <1>2, <1>4, PublishSends DEF Exchanges
<1> HIDE DEF regs, in
<1>9. DomainsOK'
  <2>1. counter' \in [Server -> Nat]
    BY <1>1, <1>4, <1>5, <1>6 DEF DomainsOK
  <2>2. DOMAIN mem' = Server /\ DOMAIN outbox' = Server
    BY <1>1, <1>4 DEF DomainsOK
  <2> QED
    BY <1>1, <1>4, <1>8, <2>1, <2>2 DEF DomainsOK
<1>10. OthersKeep(s)
  BY <1>1, <1>4 DEF OthersKeep, DomainsOK
<1>11. ReshareSent(s, msg)
  <2>1. DOMAIN mem'[s] = DOMAIN mem[s]
    BY <1>1, <1>4 DEF DomainsOK
  <2>2. \A v \in DOMAIN mem[s] :
          mem'[s][v] = IF v \in Range(regs) THEN <<mem[s][v][1], msg[IndexOf(regs, v)]>>
                       ELSE mem[s][v]
    BY <1>1, <1>4, <1>7 DEF DomainsOK
  <2>3. zero'[s] = zero[s] /\ operand'[s] = operand[s] /\ counter'[s] = counter[s] + Move(in)
    BY <1>1, <1>4, <1>5 DEF DomainsOK
  <2> QED
    BY <1>3, <2>1, <2>2, <2>3 DEF ReshareSent, regs
<1> QED
  BY ZenonT(60), <1>8, <1>9, <1>10, <1>11

\* FinishReshare.
LEMMA FinishReshareDoes ==
  ASSUME Base, NEW s \in Server, FinishReshare(s)
  PROVE  DomainsOK' /\ OthersKeep(s) /\ Finishes(s) /\ ReshareFinished(s)
<1> DEFINE in == Instr(s)
           regs == in.regs
<1>1. DomainsOK /\ PlanOK /\ pc[s] \in Nat
  BY DEF Base, DomainsOK
<1>2. Running(s) /\ Instr(s).op = "reshare"
  BY ZenonT(60) DEF FinishReshare
<1>3. /\ in = plan[pc[s]] /\ in.op = "reshare"
  BY ZenonT(60), <1>1, <1>2, InstrFacts
<1>4. /\ mem' = [mem EXCEPT ![s] = [v \in DOMAIN mem[s] |->
                   IF v \in Range(regs) THEN <<Received(s)[IndexOf(regs, v)], mem[s][v][2]>>
                   ELSE mem[s][v]]]
      /\ pc' = [pc EXCEPT ![s] = @ + 1]
      /\ UNCHANGED <<query, plan, operand, zero, counter, outbox>>
      /\ Ring!Finish(s)
  BY ZenonT(60) DEF FinishReshare, IndexOf, masks
<1>5. /\ Finishes(s) /\ pc' \in [Server -> Nat] /\ finished' \in [Server -> Nat]
      /\ used' \in [Server -> [1 .. MaxRounds -> Nat]] /\ UNCHANGED published
  BY <1>2, <1>4, FinishFinishes DEF Exchanges
<1> HIDE DEF regs, in
<1>6. DomainsOK'
  BY <1>1, <1>4, <1>5 DEF DomainsOK
<1>7. OthersKeep(s)
  BY <1>1, <1>4 DEF OthersKeep, DomainsOK
<1>8. ReshareFinished(s)
  <2>1. DOMAIN mem'[s] = DOMAIN mem[s]
    BY <1>1, <1>4 DEF DomainsOK
  <2>2. \A v \in DOMAIN mem[s] :
          mem'[s][v] = IF v \in Range(regs)
                       THEN <<Received(s)[IndexOf(regs, v)], mem[s][v][2]>>
                       ELSE mem[s][v]
    BY <1>1, <1>4 DEF DomainsOK
  <2>3. operand'[s] = operand[s] /\ KeepsMasks(s)
    BY <1>4 DEF KeepsMasks
  <2> QED
    BY <1>3, <2>1, <2>2, <2>3 DEF ReshareFinished, regs
<1> QED
  BY <1>5, <1>6, <1>7, <1>8

\* SendProduct.
LEMMA SendProductDoes ==
  ASSUME Base, NEW s \in Server, SendProduct(s)
  PROVE  DomainsOK' /\ OthersKeep(s) /\ \E msg : Sends(s, msg) /\ ProductSent(s, msg)
<1> DEFINE in == plan[pc[s]]
           x == mem[s][in.x]
           y == mem[s][in.y]
           own == [k \in Columns |->
                     (LocalProduct(Column(x, k), Column(y, 1))
                        + IF k = 1 THEN zero[s][in.row] ELSE 0) % Word]
           old == IF in.dst \in DOMAIN mem[s] THEN mem[s][in.dst][1] ELSE [k \in Columns |-> 0]
           msg == <<own>>
<1>1. DomainsOK /\ PlanOK /\ pc[s] \in Nat
  BY DEF Base, DomainsOK
<1>2. Running(s) /\ Instr(s).op \in {"and", "or"}
  BY DEF SendProduct
<1>3. /\ Instr(s) = in /\ in.op \in {"and", "or"}
  BY SMTT(40), <1>1, <1>2, InstrFacts
<1>4. /\ operand' = [operand EXCEPT ![s] = x]
      /\ mem' = [mem EXCEPT ![s] = [v \in DOMAIN mem[s] \cup {in.dst} |->
                                      IF v = in.dst THEN <<old, own>> ELSE mem[s][v]]]
      /\ outbox' = [outbox EXCEPT ![s] = Append(@, msg)]
      /\ UNCHANGED <<query, plan, pc, zero, counter>>
      /\ Ring!Publish(s)
  BY <1>1, <1>3 DEF SendProduct, masks, DomainsOK
<1>5. msg[1] = own
  OBVIOUS
<1> HIDE DEF msg, own, old, x, y
<1>6. Sends(s, msg) /\ published' \in [Server -> Nat] /\ UNCHANGED <<finished, used>>
  BY <1>2, <1>4, PublishSends DEF Exchanges
<1> HIDE DEF in
<1>7. DomainsOK'
  BY <1>1, <1>4, <1>6 DEF DomainsOK
<1>8. OthersKeep(s)
  BY <1>1, <1>4 DEF OthersKeep, DomainsOK
<1>9. ProductSent(s, msg)
  <2>1. DOMAIN mem'[s] = DOMAIN mem[s] \cup {in.dst}
    BY <1>1, <1>4 DEF DomainsOK
  <2>2. \A v \in DOMAIN mem[s] : v # in.dst => mem'[s][v] = mem[s][v]
    BY <1>1, <1>4 DEF DomainsOK
  <2>3. mem'[s][in.dst] = <<old, own>>
    BY <1>1, <1>4 DEF DomainsOK
  <2>4. mem'[s][in.dst][2] = msg[1]
    BY <1>5, <2>3
  <2>5. operand'[s] = mem[s][in.x] /\ KeepsMasks(s)
    BY <1>1, <1>4 DEF KeepsMasks, DomainsOK, x
  <2> QED
    BY <1>3, <2>1, <2>2, <2>4, <2>5 DEF ProductSent, in
<1> QED
  BY <1>6, <1>7, <1>8, <1>9

\* FinishProduct.
LEMMA FinishProductDoes ==
  ASSUME Base, NEW s \in Server, FinishProduct(s), plan[pc[s]].dst \in DOMAIN mem[s]
  PROVE  DomainsOK' /\ OthersKeep(s) /\ Finishes(s) /\ ProductFinished(s)
<1> DEFINE in == plan[pc[s]]
           d == in.dst
           new == Completed(in.op, <<Received(s)[1], mem[s][d][2]>>, operand[s], mem[s][in.y])
<1>1. DomainsOK /\ PlanOK /\ pc[s] \in Nat
  BY DEF Base, DomainsOK
<1>2. Running(s) /\ Instr(s).op \in {"and", "or"}
  BY DEF FinishProduct
<1>3. /\ Instr(s) = in /\ in.op \in {"and", "or"}
  BY ZenonT(60), <1>1, <1>2, InstrFacts
<1>4. /\ mem' = [mem EXCEPT ![s][d] = new]
      /\ pc' = [pc EXCEPT ![s] = @ + 1]
      /\ UNCHANGED <<query, plan, operand, zero, counter, outbox>>
      /\ Ring!Finish(s)
  BY ZenonT(60), <1>3 DEF FinishProduct, masks
<1>5. /\ Finishes(s) /\ pc' \in [Server -> Nat] /\ finished' \in [Server -> Nat]
      /\ used' \in [Server -> [1 .. MaxRounds -> Nat]] /\ UNCHANGED published
  BY <1>2, <1>4, FinishFinishes DEF Exchanges
<1>6. d \in DOMAIN mem[s]
  OBVIOUS
<1> HIDE DEF d, new
<1>7. DomainsOK'
  BY <1>1, <1>4, <1>5 DEF DomainsOK
<1>8. OthersKeep(s)
  BY <1>1, <1>4 DEF OthersKeep, DomainsOK
<1>9. ProductFinished(s)
  <2>1. DOMAIN mem'[s] = DOMAIN mem[s]
    BY <1>1, <1>4 DEF DomainsOK
  <2>2. mem'[s][d] = new /\ \A v \in DOMAIN mem[s] : v # d => mem'[s][v] = mem[s][v]
    BY <1>1, <1>4, <1>6 DEF DomainsOK
  <2>3. operand'[s] = operand[s] /\ KeepsMasks(s)
    BY <1>4 DEF KeepsMasks
  <2> QED
    BY <1>3, <2>1, <2>2, <2>3 DEF ProductFinished, new, d
<1> QED
  BY <1>5, <1>7, <1>8, <1>9

-----------------------------------------------------------------------------
(* The base of the invariants: paces, and which vectors there are.         *)

\* Server s has the inputs of its plan, and what was written so far.
RegsOK(s) ==
  /\ pc[s] # 0 => Computed(query.kind, LeafCount) \cup WrittenIn(plan, pc[s]) \subseteq DOMAIN mem[s]
  /\ Mid(s) /\ plan[pc[s]].op \in {"and", "or"} => plan[pc[s]].dst \in DOMAIN mem[s]

BaseInv == Base /\ \A s \in Server : RegsOK(s)

\* A step of server s that changes what the invariants are about.
Moves(s) ==
  /\ OthersKeep(s) /\ DomainsOK'
  /\ \/ Passes(s) /\ Evaluates(s)
     \/ Passes(s) /\ Fills(s)
     \/ \E msg : Sends(s, msg) /\ (ReshareSent(s, msg) \/ ProductSent(s, msg))
     \/ Finishes(s) /\ (ReshareFinished(s) \/ ProductFinished(s))

\* Any other step.
Rests ==
  UNCHANGED <<query, plan, pc, mem, operand, zero, counter, outbox, published, finished, used>>

\* A step of the system is one or the other.
LEMMA StepKinds ==
  ASSUME BaseInv, [Next]_vars
  PROVE  Rests \/ \E s \in Server : Moves(s)
<1>0. Base
  BY DEF BaseInv
<1>1. CASE UNCHANGED vars
  BY <1>1 DEF vars, Rests, masks, ring
<1>2. CASE Gather \/ Returned
  BY <1>2 DEF Gather, Returned, vars, Rests, masks, ring
<1>3. ASSUME NEW s \in Server, Step(s)
      PROVE  Rests \/ Moves(s)
  <2>1. CASE Evaluate(s)
    BY <1>0, <2>1, EvaluateDoes DEF Moves
  <2>2. CASE FillZeros(s)
    BY <1>0, <2>2, FillZerosDoes DEF Moves
  <2>3. CASE SendReshare(s)
    BY <1>0, <2>3, SendReshareDoes DEF Moves
  <2>4. CASE FinishReshare(s)
    BY <1>0, <2>4, FinishReshareDoes DEF Moves
  <2>5. CASE SendProduct(s)
    BY <1>0, <2>5, SendProductDoes DEF Moves
  <2>6. CASE FinishProduct(s)
    <3>1. /\ Running(s) /\ Instr(s).op \in {"and", "or"} /\ Ring!Finish(s)
          /\ PaceOK(s) /\ PlanOK /\ RegsOK(s)
          /\ pc[s] \in Nat /\ finished[s] \in Nat /\ published[s] \in Nat
      BY <1>0, <2>6 DEF FinishProduct, Base, BaseInv, DomainsOK
    <3>2. finished[s] < published[s]
      BY <3>1 DEF Ring!Finish
    <3>3. Mid(s) /\ Instr(s) = plan[pc[s]]
      BY <3>1, <3>2, InstrFacts DEF PaceOK, AtRest
    <3>4. plan[pc[s]].dst \in DOMAIN mem[s]
      BY <3>1, <3>3 DEF RegsOK
    <3> QED
      BY <1>0, <2>6, <3>4, FinishProductDoes DEF Moves
  <2>7. CASE Respond(s)
    BY <2>7 DEF Respond, Rests, masks, ring
  <2> QED
    BY <1>3, <2>1, <2>2, <2>3, <2>4, <2>5, <2>6, <2>7 DEF Step
<1> QED
  BY <1>1, <1>2, <1>3 DEF Next

\* What has been written after an instruction.
LEMMA WrittenStep ==
  ASSUME NEW seq, NEW n \in 1 .. Len(seq), Len(seq) \in Nat
  PROVE  WrittenIn(seq, n + 1) = WrittenIn(seq, n) \cup
           (IF seq[n].op \in Exchanges THEN Outputs(seq[n]) ELSE {})
<1> DEFINE Before(i) == {j \in 1 .. Len(seq) : j < i /\ seq[j].op \in Exchanges}
<1>1. Before(n + 1) = Before(n) \cup (IF seq[n].op \in Exchanges THEN {n} ELSE {})
  OBVIOUS
<1>2. WrittenIn(seq, n + 1) = UNION {Outputs(seq[j]) : j \in Before(n + 1)}
      /\ WrittenIn(seq, n) = UNION {Outputs(seq[j]) : j \in Before(n)}
  BY DEF WrittenIn
<1> HIDE DEF Before
<1> QED
  BY <1>1, <1>2

\* Nothing is written before the first instruction.
LEMMA WrittenNone ==
  ASSUME NEW seq
  PROVE  WrittenIn(seq, 1) = {}
<1>1. {j \in 1 .. Len(seq) : j < 1 /\ seq[j].op \in Exchanges} = {}
  OBVIOUS
<1> QED
  BY <1>1 DEF WrittenIn

\* The dot products are those that the plan expects.
LEMMA InputsComputed ==
  ASSUME PlanOK, NEW s \in Server
  PROVE  Computed(query.kind, LeafCount) \subseteq DOMAIN Inputs(s)
<1>1. /\ DOMAIN LeafCount = DOMAIN query.preds
      /\ \A p \in DOMAIN query.preds : DOMAIN query.preds[p] = 1 .. LeafCount[p]
  BY PlanFacts
<1>2. CASE query.kind \in {"bo", "bofss"}
  <2>1. DOMAIN Inputs(s) = UNION {{Block(at[1], at[2]), Offset(at[1], at[2])} : at \in Leaves}
    BY <1>2 DEF Inputs
  <2>2. ASSUME NEW p \in DOMAIN LeafCount, NEW l \in 1 .. LeafCount[p]
        PROVE  {Block(p, l), Offset(p, l)} \subseteq DOMAIN Inputs(s)
    <3> DEFINE at == <<p, l>>
    <3>1. at \in Leaves /\ at[1] = p /\ at[2] = l
      <4>1. p \in DOMAIN query.preds /\ l \in DOMAIN query.preds[p]
        BY <1>1
      <4>2. at \in {p} \X DOMAIN query.preds[p]
        BY <4>1
      <4> HIDE DEF at
      <4>3. at \in Leaves
        BY <4>1, <4>2 DEF Leaves
      <4> QED
        BY <4>3 DEF at
    <3> HIDE DEF at
    <3> QED
      BY <2>1, <3>1
  <2> QED
    BY <1>1, <1>2, <2>2 DEF Computed
<1>3. CASE query.kind \notin {"bo", "bofss"}
  BY <1>1, <1>3 DEF Inputs, Computed
<1> QED
  BY <1>2, <1>3

\* The servers have the vectors that their plans need, after any step of one.
LEMMA RegsStep ==
  ASSUME BaseInv, NEW s \in Server, Moves(s)
  PROVE  RegsOK(s)'
<1> DEFINE n == pc[s]
           C == Computed(query.kind, LeafCount)
<1>1. /\ Base /\ PlanOK /\ PaceOK(s) /\ RegsOK(s) /\ Len(plan) \in Nat
      /\ pc[s] \in Nat /\ published[s] \in Nat /\ finished[s] \in Nat
      /\ query' = query /\ plan' = plan
  BY PlanFacts DEF BaseInv, Base, DomainsOK, Moves, Passes, Sends, Finishes, Quiet
<1>2. LeafCount' = LeafCount
  BY <1>1 DEF LeafCount
<1>3. ASSUME n # 0
      PROVE  C \cup WrittenIn(plan, n) \subseteq DOMAIN mem[s]
  BY <1>1, <1>3 DEF RegsOK
<1>4. ASSUME Passes(s), Evaluates(s)
      PROVE  RegsOK(s)'
  <2>1. pc'[s] = 1 /\ mem'[s] = Inputs(s) /\ pc[s] = 0
    BY <1>4 DEF Passes, Evaluates
  <2>2. C \subseteq DOMAIN Inputs(s) /\ WrittenIn(plan, 1) = {}
    BY <1>1, InputsComputed, WrittenNone
  <2>3. ~Mid(s)'
    <3>1. published[s] = finished[s]
      BY <1>1, <2>1 DEF PaceOK, AtRest
    <3> QED
      BY <1>1, <1>4, <3>1 DEF Passes, Mid
  <2> QED
    BY <1>1, <1>2, <2>1, <2>2, <2>3 DEF RegsOK
<1>5. ASSUME n \in 1 .. Len(plan), pc'[s] = n + 1, ~Mid(s)', DOMAIN mem[s] \subseteq DOMAIN mem'[s],
             plan[n].op \in Exchanges => Outputs(plan[n]) \subseteq DOMAIN mem[s]
      PROVE  RegsOK(s)'
  <2>1. WrittenIn(plan, n + 1) = WrittenIn(plan, n) \cup
           (IF plan[n].op \in Exchanges THEN Outputs(plan[n]) ELSE {})
    BY <1>1, <1>5, WrittenStep
  <2>2. C \cup WrittenIn(plan, n) \subseteq DOMAIN mem[s]
    BY <1>3, <1>5
  <2>3. C \cup WrittenIn(plan, n + 1) \subseteq DOMAIN mem'[s]
    BY <1>5, <2>1, <2>2
  <2> QED
    BY <1>1, <1>2, <1>5, <2>3 DEF RegsOK
<1>6. ASSUME Passes(s), Fills(s)
      PROVE  RegsOK(s)'
  <2>1. /\ n \in 1 .. Len(plan) /\ pc'[s] = n + 1 /\ plan[n].op \notin Exchanges
        /\ mem'[s] = mem[s]
    BY <1>6 DEF Passes, Fills, KeepsMem, Exchanges
  <2>2. ~Mid(s)'
    <3>1. published[s] = finished[s]
      BY <1>1, <2>1 DEF PaceOK, AtRest
    <3> QED
      BY <1>1, <1>6, <3>1 DEF Passes, Mid
  <2> QED
    BY <1>5, <2>1, <2>2
<1>7. ASSUME NEW msg, Sends(s, msg), ReshareSent(s, msg) \/ ProductSent(s, msg)
      PROVE  RegsOK(s)'
  <2>1. pc'[s] = n /\ n # 0
    BY <1>7 DEF Sends
  <2>2. DOMAIN mem[s] \subseteq DOMAIN mem'[s]
        /\ (plan[n].op \in {"and", "or"} => plan[n].dst \in DOMAIN mem'[s])
    BY <1>7 DEF ReshareSent, ProductSent
  <2>3. C \cup WrittenIn(plan, n) \subseteq DOMAIN mem'[s]
    BY <1>3, <2>1, <2>2
  <2> QED
    BY <1>1, <1>2, <2>1, <2>2, <2>3 DEF RegsOK
<1>8. ASSUME Finishes(s), ReshareFinished(s) \/ ProductFinished(s)
      PROVE  RegsOK(s)'
  <2>1. n \in 1 .. Len(plan) /\ pc'[s] = n + 1 /\ plan[n].op \in Exchanges
    BY <1>8 DEF Finishes
  <2>2. ~Mid(s)'
    BY <1>1, <1>8 DEF Finishes, Mid
  <2>3. DOMAIN mem'[s] = DOMAIN mem[s]
    BY <1>8 DEF ReshareFinished, ProductFinished
  <2>4. Outputs(plan[n]) \subseteq DOMAIN mem[s]
    <3>1. CASE plan[n].op = "reshare"
      <4>1. InstrOK(plan, n, {}, C)
        BY <1>1, <2>1, PlanFacts DEF Piece
      <4> QED
        BY <1>3, <2>1, <3>1, <4>1 DEF InstrOK, Outputs
    <3>2. CASE plan[n].op # "reshare"
      <4>1. Mid(s) /\ plan[n].op \in {"and", "or"}
        BY <1>8, <2>1, <3>2 DEF Finishes, Exchanges
      <4> QED
        BY <1>1, <3>2, <4>1 DEF RegsOK, Outputs
    <3> QED
      BY <3>1, <3>2
  <2> QED
    BY <1>5, <2>1, <2>2, <2>3, <2>4
<1> QED
  BY <1>4, <1>6, <1>7, <1>8 DEF Moves

\* A server that does not move keeps all of that.
LEMMA OthersBase ==
  ASSUME BaseInv, NEW s \in Server, Moves(s), NEW t \in Server \ {s}
  PROVE  /\ pc'[t] = pc[t] /\ published'[t] = published[t] /\ finished'[t] = finished[t]
         /\ outbox'[t] = outbox[t] /\ mem'[t] = mem[t] /\ operand'[t] = operand[t]
         /\ zero'[t] = zero[t] /\ counter'[t] = counter[t]
         /\ RegsOK(t)'
<1>1. query' = query /\ plan' = plan
  BY DEF Moves, Passes, Sends, Finishes, Quiet
<1>2. /\ pc'[t] = pc[t] /\ published'[t] = published[t] /\ finished'[t] = finished[t]
      /\ outbox'[t] = outbox[t]
  BY DEF Moves, Passes, Sends, Finishes, Quiet
<1>3. /\ mem'[t] = mem[t] /\ operand'[t] = operand[t]
      /\ zero'[t] = zero[t] /\ counter'[t] = counter[t]
  BY DEF Moves, OthersKeep
<1>4. LeafCount' = LeafCount /\ RegsOK(t) /\ Mid(t)' = Mid(t)
  BY <1>1, <1>2 DEF LeafCount, BaseInv, Mid
<1> QED
  BY <1>1, <1>2, <1>3, <1>4 DEF RegsOK

\* The base is an invariant.
LEMMA BaseMoves ==
  ASSUME BaseInv, NEW s \in Server, Moves(s)
  PROVE  BaseInv' /\ query' = query /\ plan' = plan
<1>1. query' = query /\ plan' = plan /\ DomainsOK'
  BY DEF Moves, Passes, Sends, Finishes, Quiet
<1>2. LeafCount' = LeafCount
  BY <1>1 DEF LeafCount
<1>3. PlanOK'
  BY <1>1, <1>2 DEF BaseInv, Base, PlanOK
<1>4. \A t \in Server : PaceOK(t)'
  BY PaceStep DEF Moves, BaseInv
<1>5. \A t \in Server : RegsOK(t)'
  BY RegsStep, OthersBase
<1> QED
  BY <1>1, <1>3, <1>4, <1>5 DEF BaseInv, Base

\* The base after any other step.
LEMMA BaseRests ==
  ASSUME BaseInv, Rests
  PROVE  BaseInv'
<1>1. LeafCount' = LeafCount
  BY DEF Rests, LeafCount
<1>2. PlanOK' /\ DomainsOK'
  BY <1>1 DEF Rests, BaseInv, Base, PlanOK, DomainsOK
<1>3. \A t \in Server : PaceOK(t)' /\ RegsOK(t)'
  BY <1>1 DEF Rests, BaseInv, Base, PaceOK, RegsOK, AtRest, Mid
<1> QED
  BY <1>2, <1>3 DEF BaseInv, Base

\* ... and at the start.
LEMMA BaseInvInit == Init => BaseInv
<1> SUFFICES ASSUME Init PROVE \A s \in Server : RegsOK(s)
  BY BaseInit DEF BaseInv
<1>1. SUFFICES ASSUME NEW s \in Server PROVE RegsOK(s)
  OBVIOUS
<1>2. pc[s] = 0 /\ published[s] = 0 /\ finished[s] = 0
  BY DEF Init, Ring!Init, Server
<1> QED
  BY <1>2 DEF RegsOK, Mid

-----------------------------------------------------------------------------
(* Masks.                                                                  *)

\* The masks of the three servers add up to zero.
LEMMA MasksAddUp ==
  ASSUME NEW W \in Nat \ {0}, NEW a \in Int, NEW b \in Int, NEW c \in Int
  PROVE  (((c - a) % W) + ((a - b) % W) + ((b - c) % W)) % W = 0
<1> DEFINE x == c - a  y == a - b  z == b - c
           r == (x % W) + (y % W) + (z % W)
           k == -((x \div W) + (y \div W) + (z \div W))
<1>1. x \in Int /\ y \in Int /\ z \in Int /\ x + y + z = 0
  OBVIOUS
<1> HIDE DEF x, y, z
<1>2. /\ x \div W \in Int /\ x % W \in Int /\ x = W * (x \div W) + (x % W)
      /\ y \div W \in Int /\ y % W \in Int /\ y = W * (y \div W) + (y % W)
      /\ z \div W \in Int /\ z % W \in Int /\ z = W * (z \div W) + (z % W)
  BY <1>1, DivMod
<1>3. k \in Int /\ r \in Int /\ r - 0 = W * k
  <2> DEFINE qx == x \div W  qy == y \div W  qz == z \div W
             rx == x % W  ry == y % W  rz == z % W
  <2>1. /\ qx \in Int /\ rx \in Int /\ x = W * qx + rx
        /\ qy \in Int /\ ry \in Int /\ y = W * qy + ry
        /\ qz \in Int /\ rz \in Int /\ z = W * qz + rz
    BY <1>2
  <2> HIDE DEF qx, qy, qz, rx, ry, rz
  <2>2. W * (-(qx + qy + qz)) = -(W * qx) - W * qy - W * qz
    <3>1. W \in Int
      OBVIOUS
    <3>2. \A e, f, g \in Int : W * (-(e + f + g)) = -(W * e) - W * f - W * g
      BY <3>1
    <3> QED
      BY <2>1, <3>2
  <2>3. (rx + ry + rz) - 0 = W * (-(qx + qy + qz))
    BY <1>1, <2>1, <2>2
  <2>4. rx + ry + rz \in Int /\ -(qx + qy + qz) \in Int
    BY <2>1
  <2>5. k = -(qx + qy + qz) /\ r = rx + ry + rz
    BY DEF qx, qy, qz, rx, ry, rz
  <2> HIDE DEF k, r
  <2> QED
    BY <2>3, <2>4, <2>5
<1> HIDE DEF r, k
<1>4. r % W = 0 % W
  BY <1>3, ModUnique
<1>5. 0 % W = 0
  OBVIOUS
<1> QED
  BY <1>4, <1>5 DEF r, x, y, z
\* What a server's mask with a given number is.
MaskAt(s, n) == (Prf(query.prfKey[Prev(s)], n) - Prf(query.prfKey[s], n)) % Word

\* c[i] is the PRF counter after the first i instructions.
Counting(c) ==
  /\ c \in [0 .. Len(plan) -> Nat] /\ c[0] = 0
  /\ \A i \in 1 .. Len(plan) : c[i] = c[i - 1] + Move(plan[i])

\* Server s's counter, and the masks it has, are those of its place in the plan.
MaskOK(s, c) ==
  /\ pc[s] = 0 => counter[s] = 0
  /\ pc[s] # 0 /\ AtRest(s) => counter[s] = c[pc[s] - 1]
  /\ Mid(s) => counter[s] = c[pc[s]]
  /\ \A f \in 1 .. Len(plan) : LastFill(plan, f, pc[s]) =>
       zero[s] = [row \in Filling(plan[f]) |->
                    MaskAt(s, c[f - 1] + (row * VectorLen + query.row))]

MaskInv == \E c : Counting(c) /\ \A s \in Server : MaskOK(s, c)

\* The counters are defined.
LEMMA CountingDefined ==
  ASSUME PlanOK
  PROVE  \E c : Counting(c)
<1> DEFINE N == Len(plan)
           G == [i \in 1 .. N |-> [m \in Nat |-> m + Move(plan[i])]]
<1>1. N \in Nat /\ plan \in Seq(InstrSet)
  BY PlanFacts
<1>2. \A i \in 1 .. N : Move(plan[i]) \in Nat
  BY <1>1, MoveNat, ElementOfSeq
<1> HIDE DEF N
<1>3. G \in [1 .. N -> [Nat -> Nat]]
  BY <1>2
<1>4. \A i \in 1 .. N, m \in Nat : G[i][m] = m + Move(plan[i])
  OBVIOUS
<1> HIDE DEF G
<1>5. PICK h \in [0 .. N -> Nat] : IsIteration(h, N, 0, G)
  BY <1>1, <1>3, Iteration
<1>6. \A i \in 1 .. N : i - 1 \in 0 .. N
  BY <1>1
<1>7. \A i \in 1 .. N : h[i] = h[i - 1] + Move(plan[i])
  BY <1>4, <1>5, <1>6 DEF IsIteration
<1>8. Counting(h)
  BY <1>5, <1>7 DEF Counting, IsIteration, N
<1> QED
  BY <1>8

\* The masks at the start.
LEMMA MaskInit ==
  ASSUME Init
  PROVE  MaskInv
<1>1. PlanOK
  BY BaseInit DEF Base
<1>2. PICK c : Counting(c)
  BY <1>1, CountingDefined
<1>3. ASSUME NEW s \in Server
      PROVE  MaskOK(s, c)
  <2>1. pc[s] = 0 /\ counter[s] = 0 /\ published[s] = 0 /\ finished[s] = 0
    BY DEF Init, Ring!Init, Server
  <2>2. \A f \in 1 .. Len(plan) : ~LastFill(plan, f, 0)
    BY DEF LastFill
  <2> QED
    BY <2>1, <2>2 DEF MaskOK, Mid
<1> QED
  BY <1>2, <1>3 DEF MaskInv

\* Nothing else in these definitions changes.
LEMMA SameQuery ==
  ASSUME query' = query, plan' = plan
  PROVE  /\ VectorLen' = VectorLen /\ MacFactor' = MacFactor /\ Columns' = Columns
         /\ Filled' = Filled
         /\ \A c : Counting(c)' = Counting(c)
         /\ \A s, n : MaskAt(s, n)' = MaskAt(s, n)
<1>1. Columns' = Columns /\ MacFactor' = MacFactor
  BY DEF Columns, MacFactor, Malicious
<1>2. VectorLen' = VectorLen
  BY <1>1 DEF VectorLen
<1>3. Filled' = Filled
  BY <1>2 DEF Filled, ChunkSize
<1>4. ASSUME NEW c PROVE Counting(c)' = Counting(c)
  BY <1>1, <1>2 DEF Counting, Move
<1>5. ASSUME NEW s, NEW n PROVE MaskAt(s, n)' = MaskAt(s, n)
  BY DEF MaskAt
<1> QED
  BY <1>1, <1>2, <1>3, <1>4, <1>5

\* A server that keeps its place and its masks.
LEMMA MaskKept ==
  ASSUME query' = query, plan' = plan, NEW c, NEW t \in Server, MaskOK(t, c),
         pc'[t] = pc[t], published'[t] = published[t], finished'[t] = finished[t],
         zero'[t] = zero[t], counter'[t] = counter[t]
  PROVE  MaskOK(t, c)'
<1>1. /\ VectorLen' = VectorLen /\ \A s, n : MaskAt(s, n)' = MaskAt(s, n)
  BY SameQuery
<1>2. AtRest(t)' = AtRest(t) /\ Mid(t)' = Mid(t)
  BY DEF AtRest, Mid
<1>3. ASSUME NEW f \in 1 .. Len(plan), LastFill(plan, f, pc[t])
      PROVE  zero'[t] = [row \in Filling(plan[f]) |->
                           MaskAt(t, c[f - 1] + (row * VectorLen + query.row))]
  BY <1>3 DEF MaskOK
<1>4. ASSUME NEW f \in 1 .. Len(plan)
      PROVE  [row \in Filling(plan[f]) |->
                MaskAt(t, c[f - 1] + (row * VectorLen + query.row))]'
             = [row \in Filling(plan[f]) |->
                  MaskAt(t, c[f - 1] + (row * VectorLen + query.row))]
  BY <1>1 DEF MaskAt
<1> QED
  BY <1>2, <1>3, <1>4 DEF MaskOK

\* An instruction that fills nothing leaves the last Fill what it was.
LEMMA LastFillKept ==
  ASSUME NEW seq, NEW n \in Nat, NEW f \in Nat, seq[n].op # "fill" \/ n = 0,
         LastFill(seq, f, n + 1)
  PROVE  LastFill(seq, f, n)
<1>1. f \in 1 .. n /\ f # n /\ seq[f].op = "fill"
  BY DEF LastFill
<1>2. f \in 1 .. n - 1 /\ \A g \in f + 1 .. n - 1 : g \in f + 1 .. n
  BY <1>1
<1>3. \A g \in f + 1 .. n : seq[g].op \in {"and", "or"}
  BY DEF LastFill
<1> QED
  BY <1>1, <1>2, <1>3 DEF LastFill

\* The masks after a step of a server.
LEMMA MaskStep ==
  ASSUME FourChunks, BaseInv, NEW s \in Server, Moves(s), NEW c, Counting(c), MaskOK(s, c)
  PROVE  MaskOK(s, c)'
<1> DEFINE n == pc[s]
           Masks(f) == [row \in Filling(plan[f]) |->
                          MaskAt(s, c[f - 1] + (row * VectorLen + query.row))]
<1>1. /\ Base /\ PlanOK /\ PaceOK(s) /\ Len(plan) \in Nat
      /\ n \in Nat /\ published[s] \in Nat /\ finished[s] \in Nat
      /\ query' = query /\ plan' = plan
  BY PlanFacts, BaseMoves DEF BaseInv, Base, DomainsOK
<1>2. \A f : Masks(f)' = Masks(f)
  BY <1>1, SameQuery DEF MaskAt
<1>3. \A f \in 1 .. Len(plan) : LastFill(plan, f, n) => zero[s] = Masks(f)
  BY DEF MaskOK
<1>4. c[0] = 0 /\ \A i \in 1 .. Len(plan) : c[i] = c[i - 1] + Move(plan[i]) /\ c[i - 1] \in Nat
  BY <1>1 DEF Counting
<1> HIDE DEF Masks
<1>5. ASSUME pc'[s] = 0 => counter'[s] = 0,
             pc'[s] # 0 /\ AtRest(s)' => counter'[s] = c[pc'[s] - 1],
             Mid(s)' => counter'[s] = c[pc'[s]],
             \A f \in 1 .. Len(plan) : LastFill(plan, f, pc'[s]) => zero'[s] = Masks(f)
      PROVE  MaskOK(s, c)'
  BY <1>1, <1>2, <1>5 DEF MaskOK, Masks
<1>6. ASSUME Passes(s), Evaluates(s)
      PROVE  MaskOK(s, c)'
  <2>1. n = 0 /\ pc'[s] = 1 /\ counter'[s] = counter[s]
    BY <1>6 DEF Passes, Evaluates, KeepsMasks
  <2>2. counter[s] = 0
    BY <2>1 DEF MaskOK
  <2>3. ~Mid(s)'
    BY <1>1, <1>6, <2>1 DEF Passes, PaceOK, Mid, AtRest
  <2>4. \A f \in 1 .. Len(plan) : ~LastFill(plan, f, 1)
    BY DEF LastFill
  <2> QED
    BY <1>4, <1>5, <2>1, <2>2, <2>3, <2>4
<1>7. ASSUME Passes(s), Fills(s)
      PROVE  MaskOK(s, c)'
  <2>1. /\ n \in 1 .. Len(plan) /\ pc'[s] = n + 1 /\ plan[n].op = "fill"
        /\ counter'[s] = counter[s] + Move(plan[n])
        /\ published'[s] = published[s] /\ finished'[s] = finished[s]
    BY <1>7 DEF Passes, Fills
  <2>2. AtRest(s) /\ published[s] = finished[s]
    BY <1>1, <2>1 DEF PaceOK, AtRest, Exchanges
  <2>3. counter[s] = c[n - 1]
    BY <2>1, <2>2 DEF MaskOK
  <2>4. counter'[s] = c[n] /\ ~Mid(s)'
    BY <1>1, <1>4, <2>1, <2>2, <2>3 DEF Mid
  <2>5. zero'[s] = [row \in Filling(plan[n]) |-> ZeroShare(s, row * VectorLen + query.row)]
    BY <1>1, <1>7, AlwaysFilled DEF Fills
  <2>6. zero'[s] = Masks(n)
    BY <2>3, <2>5 DEF Masks, ZeroShare, MaskAt
  <2>7. ASSUME NEW f \in 1 .. Len(plan), LastFill(plan, f, n + 1)
        PROVE  f = n
    <3>1. f \in 1 .. n /\ (\A g \in f + 1 .. n : plan[g].op # "fill")
      BY <1>1, <2>7 DEF LastFill
    <3>2. f < n => n \in f + 1 .. n
      BY <1>1
    <3>3. ~(f < n)
      BY <2>1, <3>1, <3>2
    <3> QED
      BY <1>1, <3>1, <3>3
  <2>8. pc'[s] - 1 = n /\ pc'[s] # 0
    BY <1>1, <2>1
  <2> QED
    BY <1>5, <2>1, <2>4, <2>6, <2>7, <2>8
<1>8. ASSUME NEW msg, Sends(s, msg), ReshareSent(s, msg) \/ ProductSent(s, msg)
      PROVE  MaskOK(s, c)'
  <2>1. /\ n \in 1 .. Len(plan) /\ pc'[s] = n /\ AtRest(s) /\ published[s] = finished[s]
        /\ published'[s] = published[s] + 1 /\ finished'[s] = finished[s]
        /\ zero'[s] = zero[s]
    BY <1>8 DEF Sends, ReshareSent, ProductSent, KeepsMasks, AtRest
  <2>2. counter[s] = c[n - 1]
    BY <2>1 DEF MaskOK
  <2>3. counter'[s] = counter[s] + Move(plan[n])
    <3>1. CASE ReshareSent(s, msg)
      BY <3>1 DEF ReshareSent
    <3>2. CASE ProductSent(s, msg)
      <4>1. plan[n].op \in {"and", "or"} /\ counter'[s] = counter[s]
        BY <3>2 DEF ProductSent, KeepsMasks
      <4>2. Move(plan[n]) = 0 /\ c[n - 1] \in Nat
        BY <1>4, <2>1, <4>1 DEF Move
      <4> QED
        BY <2>2, <4>1, <4>2
    <3> QED
      BY <1>8, <3>1, <3>2
  <2>4. counter'[s] = c[n]
    BY <1>4, <2>1, <2>2, <2>3
  <2>40. ~AtRest(s)'
    <3>1. published[s] = finished[s] /\ finished[s] \in Nat
      BY <1>1, <2>1 DEF AtRest
    <3> DEFINE p == published[s]  f == finished[s]
    <3>2. published'[s] = p + 1 /\ finished'[s] = f /\ p = f /\ f \in Nat
      BY <2>1, <3>1
    <3> HIDE DEF p, f
    <3> QED
      BY <3>2 DEF AtRest
  <2> QED
    BY <1>3, <1>5, <2>1, <2>4, <2>40
<1>9. ASSUME Finishes(s), ReshareFinished(s) \/ ProductFinished(s)
      PROVE  MaskOK(s, c)'
  <2>1. /\ n \in 1 .. Len(plan) /\ pc'[s] = n + 1 /\ plan[n].op # "fill" /\ Mid(s)
        /\ published'[s] = published[s] /\ finished'[s] = finished[s] + 1
        /\ zero'[s] = zero[s] /\ counter'[s] = counter[s]
    BY <1>9 DEF Finishes, ReshareFinished, ProductFinished, KeepsMasks, Exchanges
  <2>2. counter[s] = c[n]
    BY <2>1 DEF MaskOK
  <2>3. ~Mid(s)'
    BY <1>1, <2>1 DEF Mid
  <2>4. \A f \in 1 .. Len(plan) : LastFill(plan, f, n + 1) => LastFill(plan, f, n)
    BY <1>1, <2>1, LastFillKept
  <2>5. pc'[s] - 1 = n /\ pc'[s] # 0
    BY <1>1, <2>1
  <2> QED
    BY <1>3, <1>5, <2>1, <2>2, <2>3, <2>4, <2>5
<1> QED
  BY <1>6, <1>7, <1>8, <1>9 DEF Moves

\* The masks of all servers after a step of one.
LEMMA MaskMoves ==
  ASSUME FourChunks, BaseInv, MaskInv, NEW s \in Server, Moves(s)
  PROVE  MaskInv'
<1>1. PICK c : Counting(c) /\ \A t \in Server : MaskOK(t, c)
  BY DEF MaskInv
<1>2. query' = query /\ plan' = plan
  BY BaseMoves
<1>3. Counting(c)'
  BY <1>1, <1>2, SameQuery
<1>4. MaskOK(s, c)'
  BY <1>1, MaskStep
<1>5. ASSUME NEW t \in Server \ {s}
      PROVE  MaskOK(t, c)'
  BY <1>1, <1>2, OthersBase, MaskKept
<1> QED
  BY <1>3, <1>4, <1>5 DEF MaskInv

\* ... and after any other step.
LEMMA MaskRests ==
  ASSUME MaskInv, Rests
  PROVE  MaskInv'
<1>1. PICK c : Counting(c) /\ \A t \in Server : MaskOK(t, c)
  BY DEF MaskInv
<1>2. Counting(c)'
  BY <1>1, SameQuery DEF Rests
<1>3. ASSUME NEW t \in Server
      PROVE  MaskOK(t, c)'
  BY <1>1, MaskKept DEF Rests
<1> QED
  BY <1>2, <1>3 DEF MaskInv

\* The PRF's values are numbers.
PrfNumbers == \A q \in Requests, s \in Server, n \in Nat : Prf(q.prfKey[s], n) \in Int

\* A combination finds the masks that the last Fill before it numbered alike
\* at the three servers.
LEMMA MasksFromInv ==
  ASSUME PrfNumbers, BaseInv, MaskInv
  PROVE  MasksCancel
<1> SUFFICES ASSUME \A s \in Server : pc[s] = pc[0] /\ Running(s) /\ Instr(s).op \in {"and", "or"}
             PROVE  (zero[0][Instr(0).row] + zero[1][Instr(0).row] + zero[2][Instr(0).row])
                       % Word = 0
  BY DEF MasksCancel
<1> DEFINE n == pc[0]
           row == plan[n].row
<1>1. 0 \in Server /\ 1 \in Server /\ 2 \in Server /\ Prev(0) = 2 /\ Prev(1) = 0 /\ Prev(2) = 1
  BY ServerFacts
<1>2. /\ PlanOK /\ n \in Nat /\ n \in 1 .. Len(plan) /\ Len(plan) \in Nat /\ Instr(0) = plan[n]
      /\ InstrOK(plan, n, {}, Computed(query.kind, LeafCount))
  <2>1. PlanOK /\ pc[0] \in Nat /\ Running(0)
    BY <1>1 DEF BaseInv, Base, DomainsOK
  <2> QED
    BY <1>1, <2>1, InstrFacts
<1>3. PICK f \in 1 .. n - 1 : LastFill(plan, f, n) /\ row \in Filling(plan[f])
  <2>1. plan[n].op \in {"and", "or"}
    BY <1>1, <1>2
  <2> QED
    BY <1>2, <2>1 DEF InstrOK, Masked, Filling
<1>4. PICK c : Counting(c) /\ \A s \in Server : MaskOK(s, c)
  BY DEF MaskInv
<1> DEFINE k == c[f - 1] + (row * VectorLen + query.row)
<1>5. \A s \in Server : zero[s][row] = MaskAt(s, k)
  <2> SUFFICES ASSUME NEW s \in Server
               PROVE  zero[s][row] = MaskAt(s, k)
    OBVIOUS
  <2>1. f \in 1 .. Len(plan) /\ LastFill(plan, f, pc[s])
    BY <1>2, <1>3
  <2>2. zero[s] = [r \in Filling(plan[f]) |-> MaskAt(s, c[f - 1] + (r * VectorLen + query.row))]
    BY <1>4, <2>1 DEF MaskOK
  <2> HIDE DEF row
  <2> QED
    BY <1>3, <2>2
<1>6. k \in Nat
  <2>1. c[f - 1] \in Nat
    BY SMTT(30), <1>2, <1>3, <1>4 DEF Counting
  <2>2. plan[f] \in InstrSet /\ plan[f].op = "fill" /\ plan[f].first \in Nat /\ plan[f].rows \in Nat
    <3>1. plan[f] \in InstrSet
      BY <1>2, <1>3, PlanFacts, ElementOfSeq
    <3> QED
      BY <1>3, <3>1, InstrKinds DEF LastFill
  <2>3. row \in Nat
    BY <1>3, <2>2 DEF Filling
  <2>4. row * VectorLen + query.row \in Nat
    BY <1>2, <2>3, Sizes
  <2> QED
    BY <2>1, <2>4
<1> HIDE DEF k, row
<1> DEFINE a == Prf(query.prfKey[0], k)
           b == Prf(query.prfKey[1], k)
           d == Prf(query.prfKey[2], k)
<1>7. a \in Int /\ b \in Int /\ d \in Int /\ Word \in Nat \ {0}
  <2>1. query \in Requests
    BY <1>2 DEF PlanOK
  <2> QED
    BY <1>1, <1>6, <2>1, GroupAssumption DEF PrfNumbers
<1>8. /\ zero[0][row] = (d - a) % Word
      /\ zero[1][row] = (a - b) % Word
      /\ zero[2][row] = (b - d) % Word
  BY <1>1, <1>5 DEF MaskAt
<1> HIDE DEF a, b, d
<1>9. (((d - a) % Word) + ((a - b) % Word) + ((b - d) % Word)) % Word = 0
  BY <1>7, MasksAddUp
<1> QED
  BY <1>2, <1>8, <1>9 DEF row

\* Whatever the requests, the number of predicates and leaves, the windows (a
\* multiple of four for EvalFilter) and the servers' paces: the masks that the servers use for a combination add up
\* to zero (GetNextSecretShareOfZero, with prfCounter moved by the handlers).
THEOREM MasksAlwaysCancel ==
  ASSUME PrfNumbers, FourChunks
  PROVE  Spec => []MasksCancel
<1>1. Init => BaseInv /\ MaskInv
  BY BaseInvInit, MaskInit
<1>2. BaseInv /\ MaskInv /\ [Next]_vars => (BaseInv /\ MaskInv)'
  BY StepKinds, BaseMoves, BaseRests, MaskMoves, MaskRests
<1>3. BaseInv /\ MaskInv => MasksCancel
  BY MasksFromInv
<1> QED
  BY <1>1, <1>2, <1>3, PTL DEF Spec

-----------------------------------------------------------------------------
(* Thirds.                                                                 *)

\* A column by column combination of two thirds x and z with product a.
Combined(cols, op, a, x, z) == [k \in cols |-> (a[k] + OrTerm(op, x[k], z[k])) % Word]

\* A server's own third of vector v after instruction in, in which it sends msg,
\* from those before.
Third(cols, in, msg, before, v) ==
  IF in.op = "reshare"
  THEN IF v \in Range(in.regs) THEN msg[IndexOf(in.regs, v)] ELSE before[v]
  ELSE IF in.op \in {"and", "or"} /\ v = in.dst
       THEN Combined(cols, in.op, msg[1], before[in.x], before[in.y])
       ELSE before[v]

\* h[q][i] is what server q's own thirds of the vectors are after i instructions,
\* as far as it has sent them.
HistoryOf(q, h) ==
  \A i \in 1 .. Len(plan) : ExIn(plan, i) <= published[q] =>
    \A v \in Reg : h[q][i][v] = Third(Columns, plan[i], outbox[q][ExIn(plan, i)], h[q][i - 1], v)

HistoryOK(h) == \A q \in Server : HistoryOf(q, h)

\* Server s holds its own thirds and its predecessor's, those of the vectors
\* that its current exchange is about to replace excepted.
HoldsBefore(s, h) ==
  \A v \in WrittenIn(plan, pc[s]) :
    \/ Mid(s) /\ v \in Outputs(plan[pc[s]])
    \/ mem[s][v][1] = h[Prev(s)][pc[s] - 1][v] /\ mem[s][v][2] = h[s][pc[s] - 1][v]

\* Those it has as it sent them, and for a combination it has its first operand.
HoldsSent(s, h) ==
  LET in == plan[pc[s]]  msg == outbox[s][ExIn(plan, pc[s])] IN
  Mid(s) =>
    /\ in.op = "reshare" =>
         \A v \in Range(in.regs) : mem[s][v][2] = msg[IndexOf(in.regs, v)]
    /\ in.op \in {"and", "or"} =>
         /\ mem[s][in.dst][2] = msg[1]
         /\ operand[s][1] = h[Prev(s)][pc[s] - 1][in.x]
         /\ operand[s][2] = h[s][pc[s] - 1][in.x]

ThirdInv == \E h : HistoryOK(h) /\ \A s \in Server : HoldsBefore(s, h) /\ HoldsSent(s, h)

\* The vectors of a plan.
LEMMA WrittenReg ==
  ASSUME PlanOK
  PROVE  /\ \A i : WrittenIn(plan, i) \subseteq Reg
         /\ \A n \in 1 .. Len(plan) : plan[n].op \in Exchanges => Outputs(plan[n]) \subseteq Reg
<1>1. plan \in Seq(InstrSet)
  BY PlanFacts
<1>2. ASSUME NEW n \in 1 .. Len(plan), plan[n].op \in Exchanges
      PROVE  Outputs(plan[n]) \subseteq Reg
  <2>1. plan[n] \in InstrSet
    BY <1>1, ElementOfSeq
  <2>2. CASE plan[n].op = "reshare"
    <3>1. plan[n].regs \in Seq(Reg)
      BY <2>1, <2>2, InstrKinds
    <3> QED
      BY <2>2, <3>1, RangeOfSeq DEF Outputs
  <2>3. CASE plan[n].op # "reshare"
    <3>1. plan[n].dst \in Reg
      BY <1>2, <2>1, <2>3, InstrKinds DEF Exchanges
    <3> QED
      BY <2>3, <3>1 DEF Outputs
  <2> QED
    BY <2>2, <2>3
<1>3. ASSUME NEW i, NEW v \in WrittenIn(plan, i)
      PROVE  v \in Reg
  <2>1. PICK j \in 1 .. Len(plan) : plan[j].op \in Exchanges /\ v \in Outputs(plan[j])
    BY WrittenBy
  <2> QED
    BY <1>2, <2>1
<1> QED
  BY <1>2, <1>3

\* The thirds at the start.
LEMMA ThirdInit ==
  ASSUME Init
  PROVE  ThirdInv
<1> DEFINE h == [q \in Server |-> [i \in 0 .. Len(plan) |-> [v \in Reg |-> 0]]]
<1>1. Len(plan) \in Nat
  BY BaseInit, PlanFacts DEF Base
<1>2. \A q \in Server, i \in 0 .. Len(plan), v \in Reg : h[q][i][v] = 0
  OBVIOUS
<1> HIDE DEF h
<1>3. ASSUME NEW q \in Server, NEW i \in 1 .. Len(plan), ExIn(plan, i) <= published[q],
             NEW v \in Reg
      PROVE  h[q][i][v] = Third(Columns, plan[i], outbox[q][ExIn(plan, i)], h[q][i - 1], v)
  <2>1. ExIn(plan, i) <= 0
    BY <1>3 DEF Init, Ring!Init, Server
  <2>2. ExIn(plan, i) = ExIn(plan, i - 1) + (IF plan[i].op \in Exchanges THEN 1 ELSE 0)
        /\ ExIn(plan, i - 1) \in Nat
    BY ExStep, i \in Nat \ {0}
  <2>3. plan[i].op \notin Exchanges
    BY <2>1, <2>2
  <2>4. i - 1 \in 0 .. Len(plan) /\ i \in 0 .. Len(plan)
    BY <1>1
  <2> QED
    BY <1>2, <2>3, <2>4 DEF Third, Exchanges
<1>4. HistoryOK(h)
  BY <1>3 DEF HistoryOK, HistoryOf
<1>5. ASSUME NEW s \in Server
      PROVE  HoldsBefore(s, h) /\ HoldsSent(s, h)
  <2>1. pc[s] = 0 /\ published[s] = 0 /\ finished[s] = 0
    BY DEF Init, Ring!Init, Server
  <2>2. WrittenIn(plan, 0) = {}
    <3>1. {j \in 1 .. Len(plan) : j < 0 /\ plan[j].op \in Exchanges} = {}
      OBVIOUS
    <3> QED
      BY <3>1 DEF WrittenIn
  <2> QED
    BY <2>1, <2>2 DEF HoldsBefore, HoldsSent, Mid
<1> QED
  BY <1>4, <1>5 DEF ThirdInv

\* Columns depend on the request only.
LEMMA SameColumns ==
  ASSUME query' = query
  PROVE  Columns' = Columns
BY DEF Columns, Malicious

\* Two histories that agree on what has been sent.
Agree(h, g) ==
  \A q \in Server : \A i \in 0 .. Len(plan) : ExIn(plan, i) <= published[q] =>
    \A v \in Reg : g[q][i][v] = h[q][i][v]

\* How many exchanges there are up to the one of a server.
LEMMA ExHere ==
  ASSUME Base, NEW s \in Server, pc[s] \in 1 .. Len(plan)
  PROVE  /\ pc[s] \in Nat \ {0} /\ Len(plan) \in Nat
         /\ finished[s] \in Nat /\ published[s] \in Nat /\ published[Prev(s)] \in Nat
         /\ ExIn(plan, pc[s] - 1) = finished[s]
         /\ ExIn(plan, pc[s]) = finished[s] + (IF plan[pc[s]].op \in Exchanges THEN 1 ELSE 0)
         /\ finished[s] <= published[s] /\ finished[s] <= published[Prev(s)]
<1>1. /\ pc[s] \in Nat \ {0} /\ finished[s] \in Nat /\ published[s] \in Nat
      /\ published[Prev(s)] \in Nat /\ Len(plan) \in Nat
  BY SMTT(30), PlanFacts, ServerFacts DEF Base, DomainsOK
<1>2. ExIn(plan, pc[s] - 1) = finished[s] /\ finished[s] <= published[Prev(s)]
      /\ finished[s] <= published[s]
  BY <1>1 DEF Base, PaceOK, AtRest, Mid
<1> QED
  BY <1>1, <1>2, ExStep

\* Without an exchange, nothing changes.
LEMMA ThirdQuiet ==
  ASSUME NEW in, in.op \notin Exchanges, NEW msg, NEW before, NEW v, NEW cols
  PROVE  Third(cols, in, msg, before, v) = before[v]
BY DEF Third, Exchanges

\* A server that sends its thirds writes the history on, up to its next exchange.
LEMMA HistoryGrows ==
  ASSUME BaseInv, NEW s \in Server, NEW msg, Sends(s, msg), NEW h, HistoryOK(h)
  PROVE  \E g : HistoryOK(g)' /\ Agree(h, g)
<1> DEFINE n == pc[s]
           N == Len(plan)
<1>1. /\ Base /\ n \in 1 .. N /\ plan[n].op \in Exchanges /\ query' = query /\ plan' = plan
      /\ published[s] = finished[s] /\ published'[s] = published[s] + 1
      /\ outbox'[s] = Append(outbox[s], msg)
      /\ \A t \in Server \ {s} : published'[t] = published[t] /\ outbox'[t] = outbox[t]
  BY DEF BaseInv, Sends, Quiet, AtRest
<1>2. /\ n \in Nat \ {0} /\ N \in Nat /\ published[s] \in Nat
      /\ ExIn(plan, n - 1) = published[s] /\ ExIn(plan, n) = published[s] + 1
  BY <1>1, ExHere
<1>3. PICK w : \A v \in Reg : w[v] = Third(Columns, plan[n], msg, h[s][n - 1], v)
  <2> DEFINE w == [v \in Reg |-> Third(Columns, plan[n], msg, h[s][n - 1], v)]
  <2>1. \A v \in Reg : w[v] = Third(Columns, plan[n], msg, h[s][n - 1], v)
    OBVIOUS
  <2> QED
    BY <2>1
<1>4. PICK g : /\ \A q \in Server \ {s}, i \in 0 .. N : g[q][i] = h[q][i]
               /\ \A i \in 0 .. n - 1 : g[s][i] = h[s][i]
               /\ \A i \in n .. N : g[s][i] = w
  <2> DEFINE g == [q \in Server |-> [i \in 0 .. N |-> IF q = s /\ i >= n THEN w ELSE h[q][i]]]
  <2>1. /\ \A q \in Server \ {s}, i \in 0 .. N : g[q][i] = h[q][i]
        /\ \A i \in 0 .. n - 1 : g[s][i] = h[s][i]
        /\ \A i \in n .. N : g[s][i] = w
    BY <1>1, <1>2
  <2> HIDE DEF g
  <2> QED
    BY <2>1
<1>5. /\ Len(outbox'[s]) = published[s] + 1
      /\ outbox'[s][published[s] + 1] = msg
      /\ \A i \in 1 .. published[s] : outbox'[s][i] = outbox[s][i]
  <2>1. AnySeq(outbox[s]) /\ Len(outbox[s]) = published[s]
    BY <1>1 DEF Base, PaceOK
  <2> QED
    BY <1>1, <2>1, AppendAny
<1>6. ASSUME NEW i \in n .. N
      PROVE  /\ ExIn(plan, i) \in Nat /\ published[s] < ExIn(plan, i)
             /\ i > n /\ plan[i].op \in Exchanges => published[s] + 1 < ExIn(plan, i)
  <2>1. i \in Nat /\ n <= i
    BY <1>2
  <2>2. /\ ExIn(plan, n) <= ExIn(plan, i) /\ ExIn(plan, i) \in Nat
        /\ \A j \in n + 1 .. i : plan[j].op \in Exchanges => ExIn(plan, n) < ExIn(plan, i)
    BY <1>2, <2>1, ExGrows
  <2> QED
    BY <1>2, <2>1, <2>2
<1>7. Agree(h, g)
  <2> SUFFICES ASSUME NEW q \in Server, NEW i \in 0 .. N, ExIn(plan, i) <= published[q]
               PROVE  g[q][i] = h[q][i]
    BY DEF Agree
  <2>1. CASE q # s
    BY <1>4, <2>1
  <2>2. CASE q = s
    <3>1. i \notin n .. N
      BY <1>2, <1>6, <2>2
    <3>2. i \in 0 .. n - 1
      BY <1>2, <3>1
    <3> QED
      BY <1>4, <2>2, <3>2
  <2> QED
    BY <2>1, <2>2
<1>8. Columns' = Columns
  BY <1>1, SameColumns
<1>9. ASSUME NEW q \in Server \ {s}
      PROVE  HistoryOf(q, g)'
  <2>1. \A i \in 1 .. N : g[q][i] = h[q][i] /\ g[q][i - 1] = h[q][i - 1]
    BY SMTT(40), <1>2, <1>4
  <2>2. HistoryOf(q, h)
    BY DEF HistoryOK
  <2>3. ASSUME NEW i \in 1 .. N, ExIn(plan, i) <= published[q], NEW v \in Reg
        PROVE  g[q][i][v] = Third(Columns, plan[i], outbox[q][ExIn(plan, i)], g[q][i - 1], v)
    BY <2>1, <2>2, <2>3 DEF HistoryOf
  <2>4. published'[q] = published[q] /\ outbox'[q] = outbox[q]
    BY <1>1
  <2> QED
    BY <1>1, <1>8, <2>3, <2>4 DEF HistoryOf
<1>10. ASSUME NEW i \in 1 .. N, ExIn(plan, i) <= published'[s], NEW v \in Reg
       PROVE  g[s][i][v] = Third(Columns, plan[i], outbox'[s][ExIn(plan, i)], g[s][i - 1], v)
  <2>1. CASE i < n
    <3>1. i \in 0 .. n - 1 /\ i - 1 \in 0 .. n - 1
      BY <1>2, <2>1
    <3>2. g[s][i] = h[s][i] /\ g[s][i - 1] = h[s][i - 1]
      BY <1>4, <3>1
    <3>3. ExIn(plan, i) <= published[s] /\ ExIn(plan, i) \in Nat
      <4>1. i \in Nat \ {0} /\ n - 1 \in Nat /\ i <= n - 1
        BY <1>2, <2>1
      <4>2. ExIn(plan, i) <= ExIn(plan, n - 1) /\ ExIn(plan, n - 1) \in Nat
        BY <4>1, ExGrows
      <4>3. ExIn(plan, i) \in Nat
        BY <4>1, ExGrows, i <= i
      <4> QED
        BY <1>2, <4>2, <4>3
    <3>4. h[s][i][v] = Third(Columns, plan[i], outbox[s][ExIn(plan, i)], h[s][i - 1], v)
      BY <3>3 DEF HistoryOK, HistoryOf
    <3>5. CASE plan[i].op \in Exchanges
      <4>1. ExIn(plan, i) = ExIn(plan, i - 1) + 1 /\ ExIn(plan, i - 1) \in Nat
        BY <3>5, ExStep, i \in Nat \ {0}
      <4>2. ExIn(plan, i) \in 1 .. published[s]
        BY <1>2, <3>3, <4>1
      <4>3. outbox'[s][ExIn(plan, i)] = outbox[s][ExIn(plan, i)]
        BY <1>5, <4>2
      <4> QED
        BY <3>2, <3>4, <4>3
    <3>6. CASE plan[i].op \notin Exchanges
      BY <3>2, <3>4, <3>6, ThirdQuiet
    <3> QED
      BY <3>5, <3>6
  <2>2. CASE i = n
    <3>1. g[s][i] = w /\ g[s][i - 1] = h[s][n - 1]
      <4>1. n \in n .. N /\ n - 1 \in 0 .. n - 1
        BY SMTT(40), <1>1, <1>2
      <4> QED
        BY <1>4, <2>2, <4>1
    <3> QED
      BY <1>2, <1>3, <1>5, <2>2, <3>1
  <2>3. CASE i > n
    <3>1. i \in n .. N /\ i - 1 \in n .. N
      BY <1>2, <2>3
    <3>2. g[s][i] = w /\ g[s][i - 1] = w
      BY <1>4, <3>1
    <3>3. plan[i].op \notin Exchanges
      BY SMTT(40), <1>1, <1>2, <1>6, <1>10, <2>3, <3>1
    <3> QED
      BY <3>2, <3>3, ThirdQuiet
  <2> QED
    BY <1>2, <2>1, <2>2, <2>3
<1>11. HistoryOf(s, g)'
  BY <1>1, <1>8, <1>10 DEF HistoryOf
<1>12. HistoryOK(g)'
  BY <1>9, <1>11 DEF HistoryOK
<1> QED
  BY <1>7, <1>12

\* Any other step keeps the history.
LEMMA HistoryKept ==
  ASSUME NEW h, HistoryOK(h), query' = query, plan' = plan,
         \A q \in Server : published'[q] = published[q] /\ outbox'[q] = outbox[q]
  PROVE  HistoryOK(h)' /\ Agree(h, h)
<1>1. Columns' = Columns
  BY SameColumns
<1>2. ASSUME NEW q \in Server
      PROVE  HistoryOf(q, h)'
  BY <1>1 DEF HistoryOK, HistoryOf
<1> QED
  BY <1>2 DEF HistoryOK, Agree

\* The instruction of a server that is in its plan, and its operands.
LEMMA OperandFacts ==
  ASSUME Base, NEW s \in Server, pc[s] \in 1 .. Len(plan)
  PROVE  LET in == plan[pc[s]] IN
         /\ in.op \in {"reshare", "fill", "and", "or"}
         /\ in.op = "reshare" => Range(in.regs) \subseteq Computed(query.kind, LeafCount)
         /\ in.op \in {"and", "or"} =>
              /\ in.x \in WrittenIn(plan, pc[s]) /\ in.y \in WrittenIn(plan, pc[s])
              /\ in.x \in Reg /\ in.y \in Reg /\ in.dst \in Reg /\ in.y # in.dst
<1>1. PlanOK
  BY DEF Base
<1>2. InstrOK(plan, pc[s], {}, Computed(query.kind, LeafCount)) /\ plan[pc[s]] \in InstrSet
  BY <1>1, PlanFacts, ElementOfSeq DEF Piece
<1> QED
  BY <1>2, InstrKinds DEF InstrOK

\* A history that agrees serves as well.
LEMMA HoldsAgree ==
  ASSUME Base, NEW s \in Server, NEW h, NEW g, Agree(h, g), HoldsBefore(s, h), HoldsSent(s, h)
  PROVE  HoldsBefore(s, g) /\ HoldsSent(s, g)
<1>1. /\ Len(plan) \in Nat /\ pc[s] \in 0 .. Len(plan) + 1 /\ Prev(s) \in Server /\ PlanOK
      /\ finished[s] \in Nat /\ published[s] \in Nat /\ published[Prev(s)] \in Nat
      /\ ExIn(plan, pc[s] - 1) = finished[s]
      /\ finished[s] <= published[s] /\ finished[s] <= published[Prev(s)]
  <2>1. PaceOK(s) /\ DomainsOK /\ PlanOK /\ Prev(s) \in Server
    BY ServerFacts DEF Base
  <2> QED
    BY <2>1, PlanFacts DEF PaceOK, DomainsOK, AtRest, Mid
<1>2. ASSUME pc[s] # 0, NEW v \in Reg, NEW q \in {s, Prev(s)}
      PROVE  g[q][pc[s] - 1][v] = h[q][pc[s] - 1][v]
  <2>1. pc[s] - 1 \in 0 .. Len(plan) /\ q \in Server /\ ExIn(plan, pc[s] - 1) <= published[q]
    BY <1>1, <1>2
  <2> QED
    BY <2>1 DEF Agree
<1>3. HoldsBefore(s, g)
  <2>1. \A v \in WrittenIn(plan, pc[s]) : pc[s] # 0 /\ v \in Reg
    BY <1>1, WrittenBy, WrittenReg
  <2> QED
    BY <1>2, <2>1 DEF HoldsBefore
<1>4. HoldsSent(s, g)
  <2> SUFFICES ASSUME Mid(s), plan[pc[s]].op \in {"and", "or"}
               PROVE  /\ operand[s][1] = g[Prev(s)][pc[s] - 1][plan[pc[s]].x]
                      /\ operand[s][2] = g[s][pc[s] - 1][plan[pc[s]].x]
    BY DEF HoldsSent
  <2>1. pc[s] \in 1 .. Len(plan)
    BY <1>1 DEF Base, PaceOK, Mid, AtRest
  <2>2. plan[pc[s]].x \in Reg /\ pc[s] # 0
    BY <2>1, OperandFacts
  <2> QED
    BY <1>2, <2>2 DEF HoldsSent
<1> QED
  BY <1>3, <1>4

\* A server that does nothing holds what it held.
LEMMA HoldsKept ==
  ASSUME NEW t \in Server, NEW g, HoldsBefore(t, g), HoldsSent(t, g), plan' = plan,
         pc'[t] = pc[t], published'[t] = published[t], finished'[t] = finished[t],
         outbox'[t] = outbox[t], mem'[t] = mem[t], operand'[t] = operand[t]
  PROVE  HoldsBefore(t, g)' /\ HoldsSent(t, g)'
<1>1. Mid(t)' = Mid(t)
  BY DEF Mid
<1>2. HoldsBefore(t, g)'
  BY <1>1 DEF HoldsBefore
<1>3. HoldsSent(t, g)'
  BY <1>1 DEF HoldsSent
<1> QED
  BY <1>2, <1>3

\* A server that sends holds what it sent.
LEMMA HoldsSends ==
  ASSUME BaseInv, NEW s \in Server, NEW msg, Sends(s, msg),
         ReshareSent(s, msg) \/ ProductSent(s, msg), NEW g, HoldsBefore(s, g)
  PROVE  HoldsBefore(s, g)' /\ HoldsSent(s, g)'
<1> DEFINE n == pc[s]
           in == plan[n]
<1>1. /\ Base /\ RegsOK(s) /\ n \in 1 .. Len(plan) /\ in.op \in Exchanges
      /\ plan' = plan /\ pc'[s] = n /\ AtRest(s) /\ published[s] = finished[s]
      /\ published'[s] = published[s] + 1 /\ finished'[s] = finished[s]
      /\ outbox'[s] = Append(outbox[s], msg)
  BY DEF BaseInv, Sends, Quiet, AtRest
<1>2. /\ n \in Nat \ {0} /\ published[s] \in Nat /\ ExIn(plan, n) = published[s] + 1
  BY <1>1, ExHere
<1>3. outbox'[s][ExIn(plan, n)] = msg
  <2>1. AnySeq(outbox[s]) /\ Len(outbox[s]) = published[s]
    BY <1>1 DEF Base, PaceOK
  <2> QED
    BY <1>1, <1>2, <2>1, AppendAny
<1>4. Mid(s)' /\ ~Mid(s)
  BY <1>1, <1>2 DEF Mid
<1>5. Computed(query.kind, LeafCount) \cup WrittenIn(plan, n) \subseteq DOMAIN mem[s]
  BY <1>1, <1>2 DEF RegsOK
<1>6. \A v \in WrittenIn(plan, n) :
        mem[s][v][1] = g[Prev(s)][n - 1][v] /\ mem[s][v][2] = g[s][n - 1][v]
  BY <1>4 DEF HoldsBefore
<1>7. /\ in.op = "reshare" => Range(in.regs) \subseteq Computed(query.kind, LeafCount)
      /\ in.op \in {"and", "or"} => in.x \in WrittenIn(plan, n)
  BY <1>1, OperandFacts
<1> HIDE DEF in
<1>8. ASSUME NEW v \in WrittenIn(plan, n), v \notin Outputs(in)
      PROVE  mem'[s][v] = mem[s][v]
  <2>1. v \in DOMAIN mem[s]
    BY <1>5
  <2>2. CASE ReshareSent(s, msg)
    BY <1>8, <2>1, <2>2 DEF ReshareSent, Outputs, in
  <2>3. CASE ProductSent(s, msg)
    <3>1. in.op # "reshare"
      BY <2>3 DEF ProductSent, in
    <3>2. v # in.dst
      BY <1>8, <3>1 DEF Outputs
    <3> QED
      BY <2>1, <2>3, <3>2 DEF ProductSent, in
  <2> QED
    BY <2>2, <2>3
<1>9. HoldsBefore(s, g)'
  <2>1. \A v \in WrittenIn(plan, n) : v \in Outputs(in) \/
          (mem'[s][v][1] = g[Prev(s)][n - 1][v] /\ mem'[s][v][2] = g[s][n - 1][v])
    BY <1>6, <1>8
  <2> QED
    BY <1>1, <1>4, <2>1 DEF HoldsBefore, in
<1>10. HoldsSent(s, g)'
  <2>1. CASE ReshareSent(s, msg)
    <3>1. in.op = "reshare" /\ in.op \notin {"and", "or"}
      BY <2>1 DEF ReshareSent, in
    <3>2. ASSUME NEW v \in Range(in.regs)
          PROVE  mem'[s][v][2] = msg[IndexOf(in.regs, v)]
      <4>1. v \in DOMAIN mem[s]
        BY <1>5, <1>7, <3>1
      <4>2. mem'[s][v] = <<mem[s][v][1], msg[IndexOf(in.regs, v)]>>
        BY <2>1, <4>1 DEF ReshareSent, in
      <4> QED
        BY <4>2
    <3> QED
      BY <1>1, <1>3, <3>1, <3>2 DEF HoldsSent, in
  <2>2. CASE ProductSent(s, msg)
    <3>1. in.op # "reshare" /\ in.op \in {"and", "or"}
          /\ mem'[s][in.dst][2] = msg[1] /\ operand'[s] = mem[s][in.x]
      BY <2>2 DEF ProductSent, in
    <3>2. operand'[s][1] = g[Prev(s)][n - 1][in.x] /\ operand'[s][2] = g[s][n - 1][in.x]
      BY <1>6, <1>7, <3>1
    <3> QED
      BY <1>1, <1>3, <3>1, <3>2 DEF HoldsSent, in
  <2> QED
    BY <2>1, <2>2
<1> QED
  BY <1>9, <1>10

\* A server that passes an instruction without an exchange.
LEMMA HoldsPasses ==
  ASSUME BaseInv, NEW s \in Server, Passes(s), Evaluates(s) \/ Fills(s),
         NEW g, HistoryOK(g)', HoldsBefore(s, g)
  PROVE  HoldsBefore(s, g)' /\ HoldsSent(s, g)'
<1> DEFINE n == pc[s]
<1>1. /\ Base /\ plan' = plan /\ query' = query /\ Columns' = Columns /\ pc'[s] = n + 1
      /\ n \in Nat /\ published[s] \in Nat /\ finished[s] \in Nat
      /\ published'[s] = published[s] /\ finished'[s] = finished[s]
      /\ Len(plan) \in Nat /\ Prev(s) \in Server
      /\ published'[Prev(s)] = published[Prev(s)]
  BY ServerFacts, SameColumns, PlanFacts DEF BaseInv, Base, DomainsOK, Passes, Quiet
<1>2. AtRest(s) /\ published[s] = finished[s]
  <2>1. PaceOK(s) /\ (n # 0 => plan[n].op \notin Exchanges)
    BY <1>1 DEF Base, Passes
  <2> QED
    BY <1>1, <2>1 DEF PaceOK, AtRest
<1>3. ~Mid(s)' /\ ~Mid(s)
  BY <1>1, <1>2 DEF Mid
<1>4. HoldsSent(s, g)'
  BY <1>3 DEF HoldsSent
<1>5. CASE Evaluates(s)
  <2>1. n = 0 /\ pc'[s] = 1
    BY <1>1, <1>5 DEF Evaluates
  <2>2. WrittenIn(plan', pc'[s]) = {}
    BY <2>1, WrittenNone
  <2> QED
    BY <1>4, <2>2 DEF HoldsBefore
<1>6. CASE Fills(s)
  <2>1. n \in 1 .. Len(plan) /\ plan[n].op = "fill" /\ plan[n].op \notin Exchanges
        /\ mem'[s] = mem[s]
    BY <1>6 DEF Fills, KeepsMem, Exchanges
  <2>2. WrittenIn(plan, n + 1) = WrittenIn(plan, n)
    <3>1. WrittenIn(plan, n + 1) = WrittenIn(plan, n) \cup
            (IF plan[n].op \in Exchanges THEN Outputs(plan[n]) ELSE {})
      BY <1>1, <2>1, WrittenStep
    <3> HIDE DEF n
    <3> QED
      BY <2>1, <3>1
  <2>3. ExIn(plan, n) = finished[s] /\ finished[s] <= published[Prev(s)]
    BY <1>1, <2>1, ExHere
  <2>4. ASSUME NEW q \in {s, Prev(s)}, NEW v \in Reg
        PROVE  g[q][n][v] = g[q][n - 1][v]
    <3>1. q \in Server /\ ExIn(plan, n) <= published'[q]
      BY <1>1, <1>2, <2>3
    <3>2. HistoryOf(q, g)'
      BY <3>1 DEF HistoryOK
    <3>3. g[q][n][v] = Third(Columns, plan[n], outbox'[q][ExIn(plan, n)], g[q][n - 1], v)
      BY <1>1, <2>1, <3>1, <3>2 DEF HistoryOf
    <3> QED
      BY <2>1, <3>3, ThirdQuiet
  <2>5. ASSUME NEW v \in WrittenIn(plan, n)
        PROVE  mem[s][v][1] = g[Prev(s)][n][v] /\ mem[s][v][2] = g[s][n][v]
    <3>1. v \in Reg
      BY <1>1, WrittenReg DEF Base
    <3>2. mem[s][v][1] = g[Prev(s)][n - 1][v] /\ mem[s][v][2] = g[s][n - 1][v]
      BY <1>3 DEF HoldsBefore
    <3> QED
      BY <2>4, <3>1, <3>2
  <2>6. (n + 1) - 1 = n
    BY <1>1
  <2> QED
    BY <1>1, <1>4, <2>1, <2>2, <2>5, <2>6 DEF HoldsBefore
<1> QED
  BY <1>5, <1>6

\* The two components of a combination.
LEMMA CompletedFact ==
  ASSUME NEW op, NEW a, NEW b, NEW x, NEW y
  PROVE  /\ Completed(op, <<a, b>>, x, y)[1] = Combined(Columns, op, a, x[1], y[1])
         /\ Completed(op, <<a, b>>, x, y)[2] = Combined(Columns, op, b, x[2], y[2])
<1> DEFINE z == <<a, b>>
<1>1. z[1] = a /\ z[2] = b /\ 1 \in 1 .. 2 /\ 2 \in 1 .. 2
  OBVIOUS
<1> HIDE DEF z
<1>2. /\ Completed(op, z, x, y)[1] = Combined(Columns, op, z[1], x[1], y[1])
      /\ Completed(op, z, x, y)[2] = Combined(Columns, op, z[2], x[2], y[2])
  BY <1>1 DEF Completed, Combined
<1> QED
  BY <1>1, <1>2 DEF z

\* A server that finishes an exchange has its predecessor's thirds.
LEMMA HoldsFinishes ==
  ASSUME BaseInv, NEW s \in Server, Finishes(s), ReshareFinished(s) \/ ProductFinished(s),
         NEW g, HistoryOK(g)', HoldsBefore(s, g), HoldsSent(s, g)
  PROVE  HoldsBefore(s, g)' /\ HoldsSent(s, g)'
<1> DEFINE n == pc[s]
           in == plan[n]
           e == ExIn(plan, n)
           p == Prev(s)
<1>1. /\ Base /\ RegsOK(s) /\ n \in 1 .. Len(plan) /\ in.op \in Exchanges /\ Mid(s)
      /\ plan' = plan /\ query' = query /\ Columns' = Columns
      /\ pc'[s] = n + 1 /\ p \in Server /\ p # s
      /\ published'[s] = published[s] /\ finished'[s] = finished[s] + 1
      /\ published'[p] = published[p] /\ outbox'[p] = outbox[p] /\ outbox'[s] = outbox[s]
      /\ finished[s] < published[p] /\ Received(s) = outbox[p][finished[s] + 1]
  BY ServerFacts, SameColumns DEF BaseInv, Finishes, Quiet
<1>2. /\ n \in Nat \ {0} /\ Len(plan) \in Nat
      /\ published[s] \in Nat /\ finished[s] \in Nat /\ published[p] \in Nat
      /\ e = finished[s] + 1
  BY <1>1, ExHere
<1>3. published[s] = e /\ e <= published[p] /\ Received(s) = outbox[p][e] /\ ~Mid(s)'
  BY <1>1, <1>2 DEF Mid
<1>4. HoldsSent(s, g)'
  BY <1>3 DEF HoldsSent
<1>5. ASSUME NEW q \in {s, p}, NEW v \in Reg
      PROVE  g[q][n][v] = Third(Columns, in, outbox[q][e], g[q][n - 1], v)
  <2>1. q \in Server /\ e <= published'[q] /\ outbox'[q] = outbox[q]
    BY <1>1, <1>2, <1>3
  <2>2. HistoryOf(q, g)'
    BY <2>1 DEF HistoryOK
  <2> QED
    BY <1>1, <2>1, <2>2 DEF HistoryOf
<1>6. /\ WrittenIn(plan, n + 1) = WrittenIn(plan, n) \cup Outputs(in)
      /\ Computed(query.kind, LeafCount) \cup WrittenIn(plan, n) \subseteq DOMAIN mem[s]
      /\ WrittenIn(plan, n) \cup Outputs(in) \subseteq Reg
      /\ in.op \in {"and", "or"} => in.dst \in DOMAIN mem[s]
  BY <1>1, <1>2, WrittenStep, WrittenReg DEF Base, RegsOK
<1>7. \A v \in WrittenIn(plan, n) : v \notin Outputs(in) =>
        mem[s][v][1] = g[p][n - 1][v] /\ mem[s][v][2] = g[s][n - 1][v]
  BY DEF HoldsBefore
<1>8. /\ in.op = "reshare" => Range(in.regs) \subseteq Computed(query.kind, LeafCount)
      /\ in.op \in {"and", "or"} =>
           /\ in.x \in WrittenIn(plan, n) /\ in.y \in WrittenIn(plan, n)
           /\ in.y # in.dst
  BY <1>1, OperandFacts
<1>9. /\ in.op = "reshare" =>
           \A v \in Range(in.regs) : mem[s][v][2] = outbox[s][e][IndexOf(in.regs, v)]
      /\ in.op \in {"and", "or"} =>
           /\ mem[s][in.dst][2] = outbox[s][e][1]
           /\ operand[s][1] = g[p][n - 1][in.x]
           /\ operand[s][2] = g[s][n - 1][in.x]
  BY <1>1 DEF HoldsSent
<1>10. ReshareFinished(s) =>
         /\ in.op = "reshare"
         /\ \A v \in DOMAIN mem[s] :
              mem'[s][v] = IF v \in Range(in.regs)
                           THEN <<Received(s)[IndexOf(in.regs, v)], mem[s][v][2]>>
                           ELSE mem[s][v]
  BY SMTT(40) DEF ReshareFinished
<1>11. ProductFinished(s) =>
         /\ in.op \in {"and", "or"}
         /\ \A v \in DOMAIN mem[s] :
              mem'[s][v] = IF v = in.dst
                           THEN Completed(in.op, <<Received(s)[1], mem[s][v][2]>>,
                                          operand[s], mem[s][in.y])
                           ELSE mem[s][v]
  BY DEF ProductFinished
<1>12. ReshareFinished(s) \/ ProductFinished(s)
  OBVIOUS
<1> HIDE DEF in, e, p
<1>13. ASSUME NEW v \in WrittenIn(plan, n), v \notin Outputs(in)
       PROVE  mem'[s][v][1] = g[p][n][v] /\ mem'[s][v][2] = g[s][n][v]
  <2>1. v \in DOMAIN mem[s] /\ v \in Reg
    BY <1>6
  <2>2. mem'[s][v] = mem[s][v]
    <3>1. CASE ReshareFinished(s)
      BY <1>10, <1>13, <2>1, <3>1 DEF Outputs
    <3>2. CASE ProductFinished(s)
      BY <1>11, <1>13, <2>1, <3>2 DEF Outputs
    <3> QED
      BY <1>12, <3>1, <3>2
  <2>3. \A q \in {s, p} : g[q][n][v] = g[q][n - 1][v]
    BY <1>5, <1>13, <2>1 DEF Third, Outputs
  <2> QED
    BY <1>7, <1>13, <2>2, <2>3
<1>14. ASSUME NEW v \in Outputs(in), ReshareFinished(s)
       PROVE  mem'[s][v][1] = g[p][n][v] /\ mem'[s][v][2] = g[s][n][v]
  <2>1. in.op = "reshare" /\ v \in Range(in.regs) /\ v \in Reg /\ v \in DOMAIN mem[s]
    BY <1>6, <1>8, <1>10, <1>14 DEF Outputs
  <2>2. mem'[s][v] = <<Received(s)[IndexOf(in.regs, v)], mem[s][v][2]>>
    BY <1>10, <1>14, <2>1
  <2>3. \A q \in {s, p} : g[q][n][v] = outbox[q][e][IndexOf(in.regs, v)]
    BY <1>5, <2>1 DEF Third
  <2> QED
    BY <1>3, <1>9, <2>1, <2>2, <2>3
<1>15. ASSUME NEW v \in Outputs(in), ProductFinished(s)
       PROVE  mem'[s][v][1] = g[p][n][v] /\ mem'[s][v][2] = g[s][n][v]
  <2> DEFINE y == mem[s][in.y]
             Sum(a, x, z) == Combined(Columns, in.op, a, x, z)
  <2>1. in.op \in {"and", "or"} /\ in.op # "reshare" /\ v = in.dst
        /\ v \in Reg /\ v \in DOMAIN mem[s]
    BY <1>6, <1>11, <1>15 DEF Outputs
  <2>2. mem'[s][v] = Completed(in.op, <<Received(s)[1], mem[s][v][2]>>, operand[s], y)
    BY <1>11, <1>15, <2>1
  <2>3. y[1] = g[p][n - 1][in.y] /\ y[2] = g[s][n - 1][in.y]
    BY <1>7, <1>8, <2>1 DEF Outputs
  <2>4. \A q \in {s, p} : g[q][n][v] =
           Sum(outbox[q][e][1], g[q][n - 1][in.x], g[q][n - 1][in.y])
    BY <1>5, <2>1 DEF Third
  <2>5. \A a, b, x, z : /\ Completed(in.op, <<a, b>>, x, z)[1] = Sum(a, x[1], z[1])
                        /\ Completed(in.op, <<a, b>>, x, z)[2] = Sum(b, x[2], z[2])
    BY ZenonT(60), CompletedFact
  <2> HIDE DEF Sum, y
  <2>6. /\ mem'[s][v][1] = Sum(Received(s)[1], operand[s][1], y[1])
        /\ mem'[s][v][2] = Sum(mem[s][v][2], operand[s][2], y[2])
    BY <2>2, <2>5
  <2>7. Received(s)[1] = outbox[p][e][1] /\ mem[s][v][2] = outbox[s][e][1]
        /\ operand[s][1] = g[p][n - 1][in.x] /\ operand[s][2] = g[s][n - 1][in.x]
    BY <1>3, <1>9, <2>1
  <2> QED
    BY <2>3, <2>4, <2>6, <2>7
<1>16. \A v \in WrittenIn(plan, n + 1) :
         mem'[s][v][1] = g[p][n][v] /\ mem'[s][v][2] = g[s][n][v]
  BY <1>6, <1>12, <1>13, <1>14, <1>15
<1>17. HoldsBefore(s, g)'
  <2>1. (n + 1) - 1 = n
    BY <1>2
  <2> QED
    BY <1>1, <1>16, <2>1 DEF HoldsBefore, p
<1> QED
  BY <1>4, <1>17

\* The thirds of all servers after a step of one.
LEMMA ThirdMoves ==
  ASSUME BaseInv, ThirdInv, NEW s \in Server, Moves(s)
  PROVE  ThirdInv'
<1>1. PICK h : HistoryOK(h) /\ \A t \in Server : HoldsBefore(t, h) /\ HoldsSent(t, h)
  BY DEF ThirdInv
<1>2. query' = query /\ plan' = plan /\ Base
  BY BaseMoves DEF BaseInv
<1>3. \E g : HistoryOK(g)' /\ Agree(h, g)
  <2>1. CASE \E msg : Sends(s, msg)
    BY <1>1, <2>1, HistoryGrows
  <2>2. CASE ~\E msg : Sends(s, msg)
    <3>1. \A q \in Server : published'[q] = published[q] /\ outbox'[q] = outbox[q]
      BY <2>2 DEF Moves, Passes, Finishes, Quiet
    <3> QED
      BY <1>1, <1>2, <3>1, HistoryKept
  <2> QED
    BY <2>1, <2>2
<1>4. PICK g : HistoryOK(g)' /\ Agree(h, g)
  BY <1>3
<1>5. \A t \in Server : HoldsBefore(t, g) /\ HoldsSent(t, g)
  BY <1>1, <1>2, <1>4, HoldsAgree
<1>6. ASSUME NEW t \in Server \ {s}
      PROVE  HoldsBefore(t, g)' /\ HoldsSent(t, g)'
  BY <1>2, <1>5, OthersBase, HoldsKept
<1>7. HoldsBefore(s, g)' /\ HoldsSent(s, g)'
  BY <1>4, <1>5, HoldsPasses, HoldsSends, HoldsFinishes DEF Moves
<1> QED
  BY <1>4, <1>6, <1>7 DEF ThirdInv

\* ... and after any other step.
LEMMA ThirdRests ==
  ASSUME ThirdInv, Rests
  PROVE  ThirdInv'
<1>1. PICK h : HistoryOK(h) /\ \A t \in Server : HoldsBefore(t, h) /\ HoldsSent(t, h)
  BY DEF ThirdInv
<1>2. HistoryOK(h)'
  BY <1>1, HistoryKept DEF Rests
<1>3. ASSUME NEW t \in Server
      PROVE  HoldsBefore(t, h)' /\ HoldsSent(t, h)'
  BY <1>1, HoldsKept DEF Rests
<1> QED
  BY <1>2, <1>3 DEF ThirdInv

\* Between exchanges, neighbours at the same place hold the same third.
LEMMA ReplicatedFromInv ==
  ASSUME BaseInv, ThirdInv
  PROVE  Replicated
<1> SUFFICES ASSUME NEW s \in Server, pc[s] = pc[Prev(s)], AtRest(s), AtRest(Prev(s)),
                    NEW v \in Written(s)
             PROVE  mem[s][v][1] = mem[Prev(s)][v][2]
  BY DEF Replicated
<1>1. PICK h : \A t \in Server : HoldsBefore(t, h)
  BY DEF ThirdInv
<1>2. /\ Prev(s) \in Server /\ finished[s] \in Nat /\ finished[Prev(s)] \in Nat
  BY ServerFacts DEF BaseInv, Base, DomainsOK
<1>3. ~Mid(s) /\ ~Mid(Prev(s))
  BY <1>2 DEF Mid, AtRest
<1>4. v \in WrittenIn(plan, pc[s])
  BY DEF Written, WrittenIn, Outputs
<1>5. mem[s][v][1] = h[Prev(s)][pc[s] - 1][v]
  BY <1>1, <1>3, <1>4 DEF HoldsBefore
<1>6. mem[Prev(s)][v][2] = h[Prev(s)][pc[s] - 1][v]
  BY <1>1, <1>2, <1>3, <1>4 DEF HoldsBefore
<1> QED
  BY <1>5, <1>6

\* Whatever the requests and the servers' paces: after any number of exchanges,
\* neighbours that are as far as each other hold the same third of every vector
\* (RSSReshareInnerLoop, Multiply and OrFilters).
THEOREM AlwaysReplicated == Spec => []Replicated
<1>1. Init => BaseInv /\ ThirdInv
  BY BaseInvInit, ThirdInit
<1>2. BaseInv /\ ThirdInv /\ [Next]_vars => (BaseInv /\ ThirdInv)'
  BY StepKinds, BaseMoves, BaseRests, ThirdMoves, ThirdRests
<1>3. BaseInv /\ ThirdInv => Replicated
  BY ReplicatedFromInv
<1> QED
  BY <1>1, <1>2, <1>3, PTL DEF Spec

-----------------------------------------------------------------------------
(* Numbers that are the same in the group.                                 *)

Same(a, b) == \E k \in Int : a = b + Group * k

\* They form an equivalence that sums and products respect.
LEMMA SameRefl ==
  ASSUME NEW a \in Int
  PROVE  Same(a, a)
<1>1. a = a + Group * 0
  BY GroupAssumption
<1> QED
  BY <1>1 DEF Same

\* Either of two that are the same can come first.
LEMMA SameSym ==
  ASSUME NEW a \in Int, NEW b \in Int, Same(a, b)
  PROVE  Same(b, a)
<1>1. PICK k \in Int : a = b + Group * k
  BY DEF Same
<1>2. b = a + Group * (-k)
  BY <1>1, GroupAssumption
<1> QED
  BY <1>2 DEF Same

\* Two that are the same as a third are the same.
LEMMA SameTrans ==
  ASSUME NEW a \in Int, NEW b \in Int, NEW c \in Int, Same(a, b), Same(b, c)
  PROVE  Same(a, c)
<1>1. PICK k \in Int : a = b + Group * k
  BY DEF Same
<1>2. PICK m \in Int : b = c + Group * m
  BY DEF Same
<1>3. a = c + Group * (k + m)
  BY <1>1, <1>2, GroupAssumption
<1> QED
  BY <1>3 DEF Same

\* Sums of such numbers are the same.
LEMMA SameAdd ==
  ASSUME NEW a \in Int, NEW b \in Int, NEW c \in Int, NEW d \in Int, Same(a, b), Same(c, d)
  PROVE  Same(a + c, b + d)
<1>1. PICK k \in Int : a = b + Group * k
  BY DEF Same
<1>2. PICK m \in Int : c = d + Group * m
  BY DEF Same
<1>3. a + c = (b + d) + Group * (k + m)
  BY <1>1, <1>2, GroupAssumption
<1> QED
  BY <1>3 DEF Same

\* So are their multiples.
LEMMA SameMultiple ==
  ASSUME NEW a \in Int, NEW b \in Int, NEW c \in Int, Same(a, b)
  PROVE  Same(a * c, b * c)
<1>1. PICK k \in Int : a = b + Group * k
  BY DEF Same
<1>2. (b + Group * k) * c = b * c + Group * (k * c)
  <2>1. Group \in Int
    BY GroupAssumption
  <2> QED
    BY <2>1
<1>3. a * c = b * c + Group * (k * c) /\ k * c \in Int
  BY <1>1, <1>2
<1> QED
  BY <1>3 DEF Same

\* And their products.
LEMMA SameProduct ==
  ASSUME NEW a \in Int, NEW b \in Int, NEW c \in Int, NEW d \in Int, Same(a, b), Same(c, d)
  PROVE  Same(a * c, b * d)
<1>1. Same(a * c, b * c)
  BY SameMultiple
<1>2. Same(c * b, d * b)
  BY SameMultiple
<1>3. c * b = b * c /\ d * b = b * d /\ a * c \in Int /\ b * c \in Int /\ b * d \in Int
  OBVIOUS
<1> QED
  BY <1>1, <1>2, <1>3, SameTrans

\* Words are reduced modulo a multiple of the group's order.
LEMMA SameWord ==
  ASSUME NEW a \in Int
  PROVE  a % Word \in Words /\ a % Word \in Int /\ Same(a % Word, a)
<1>1. Word \in Nat \ {0} /\ Group \in Nat \ {0} /\ Word % Group = 0
  BY GroupAssumption
<1> DEFINE q == a \div Word
           r == a % Word
           m == Word \div Group
           z == Word % Group
<1>2. q \in Int /\ r \in Int /\ 0 <= r /\ r < Word /\ a = Word * q + r
  BY <1>1, DivMod
<1>3. m \in Int /\ Word = Group * m + z
  BY <1>1, DivMod
<1>4. z = 0
  BY <1>1
<1> HIDE DEF q, r, m, z
<1>5. Word = Group * m
  BY <1>1, <1>3, <1>4
<1>6. r = a + Group * (m * (-q))
  <2> DEFINE t == m * q
  <2>1. t \in Int /\ m * (-q) = -t
    BY <1>2, <1>3
  <2>2. Word * q = Group * t
    <3>1. Group \in Int
      BY <1>1
    <3>2. (Group * m) * q = Group * (m * q)
      BY <1>2, <1>3, <3>1
    <3> QED
      BY <1>5, <3>2
  <2> HIDE DEF t
  <2>3. r = a + Group * (-t)
    BY <1>1, <1>2, <2>1, <2>2
  <2> QED
    BY <2>1, <2>3
<1>7. m * (-q) \in Int
  BY <1>2, <1>3
<1>8. Same(r, a)
  BY <1>6, <1>7 DEF Same
<1>9. r \in 0 .. Word - 1
  BY <1>1, <1>2
<1> QED
  BY <1>2, <1>8, <1>9 DEF r, Words

\* Halves of keys are reduced modulo the group's order itself.
LEMMA SameGroup ==
  ASSUME NEW a \in Int
  PROVE  a % Group \in 0 .. Group - 1 /\ a % Group \in Int /\ Same(a % Group, a)
<1>1. Group \in Nat \ {0}
  BY GroupAssumption
<1> DEFINE q == a \div Group
           r == a % Group
<1>2. q \in Int /\ r \in Int /\ 0 <= r /\ r < Group /\ a = Group * q + r
  BY <1>1, DivMod
<1> HIDE DEF q, r
<1>3. r = a + Group * (-q) /\ -q \in Int
  BY <1>1, <1>2
<1>4. Same(r, a)
  BY <1>3 DEF Same
<1> QED
  BY <1>1, <1>2, <1>4 DEF r

\* There is one of them between 0 and the group's order.
LEMMA SameExact ==
  ASSUME NEW a \in Int, NEW b \in 0 .. Group - 1, Same(a, b)
  PROVE  a % Group = b
<1>1. Group \in Nat \ {0} /\ b \in Int
  BY GroupAssumption
<1>2. PICK k \in Int : a = b + Group * k
  BY DEF Same
<1>3. a - b = Group * k
  BY <1>1, <1>2
<1>4. a % Group = b % Group
  BY <1>1, <1>3, ModUnique
<1>5. b % Group = b
  BY <1>1
<1> QED
  BY <1>4, <1>5

\* Three of them, and words that cancel out.
LEMMA SameThree ==
  ASSUME NEW a \in Int, NEW b \in Int, NEW c \in Int, NEW d \in Int, NEW e \in Int, NEW f \in Int,
         Same(a, d), Same(b, e), Same(c, f)
  PROVE  Same(a + b + c, d + e + f)
<1>1. Same(a + b, d + e) /\ a + b \in Int /\ d + e \in Int
  BY SameAdd
<1> QED
  BY <1>1, SameAdd

\* What is no word is nothing in the group.
LEMMA SameZero ==
  ASSUME NEW a \in Int, a % Word = 0
  PROVE  Same(a, 0)
<1>1. Same(a % Word, a) /\ a % Word \in Int
  BY SameWord
<1> QED
  BY <1>1, SameSym

-----------------------------------------------------------------------------
(* What the servers send, and what they answer.                            *)

\* What server s holds of vector v when it comes to instruction i.
Held(s, h, i, v) ==
  IF v \in WrittenIn(plan, i) THEN <<h[Prev(s)][i - 1][v], h[s][i - 1][v]>> ELSE Inputs(s)[v]

\* The value in its third of v after a resharing.
Reshared(s, c, h, i, v) ==
  LET regs == plan[i].regs
      mask == MaskAt(s, c[i - 1] + ((IndexOf(regs, v) - 1) * Len(regs) + VectorLen))
  IN  (Held(s, h, i, v)[1][1] + Held(s, h, i, v)[2][1] + mask) % Word

\* The value in its third of the destination after a combination, masked by Fill f.
Multiplied(s, c, h, i, f) ==
  LET in   == plan[i]
      x(q) == h[q][i - 1][in.x][1]
      y(q) == h[q][i - 1][in.y][1]
      mask == MaskAt(s, c[f - 1] + (in.row * VectorLen + query.row))
      product == (LocalProduct(<<x(Prev(s)), x(s)>>, <<y(Prev(s)), y(s)>>) + mask) % Word
  IN  (product + OrTerm(in.op, x(s), y(s))) % Word

\* These are the thirds that an exchange leaves.
SentAt(s, c, h, i) ==
  /\ plan[i].op = "reshare" =>
       \A v \in Range(plan[i].regs) : h[s][i][v][1] = Reshared(s, c, h, i, v)
  /\ plan[i].op \in {"and", "or"} =>
       \A f \in 1 .. Len(plan) : LastFill(plan, f, i) =>
         h[s][i][plan[i].dst][1] = Multiplied(s, c, h, i, f)

SentOK(s, c, h) ==
  \A i \in 1 .. Len(plan) :
    plan[i].op \in Exchanges /\ ExIn(plan, i) <= published[s] => SentAt(s, c, h, i)

\* A server has its inputs until it writes them.
FreshOK(s) ==
  pc[s] # 0 =>
    \A v \in Computed(query.kind, LeafCount) :
      \/ v \in WrittenIn(plan, pc[s])
      \/ Mid(s) /\ v \in Outputs(plan[pc[s]])
      \/ mem[s][v] = Inputs(s)[v]

\* The value in a server's answer.
AnswerFrom(s, h) ==
  LET f(q) == h[q][Len(plan)][FilterReg(query.kind)][1]
  IN  LocalProduct(<<ValueShare(s, 0), ValueShare(s, 1)>>, <<f(Prev(s)), f(s)>>) % Word

AnswerOK(s, h) ==
  answer[s] # NoResult =>
    answer[s].agg[1] = AnswerFrom(s, h) /\ pc[s] = Len(plan) + 1

ServerExact(s, c, h) ==
  /\ MaskOK(s, c) /\ HoldsBefore(s, h) /\ HoldsSent(s, h)
  /\ FreshOK(s) /\ SentOK(s, c, h) /\ AnswerOK(s, h)

ExactInv == \E c, h : Counting(c) /\ HistoryOK(h) /\ \A s \in Server : ServerExact(s, c, h)

\* What a server sends in its exchange: the values.
Contents(s) ==
  LET in == plan[pc[s]]  msg == outbox'[s][published[s] + 1] IN
  /\ in.op = "reshare" =>
       \A v \in Range(in.regs) :
         msg[IndexOf(in.regs, v)][1] =
           (mem[s][v][1][1] + mem[s][v][2][1]
              + ZeroShare(s, (IndexOf(in.regs, v) - 1) * Len(in.regs) + VectorLen)) % Word
  /\ in.op \in {"and", "or"} =>
       msg[1][1] = (LocalProduct(Column(mem[s][in.x], 1), Column(mem[s][in.y], 1))
                      + zero[s][in.row]) % Word

\* Values are in the first column.
LEMMA FirstColumn == 1 \in Columns
BY DEF Columns

\* What an exchange appends is its message.
LEMMA LastSent ==
  ASSUME Base, NEW s \in Server, NEW msg, outbox' = [outbox EXCEPT ![s] = Append(@, msg)]
  PROVE  outbox'[s][published[s] + 1] = msg
<1>1. DOMAIN outbox = Server /\ AnySeq(outbox[s]) /\ Len(outbox[s]) = published[s]
  BY DEF Base, DomainsOK, PaceOK
<1>2. outbox'[s] = Append(outbox[s], msg)
  BY <1>1
<1> QED
  BY <1>1, <1>2, AppendAny

\* What a vector holds after a resharing is sent.
LEMMA ReshareContents ==
  ASSUME Base, NEW s \in Server, SendReshare(s)
  PROVE  Contents(s)
<1> DEFINE regs == Instr(s).regs
           own(i) == [k \in Columns |->
                        (mem[s][regs[i]][1][k] + mem[s][regs[i]][2][k]
                           + ZeroShare(s, (i - 1) * Len(regs) + VectorLen)) % Word]
           msg == [i \in DOMAIN regs |-> own(i)]
<1>1. /\ DomainsOK /\ PlanOK /\ pc[s] \in Nat
      /\ Running(s) /\ Instr(s).op = "reshare"
  BY ZenonT(60) DEF Base, DomainsOK, SendReshare
<1>2. Instr(s) = plan[pc[s]]
  BY ZenonT(60), <1>1, InstrFacts
<1>3. outbox' = [outbox EXCEPT ![s] = Append(@, msg)]
  BY ZenonT(60) DEF SendReshare
<1> HIDE DEF msg
<1>4. outbox'[s][published[s] + 1] = msg
  BY <1>3, LastSent
<1>5. ASSUME NEW v \in Range(regs)
      PROVE  msg[IndexOf(regs, v)][1] =
               (mem[s][v][1][1] + mem[s][v][2][1]
                  + ZeroShare(s, (IndexOf(regs, v) - 1) * Len(regs) + VectorLen)) % Word
  <2> DEFINE i == IndexOf(regs, v)
  <2>1. i \in DOMAIN regs /\ regs[i] = v
    BY ZenonT(60), IndexFact
  <2> HIDE DEF i
  <2>2. msg[i][1] = own(i)[1]
    BY ZenonT(60), <2>1 DEF msg
  <2>3. own(i)[1] = (mem[s][regs[i]][1][1] + mem[s][regs[i]][2][1]
                      + ZeroShare(s, (i - 1) * Len(regs) + VectorLen)) % Word
    BY ZenonT(60), FirstColumn
  <2> QED
    BY <2>1, <2>2, <2>3 DEF i
<1> QED
  BY ZenonT(60), <1>1, <1>2, <1>4, <1>5 DEF Contents

\* What a vector holds after a product is sent.
LEMMA ProductContents ==
  ASSUME Base, NEW s \in Server, SendProduct(s)
  PROVE  Contents(s)
<1> DEFINE in == Instr(s)
           own == [k \in Columns |->
                     (LocalProduct(Column(mem[s][in.x], k), Column(mem[s][in.y], 1))
                        + IF k = 1 THEN zero[s][in.row] ELSE 0) % Word]
           msg == <<own>>
<1>1. /\ DomainsOK /\ PlanOK /\ pc[s] \in Nat
      /\ Running(s) /\ Instr(s).op \in {"and", "or"}
  BY DEF Base, DomainsOK, SendProduct
<1>2. Instr(s) = plan[pc[s]]
  BY <1>1, InstrFacts
<1>3. outbox' = [outbox EXCEPT ![s] = Append(@, msg)]
  BY DEF SendProduct
<1> HIDE DEF msg
<1>4. outbox'[s][published[s] + 1] = msg
  BY <1>3, LastSent
<1>5. msg[1][1] = (LocalProduct(Column(mem[s][in.x], 1), Column(mem[s][in.y], 1))
                     + zero[s][in.row]) % Word
  <2>1. msg[1][1] = own[1]
    BY DEF msg
  <2> QED
    BY <2>1, FirstColumn
<1> QED
  BY <1>1, <1>2, <1>4, <1>5 DEF Contents

\* A step that changes what the servers hold is no answer.
MovesOn(s) ==
  /\ Moves(s) /\ UNCHANGED <<answer, result>>
  /\ published'[s] # published[s] => Contents(s)

Answers == Rests /\ \E s \in Server : Respond(s)

\* Every step is of one of these kinds.
LEMMA Kinds ==
  ASSUME BaseInv, [Next]_vars
  PROVE  \/ UNCHANGED vars
         \/ \E s \in Server : MovesOn(s)
         \/ Answers
         \/ Gather
<1>0. Base
  BY DEF BaseInv
<1>1. CASE UNCHANGED vars \/ Gather
  BY <1>1
<1>2. CASE Returned
  BY <1>2 DEF Returned
<1>3. ASSUME NEW s \in Server, Step(s)
      PROVE  Answers \/ MovesOn(s)
  <2>1. CASE Evaluate(s)
    <3>1. Passes(s) /\ Moves(s) /\ UNCHANGED <<answer, result>>
      BY <1>0, <2>1, EvaluateDoes DEF Moves, Evaluate
    <3> QED
      BY <3>1 DEF MovesOn, Passes
  <2>2. CASE FillZeros(s)
    <3>1. Passes(s) /\ Moves(s) /\ UNCHANGED <<answer, result>>
      BY <1>0, <2>2, FillZerosDoes DEF Moves, FillZeros
    <3> QED
      BY <3>1 DEF MovesOn, Passes
  <2>3. CASE SendReshare(s)
    <3>1. Moves(s) /\ UNCHANGED <<answer, result>>
      BY ZenonT(60), <1>0, <2>3, SendReshareDoes DEF Moves, SendReshare
    <3> QED
      BY <1>0, <2>3, <3>1, ReshareContents DEF MovesOn
  <2>4. CASE FinishReshare(s)
    <3>1. Finishes(s) /\ Moves(s) /\ UNCHANGED <<answer, result>>
      BY ZenonT(60), <1>0, <2>4, FinishReshareDoes DEF Moves, FinishReshare
    <3> QED
      BY ZenonT(60), <3>1 DEF MovesOn, Finishes
  <2>5. CASE SendProduct(s)
    <3>1. Moves(s) /\ UNCHANGED <<answer, result>>
      BY <1>0, <2>5, SendProductDoes DEF Moves, SendProduct
    <3> QED
      BY <1>0, <2>5, <3>1, ProductContents DEF MovesOn
  <2>6. CASE FinishProduct(s)
    <3>1. /\ Running(s) /\ Instr(s).op \in {"and", "or"} /\ Ring!Finish(s)
          /\ PaceOK(s) /\ PlanOK /\ RegsOK(s)
          /\ pc[s] \in Nat /\ finished[s] \in Nat /\ published[s] \in Nat
      BY <1>0, <2>6 DEF FinishProduct, Base, BaseInv, DomainsOK
    <3>2. finished[s] < published[s]
      BY <3>1 DEF Ring!Finish
    <3>3. Mid(s) /\ Instr(s) = plan[pc[s]]
      BY <3>1, <3>2, InstrFacts DEF PaceOK, AtRest
    <3>4. plan[pc[s]].dst \in DOMAIN mem[s]
      BY <3>1, <3>3 DEF RegsOK
    <3>5. Finishes(s) /\ Moves(s) /\ UNCHANGED <<answer, result>>
      BY <1>0, <2>6, <3>4, FinishProductDoes DEF Moves, FinishProduct
    <3> QED
      BY <3>5 DEF MovesOn, Finishes
  <2>7. CASE Respond(s)
    BY <2>7 DEF Respond, Answers, Rests, masks, ring
  <2> QED
    BY <1>3, <2>1, <2>2, <2>3, <2>4, <2>5, <2>6, <2>7 DEF Step
<1> QED
  BY <1>1, <1>2, <1>3 DEF Next

\* Dealt shares, and what is made of them, depend on the request only.
LEMMA SameInputs ==
  ASSUME query' = query, plan' = plan
  PROVE  /\ \A s : Inputs(s)' = Inputs(s)
         /\ \A s : \A slot : ValueShare(s, slot)' = ValueShare(s, slot)
         /\ Computed(query.kind, LeafCount)' = Computed(query.kind, LeafCount)
<1>1. Columns' = Columns /\ LeafCount' = LeafCount /\ Leaves' = Leaves
  BY SameColumns DEF LeafCount, Leaves
<1>2. ASSUME NEW s PROVE Inputs(s)' = Inputs(s)
  <2>1. ASSUME NEW part, NEW c, NEW bit, NEW slot, NEW k
        PROVE  Dot(s, part, c, bit, slot, k)' = Dot(s, part, c, bit, slot, k)
    BY DEF Dot, Half, PairAt, TableShare, Split, QueryEntry, UsesKeys, PairSeed, RandomSlot
  <2>2. ASSUME NEW part, NEW c, NEW bit
        PROVE  DotPair(s, part, c, bit)' = DotPair(s, part, c, bit)
    BY <1>1, <2>1 DEF DotPair
  <2>3. ASSUME NEW p PROVE SumOfLeaves(s, p)' = SumOfLeaves(s, p)
    BY SMTT(60) DEF SumOfLeaves, MapThenSumSet, MapThenFoldSet, DotPair, Key, Columns, Malicious,
         Dot, Half, PairAt, TableShare, Split, QueryEntry, UsesKeys, PairSeed, RandomSlot
  <2> QED
    BY <1>1, <2>2, <2>3 DEF Inputs
<1>3. ASSUME NEW s, NEW slot PROVE ValueShare(s, slot)' = ValueShare(s, slot)
  BY DEF ValueShare, Split
<1>4. Computed(query.kind, LeafCount)' = Computed(query.kind, LeafCount)
  BY <1>1
<1> QED
  BY <1>2, <1>3, <1>4

\* These numbers depend on the request only, too.
LEMMA SameNumbers ==
  ASSUME query' = query, plan' = plan, NEW s, NEW c, NEW h
  PROVE  /\ \A i : SentAt(s, c, h, i)' = SentAt(s, c, h, i)
         /\ AnswerFrom(s, h)' = AnswerFrom(s, h)
<1>1. /\ \A t : Inputs(t)' = Inputs(t)
      /\ \A t : \A slot : ValueShare(t, slot)' = ValueShare(t, slot)
      /\ VectorLen' = VectorLen
      /\ \A t, n : MaskAt(t, n)' = MaskAt(t, n)
  BY SameInputs, SameQuery
<1>2. ASSUME NEW i, NEW v PROVE Held(s, h, i, v)' = Held(s, h, i, v)
  BY <1>1 DEF Held
<1>3. ASSUME NEW i, NEW v PROVE Reshared(s, c, h, i, v)' = Reshared(s, c, h, i, v)
  <2>1. MaskAt(s, c[i - 1] + ((IndexOf(plan[i].regs, v) - 1) * Len(plan[i].regs) + VectorLen))'
        = MaskAt(s, c[i - 1] + ((IndexOf(plan[i].regs, v) - 1) * Len(plan[i].regs) + VectorLen))
    BY SMTT(40), <1>1 DEF MaskAt
  <2> QED
    BY <1>2, <2>1 DEF Reshared
<1>4. ASSUME NEW i, NEW f PROVE Multiplied(s, c, h, i, f)' = Multiplied(s, c, h, i, f)
  <2>1. MaskAt(s, c[f - 1] + (plan[i].row * VectorLen + query.row))'
        = MaskAt(s, c[f - 1] + (plan[i].row * VectorLen + query.row))
    BY <1>1 DEF MaskAt
  <2> QED
    BY <2>1 DEF Multiplied
<1>5. ASSUME NEW i PROVE SentAt(s, c, h, i)' = SentAt(s, c, h, i)
  BY <1>3, <1>4 DEF SentAt
<1>6. AnswerFrom(s, h)' = AnswerFrom(s, h)
  BY <1>1 DEF AnswerFrom
<1> QED
  BY <1>5, <1>6

\* What the exchanges before the one of a server left is known.
LEMMA EarlierKnown ==
  ASSUME Base, NEW s \in Server, NEW i \in 1 .. Len(plan), plan[i].op \in Exchanges,
         ExIn(plan, i) <= published[s]
  PROVE  /\ i \in Nat \ {0} /\ i - 1 \in 0 .. Len(plan) /\ i \in 0 .. Len(plan)
         /\ ExIn(plan, i - 1) <= published[s]
         /\ Prev(s) \in Server /\ ExIn(plan, i - 1) <= published[Prev(s)]
         /\ ExIn(plan, i) = ExIn(plan, i - 1) + 1 /\ ExIn(plan, i - 1) \in Nat
<1>1. /\ Prev(s) \in Server /\ finished[s] \in Nat /\ published[s] \in Nat
      /\ published[Prev(s)] \in Nat /\ Len(plan) \in Nat
      /\ finished[s] <= published[Prev(s)]
      /\ published[s] <= finished[s] + 1
  <2>1. PaceOK(s) /\ DomainsOK /\ PlanOK /\ Prev(s) \in Server
    BY ServerFacts DEF Base
  <2> QED
    BY <2>1, PlanFacts DEF PaceOK, DomainsOK, AtRest, Mid
<1>2. i \in Nat \ {0} /\ i - 1 \in 0 .. Len(plan) /\ i \in 0 .. Len(plan)
  BY <1>1
<1>3. ExIn(plan, i) = ExIn(plan, i - 1) + 1 /\ ExIn(plan, i - 1) \in Nat
  BY <1>2, ExStep
<1> QED
  BY <1>1, <1>2, <1>3

\* The vectors of an instruction.
LEMMA InstrRegs ==
  ASSUME PlanOK, NEW i \in 1 .. Len(plan)
  PROVE  /\ plan[i].op = "reshare" => Range(plan[i].regs) \subseteq Reg
         /\ plan[i].op \in {"and", "or"} =>
              plan[i].x \in Reg /\ plan[i].y \in Reg /\ plan[i].dst \in Reg /\ plan[i].row \in Nat
         /\ plan[i].op \in {"reshare", "fill", "and", "or"}
<1>1. plan[i] \in InstrSet
  BY PlanFacts, ElementOfSeq
<1>2. plan[i].op = "reshare" => plan[i].regs \in Seq(Reg)
  BY <1>1, InstrKinds
<1>3. plan[i].op = "reshare" => Range(plan[i].regs) \subseteq Reg
  BY <1>2, RangeOfSeq
<1> QED
  BY <1>1, <1>3, InstrKinds

\* A history that agrees serves as well.
LEMMA SentAgree ==
  ASSUME Base, NEW s \in Server, NEW c, NEW h, NEW g, Agree(h, g),
         NEW i \in 1 .. Len(plan), plan[i].op \in Exchanges, ExIn(plan, i) <= published[s],
         SentAt(s, c, h, i)
  PROVE  SentAt(s, c, g, i)
<1>1. PlanOK
  BY DEF Base
<1>2. \A v \in Reg : /\ g[s][i][v] = h[s][i][v] /\ g[s][i - 1][v] = h[s][i - 1][v]
                     /\ g[Prev(s)][i - 1][v] = h[Prev(s)][i - 1][v]
  BY SMTT(40), EarlierKnown DEF Agree
<1>3. ASSUME plan[i].op = "reshare", NEW v \in Range(plan[i].regs)
      PROVE  g[s][i][v][1] = Reshared(s, c, g, i, v)
  <2>1. v \in Reg
    BY <1>1, <1>3, InstrRegs
  <2>2. Held(s, g, i, v) = Held(s, h, i, v)
    BY <1>2, <2>1 DEF Held
  <2>3. Reshared(s, c, g, i, v) = Reshared(s, c, h, i, v)
    BY <2>2 DEF Reshared
  <2> QED
    BY <1>2, <1>3, <2>1, <2>3 DEF SentAt
<1>4. ASSUME plan[i].op \in {"and", "or"}, NEW f \in 1 .. Len(plan), LastFill(plan, f, i)
      PROVE  g[s][i][plan[i].dst][1] = Multiplied(s, c, g, i, f)
  <2>1. plan[i].x \in Reg /\ plan[i].y \in Reg /\ plan[i].dst \in Reg
    BY ZenonT(60), <1>1, <1>4, InstrRegs
  <2>2. Multiplied(s, c, g, i, f) = Multiplied(s, c, h, i, f)
    BY ZenonT(60), <1>2, <2>1 DEF Multiplied
  <2> QED
    BY <1>2, <1>4, <2>1, <2>2 DEF SentAt
<1> QED
  BY <1>3, <1>4 DEF SentAt

\* An answer is made of what is known.
LEMMA AnswerAgree ==
  ASSUME Base, NEW s \in Server, NEW h, NEW g, Agree(h, g), AnswerOK(s, h)
  PROVE  AnswerOK(s, g)
<1> SUFFICES ASSUME answer[s] # NoResult
             PROVE  AnswerFrom(s, g) = AnswerFrom(s, h)
  BY DEF AnswerOK
<1> DEFINE N == Len(plan)
           F == FilterReg(query.kind)
<1>1. pc[s] = N + 1
  BY DEF AnswerOK
<1>2. /\ PlanOK /\ N \in Nat /\ Prev(s) \in Server /\ ExIn(plan, N) <= published[s]
      /\ ExIn(plan, N) <= published[Prev(s)]
  <2>1. PaceOK(s) /\ DomainsOK /\ PlanOK /\ Prev(s) \in Server
    BY ServerFacts DEF Base
  <2>2. N \in Nat /\ N + 1 - 1 = N
    BY <2>1, PlanFacts
  <2>3. finished[s] = ExIn(plan, N) /\ finished[s] \in Nat /\ published[s] \in Nat
        /\ finished[s] <= published[s]
    BY <1>1, <2>1, <2>2 DEF PaceOK, DomainsOK, AtRest, Mid
  <2> QED
    BY <2>1, <2>2, <2>3 DEF PaceOK
<1>3. F \in Reg
  BY DEF FilterReg, Leaf, Pred, Reg
<1>4. N \in 0 .. N
  BY <1>2
<1>5. g[s][N][F] = h[s][N][F] /\ g[Prev(s)][N][F] = h[Prev(s)][N][F]
  BY <1>2, <1>3, <1>4 DEF Agree
<1> QED
  BY <1>5 DEF AnswerFrom

\* What a server holds of a vector before its instruction.
LEMMA HeldNow ==
  ASSUME BaseInv, NEW s \in Server, NEW h, pc[s] \in 1 .. Len(plan), AtRest(s),
         HoldsBefore(s, h), FreshOK(s),
         NEW v, v \in WrittenIn(plan, pc[s]) \/ v \in Computed(query.kind, LeafCount)
  PROVE  /\ mem[s][v][1][1] = Held(s, h, pc[s], v)[1][1]
         /\ mem[s][v][2][1] = Held(s, h, pc[s], v)[2][1]
<1>1. ~Mid(s) /\ pc[s] # 0
  <2>1. published[s] = finished[s] /\ finished[s] \in Nat /\ pc[s] # 0
    BY DEF BaseInv, Base, DomainsOK, AtRest
  <2> QED
    BY <2>1 DEF Mid
<1>2. CASE v \in WrittenIn(plan, pc[s])
  BY <1>1, <1>2 DEF HoldsBefore, Held
<1>3. CASE v \notin WrittenIn(plan, pc[s])
  <2>1. mem[s][v] = Inputs(s)[v]
    BY <1>1, <1>3 DEF FreshOK
  <2> QED
    BY <1>3, <2>1 DEF Held
<1> QED
  BY <1>2, <1>3

\* What a server sends is what the invariant says.
LEMMA SentNew ==
  ASSUME FourChunks, BaseInv, NEW s \in Server, NEW msg, Sends(s, msg), Contents(s), NEW c, NEW h,
         Counting(c), MaskOK(s, c), HoldsBefore(s, h), FreshOK(s), HistoryOf(s, h)'
  PROVE  SentAt(s, c, h, pc[s])
<1> DEFINE n == pc[s]
           in == plan[n]
           out == outbox'[s][published[s] + 1]
<1>1. /\ Base /\ PlanOK /\ n \in 1 .. Len(plan) /\ in.op \in Exchanges /\ AtRest(s)
      /\ query' = query /\ plan' = plan /\ Columns' = Columns
      /\ published'[s] = published[s] + 1 /\ published[s] = finished[s]
  BY SameColumns DEF BaseInv, Base, Sends, Quiet, AtRest
<1>2. /\ n \in Nat \ {0} /\ Len(plan) \in Nat /\ published[s] \in Nat
      /\ ExIn(plan, n) = published[s] + 1 /\ Prev(s) \in Server
  BY <1>1, ExHere, ServerFacts
<1>3. \A v \in Reg : h[s][n][v] = Third(Columns, in, out, h[s][n - 1], v)
  <2>1. ExIn(plan, n) <= published'[s]
    BY <1>1, <1>2
  <2> QED
    BY <1>1, <1>2, <2>1 DEF HistoryOf
<1>4. counter[s] = c[n - 1]
  BY <1>1, <1>2 DEF MaskOK
<1>5. \A v : v \in WrittenIn(plan, n) \/ v \in Computed(query.kind, LeafCount) =>
        /\ mem[s][v][1][1] = Held(s, h, n, v)[1][1]
        /\ mem[s][v][2][1] = Held(s, h, n, v)[2][1]
  BY <1>1, HeldNow
<1>6. /\ in.op = "reshare" => Range(in.regs) \subseteq Computed(query.kind, LeafCount)
      /\ in.op \in {"and", "or"} => in.x \in WrittenIn(plan, n) /\ in.y \in WrittenIn(plan, n)
  BY <1>1, OperandFacts
<1>7. ASSUME in.op = "reshare", NEW v \in Range(in.regs)
      PROVE  h[s][n][v][1] = Reshared(s, c, h, n, v)
  <2> DEFINE j == (IndexOf(in.regs, v) - 1) * Len(in.regs) + VectorLen
  <2>1. v \in Reg
    BY <1>1, <1>7, InstrRegs
  <2>2. h[s][n][v] = out[IndexOf(in.regs, v)]
    BY <1>3, <1>7, <2>1 DEF Third
  <2>3. out[IndexOf(in.regs, v)][1]
          = (mem[s][v][1][1] + mem[s][v][2][1] + ZeroShare(s, j)) % Word
    BY <1>7 DEF Contents
  <2>4. ZeroShare(s, j) = MaskAt(s, c[n - 1] + j)
    BY <1>4 DEF ZeroShare, MaskAt
  <2>5. mem[s][v][1][1] = Held(s, h, n, v)[1][1] /\ mem[s][v][2][1] = Held(s, h, n, v)[2][1]
    BY <1>5, <1>6, <1>7
  <2>6. Reshared(s, c, h, n, v)
          = (Held(s, h, n, v)[1][1] + Held(s, h, n, v)[2][1] + MaskAt(s, c[n - 1] + j)) % Word
    BY SMTT(40) DEF Reshared
  <2> HIDE DEF j, in, out
  <2> QED
    BY <2>2, <2>3, <2>4, <2>5, <2>6
<1>8. ASSUME in.op \in {"and", "or"}, NEW f \in 1 .. Len(plan), LastFill(plan, f, n)
      PROVE  h[s][n][in.dst][1] = Multiplied(s, c, h, n, f)
  <2> DEFINE x(q) == h[q][n - 1][in.x][1]
             y(q) == h[q][n - 1][in.y][1]
             mask == MaskAt(s, c[f - 1] + (in.row * VectorLen + query.row))
             product == (LocalProduct(<<x(Prev(s)), x(s)>>, <<y(Prev(s)), y(s)>>) + mask) % Word
  <2>1. in.x \in Reg /\ in.y \in Reg /\ in.dst \in Reg /\ in.op # "reshare"
    BY <1>1, <1>8, InstrRegs
  <2>2. h[s][n][in.dst] = Combined(Columns, in.op, out[1], h[s][n - 1][in.x], h[s][n - 1][in.y])
    BY ZenonT(60), <1>3, <1>8, <2>1 DEF Third
  <2>3. h[s][n][in.dst][1] = (out[1][1] + OrTerm(in.op, x(s), y(s))) % Word
    BY ZenonT(60), <2>2, FirstColumn DEF Combined
  <2>4. zero[s][in.row] = mask
    <3>1. in.row \in Filling(plan[f])
      <4>1. Masked(plan, n)
        BY <1>1, <1>8, PlanFacts DEF Piece, InstrOK
      <4>2. PICK e \in 1 .. n - 1 : LastFill(plan, e, n) /\ in.row \in Filling(plan[e])
        BY <4>1 DEF Masked, Filling
      <4>3. e = f
        <5>1. e \in 1 .. n - 1 /\ f \in 1 .. n - 1 /\ plan[e].op = "fill" /\ plan[f].op = "fill"
              /\ (\A g \in e + 1 .. n - 1 : plan[g].op # "fill")
              /\ (\A g \in f + 1 .. n - 1 : plan[g].op # "fill")
          BY <1>8, <4>2 DEF LastFill
        <5>2. ~(e < f) /\ ~(f < e)
          BY SMTT(40), <1>2, <5>1
        <5> QED
          BY <1>2, <5>1, <5>2
      <4> QED
        BY <4>2, <4>3
    <3>2. zero[s] = [row \in Filling(plan[f]) |->
                       MaskAt(s, c[f - 1] + (row * VectorLen + query.row))]
      BY <1>8 DEF MaskOK
    <3> HIDE DEF in
    <3> QED
      BY <3>1, <3>2
  <2>5. out[1][1] = (LocalProduct(Column(mem[s][in.x], 1), Column(mem[s][in.y], 1))
                       + zero[s][in.row]) % Word
    BY SMTT(40), <1>8 DEF Contents
  <2>6. /\ Column(mem[s][in.x], 1) = <<x(Prev(s)), x(s)>>
        /\ Column(mem[s][in.y], 1) = <<y(Prev(s)), y(s)>>
    BY ZenonT(60), <1>5, <1>6, <1>8 DEF Column, Held
  <2>7. out[1][1] = product
    BY ZenonT(60), <2>4, <2>5, <2>6
  <2>8. Multiplied(s, c, h, n, f) = (product + OrTerm(in.op, x(s), y(s))) % Word
    BY DEF Multiplied
  <2> HIDE DEF product
  <2> QED
    BY <2>3, <2>7, <2>8
<1> QED
  BY <1>7, <1>8 DEF SentAt

\* A server's inputs after a step of it.
LEMMA FreshStep ==
  ASSUME BaseInv, NEW s \in Server, Moves(s), FreshOK(s)
  PROVE  FreshOK(s)'
<1> DEFINE n == pc[s]
           C == Computed(query.kind, LeafCount)
<1>1. /\ Base /\ PlanOK /\ PaceOK(s) /\ Len(plan) \in Nat
      /\ n \in Nat /\ published[s] \in Nat /\ finished[s] \in Nat
      /\ query' = query /\ plan' = plan /\ C' = C /\ Inputs(s)' = Inputs(s)
  BY PlanFacts, BaseMoves, SameInputs DEF BaseInv, Base, DomainsOK
<1>2. n # 0 => C \subseteq DOMAIN mem[s]
  BY DEF BaseInv, RegsOK
<1> HIDE DEF C
<1>3. ASSUME \A v \in C : \/ v \in WrittenIn(plan, pc'[s])
                          \/ Mid(s)' /\ v \in Outputs(plan[pc'[s]])
                          \/ mem'[s][v] = Inputs(s)[v]
      PROVE  FreshOK(s)'
  BY <1>1, <1>3 DEF FreshOK, C
<1>4. n # 0 => \A v \in C : \/ v \in WrittenIn(plan, n)
                            \/ Mid(s) /\ v \in Outputs(plan[n])
                            \/ mem[s][v] = Inputs(s)[v]
  BY DEF FreshOK, C
<1>5. CASE Passes(s) /\ Evaluates(s)
  BY <1>3, <1>5 DEF Evaluates
<1>6. CASE Passes(s) /\ Fills(s)
  <2>1. /\ n \in 1 .. Len(plan) /\ plan[n].op \notin Exchanges /\ pc'[s] = n + 1 /\ n # 0
        /\ mem'[s] = mem[s]
    BY <1>1, <1>6 DEF Passes, Fills, KeepsMem
  <2>2. WrittenIn(plan, n + 1) = WrittenIn(plan, n) /\ ~Mid(s)
    <3>1. AtRest(s)
      BY <1>1, <2>1 DEF PaceOK
    <3>2. WrittenIn(plan, n + 1) = WrittenIn(plan, n) \cup {}
      BY <1>1, <2>1, WrittenStep
    <3> QED
      BY <1>1, <3>1, <3>2 DEF Mid, AtRest
  <2> QED
    BY <1>3, <1>4, <2>1, <2>2
<1>7. ASSUME NEW msg, Sends(s, msg), ReshareSent(s, msg) \/ ProductSent(s, msg)
      PROVE  FreshOK(s)'
  <2>1. /\ n \in 1 .. Len(plan) /\ pc'[s] = n /\ Mid(s)' /\ n # 0
    BY <1>1, <1>7 DEF Sends, Mid, AtRest
  <2>2. \A v \in C : v \notin Outputs(plan[n]) => mem'[s][v] = mem[s][v]
    <3>1. CASE ReshareSent(s, msg)
      BY <1>2, <2>1, <3>1 DEF ReshareSent, Outputs
    <3>2. CASE ProductSent(s, msg)
      BY <1>2, <2>1, <3>2 DEF ProductSent, Outputs
    <3> QED
      BY <1>7, <3>1, <3>2
  <2> QED
    BY <1>3, <1>4, <2>1, <2>2
<1>8. ASSUME Finishes(s), ReshareFinished(s) \/ ProductFinished(s)
      PROVE  FreshOK(s)'
  <2>1. n \in 1 .. Len(plan) /\ pc'[s] = n + 1 /\ n # 0 /\ plan[n].op \in Exchanges
    BY <1>1, <1>8 DEF Finishes
  <2>2. \A v \in C : v \notin Outputs(plan[n]) => mem'[s][v] = mem[s][v]
    <3>1. CASE ReshareFinished(s)
      BY <1>2, <2>1, <3>1 DEF ReshareFinished, Outputs
    <3>2. CASE ProductFinished(s)
      BY <1>2, <2>1, <3>2 DEF ProductFinished, Outputs
    <3> QED
      BY <1>8, <3>1, <3>2
  <2>3. WrittenIn(plan, n + 1) = WrittenIn(plan, n) \cup Outputs(plan[n])
    BY <1>1, <2>1, WrittenStep
  <2> QED
    BY <1>3, <1>4, <2>1, <2>2, <2>3
<1> QED
  BY <1>5, <1>6, <1>7, <1>8 DEF Moves

\* A server that does nothing keeps what it holds.
LEMMA ExactKept ==
  ASSUME NEW t \in Server, NEW c, NEW h, query' = query, plan' = plan, ServerExact(t, c, h),
         pc'[t] = pc[t], published'[t] = published[t], finished'[t] = finished[t],
         outbox'[t] = outbox[t], mem'[t] = mem[t], operand'[t] = operand[t],
         zero'[t] = zero[t], counter'[t] = counter[t],
         AnswerOK(t, h)'
  PROVE  ServerExact(t, c, h)'
<1>1. MaskOK(t, c)' /\ HoldsBefore(t, h)' /\ HoldsSent(t, h)'
  BY MaskKept, HoldsKept DEF ServerExact
<1>2. FreshOK(t)'
  <2>1. /\ Computed(query.kind, LeafCount)' = Computed(query.kind, LeafCount)
        /\ Inputs(t)' = Inputs(t) /\ Mid(t)' = Mid(t)
    BY SameInputs DEF Mid
  <2> QED
    BY <2>1 DEF ServerExact, FreshOK
<1>3. SentOK(t, c, h)'
  BY SameNumbers DEF ServerExact, SentOK
<1> QED
  BY <1>1, <1>2, <1>3 DEF ServerExact

\* An answer that is not touched stays right.
LEMMA AnswerKept ==
  ASSUME query' = query, plan' = plan, answer' = answer, NEW s, NEW h, AnswerOK(s, h), pc'[s] = pc[s]
  PROVE  AnswerOK(s, h)'
BY SameNumbers DEF AnswerOK

\* The exact state after a step of a server.
LEMMA ExactMoves ==
  ASSUME FourChunks, BaseInv, ExactInv, NEW s \in Server, MovesOn(s)
  PROVE  ExactInv'
<1>1. PICK c, h : Counting(c) /\ HistoryOK(h) /\ \A t \in Server : ServerExact(t, c, h)
  BY DEF ExactInv
<1>2. /\ Moves(s) /\ query' = query /\ plan' = plan /\ Base /\ answer' = answer
      /\ pc[s] \in Nat /\ Len(plan) \in Nat /\ published[s] \in Nat
  BY BaseMoves, PlanFacts DEF BaseInv, Base, DomainsOK, MovesOn
<1>3. \E g : HistoryOK(g)' /\ Agree(h, g)
  <2>1. CASE \E msg : Sends(s, msg)
    BY <1>1, <2>1, HistoryGrows
  <2>2. CASE ~\E msg : Sends(s, msg)
    <3>1. \A q \in Server : published'[q] = published[q] /\ outbox'[q] = outbox[q]
      BY <1>2, <2>2 DEF Moves, Passes, Finishes, Quiet
    <3> QED
      BY <1>1, <1>2, <3>1, HistoryKept
  <2> QED
    BY <2>1, <2>2
<1>4. PICK g : HistoryOK(g)' /\ Agree(h, g)
  BY <1>3
<1>5. ASSUME NEW t \in Server
      PROVE  ServerExact(t, c, g)
  <2>1. HoldsBefore(t, g) /\ HoldsSent(t, g) /\ AnswerOK(t, g)
    BY <1>1, <1>2, <1>4, HoldsAgree, AnswerAgree DEF ServerExact
  <2>2. SentOK(t, c, g)
    BY <1>1, <1>2, <1>4, SentAgree DEF ServerExact, SentOK
  <2> QED
    BY <1>1, <2>1, <2>2 DEF ServerExact
<1>6. ASSUME NEW t \in Server \ {s}
      PROVE  ServerExact(t, c, g)'
  <2>1. /\ pc'[t] = pc[t] /\ published'[t] = published[t] /\ finished'[t] = finished[t]
        /\ outbox'[t] = outbox[t] /\ mem'[t] = mem[t] /\ operand'[t] = operand[t]
        /\ zero'[t] = zero[t] /\ counter'[t] = counter[t]
    BY <1>2, OthersBase
  <2>2. AnswerOK(t, g)'
    BY <1>2, <1>5, <2>1, AnswerKept DEF ServerExact
  <2> QED
    BY <1>2, <1>5, <2>1, <2>2, ExactKept
<1>7. ServerExact(s, c, g)'
  <2>1. Counting(c) /\ MaskOK(s, c) /\ HoldsBefore(s, g) /\ FreshOK(s) /\ SentOK(s, c, g)
        /\ AnswerOK(s, g)
    BY <1>1, <1>5 DEF ServerExact
  <2>2. MaskOK(s, c)'
    BY <1>2, <2>1, MaskStep
  <2>3. HoldsBefore(s, g)' /\ HoldsSent(s, g)'
    BY <1>2, <1>4, <1>5, HoldsPasses, HoldsSends, HoldsFinishes DEF Moves, ServerExact
  <2>4. FreshOK(s)'
    BY <1>2, <2>1, FreshStep
  <2>5. SentOK(s, c, g)'
    <3>1. CASE published'[s] = published[s]
      BY <1>2, <2>1, <3>1, SameNumbers DEF SentOK
    <3>2. CASE published'[s] # published[s]
      <4>1. PICK msg : Sends(s, msg)
        BY <1>2, <3>2 DEF Moves, Passes, Finishes
      <4>2. Contents(s) /\ HistoryOf(s, g)'
        BY <1>4, <3>2 DEF MovesOn, HistoryOK
      <4>3. SentAt(s, c, g, pc[s])
        BY <2>1, <4>1, <4>2, SentNew
      <4>4. /\ pc[s] \in 1 .. Len(plan) /\ published'[s] = published[s] + 1
            /\ plan[pc[s]].op \in Exchanges /\ published[s] = finished[s]
        BY <4>1 DEF Sends, AtRest
      <4>5. ExIn(plan, pc[s]) = published[s] + 1
        BY <1>2, <4>4, ExHere
      <4>6. ASSUME NEW i \in 1 .. Len(plan), plan[i].op \in Exchanges,
                   ExIn(plan, i) <= published[s] + 1
            PROVE  SentAt(s, c, g, i)
        <5> DEFINE n == pc[s]
        <5>1. CASE i < n
          <6>1. i \in Nat /\ n - 1 \in Nat /\ i <= n - 1
            BY <1>2, <4>4, <5>1
          <6>2. ExIn(plan, i) <= ExIn(plan, n - 1) /\ ExIn(plan, i) \in Nat
                /\ ExIn(plan, n - 1) \in Nat
            BY <6>1, ExGrows, i <= i
          <6>3. ExIn(plan, n) = ExIn(plan, n - 1) + 1
            BY <1>2, <4>4, ExStep
          <6>4. ExIn(plan, i) <= published[s]
            BY <1>2, <4>5, <6>2, <6>3
          <6> QED
            BY <2>1, <4>6, <6>4 DEF SentOK
        <5>2. CASE i = n
          BY <4>3, <5>2
        <5>3. CASE i > n
          <6>1. n \in Nat \ {0} /\ i \in Nat /\ n <= i /\ i \in n + 1 .. i
            BY <1>2, <4>4, <5>3
          <6> HIDE DEF n
          <6>2. /\ \A j \in n + 1 .. i : plan[j].op \in Exchanges => ExIn(plan, n) < ExIn(plan, i)
                /\ ExIn(plan, i) \in Nat
            BY <6>1, ExGrows
          <6>4. ExIn(plan, n) < ExIn(plan, i)
            BY <4>6, <6>1, <6>2
          <6>3. FALSE
            BY <1>2, <4>5, <4>6, <6>2, <6>4 DEF n
          <6> QED
            BY <6>3
        <5> QED
          BY <1>2, <4>4, <5>1, <5>2, <5>3
      <4> QED
        BY <1>2, <4>4, <4>6, SameNumbers DEF SentOK
    <3> QED
      BY <3>1, <3>2
  <2>6. AnswerOK(s, g)'
    <3>1. pc[s] \in 0 .. Len(plan)
      BY <1>2 DEF Moves, Passes, Sends, Finishes
    <3>2. answer[s] = NoResult
      BY <1>2, <2>1, <3>1 DEF AnswerOK
    <3> QED
      BY <1>2, <3>2 DEF AnswerOK
  <2> QED
    BY <2>2, <2>3, <2>4, <2>5, <2>6 DEF ServerExact
<1>8. Counting(c)'
  BY <1>1, <1>2, SameQuery
<1> QED
  BY <1>4, <1>6, <1>7, <1>8 DEF ExactInv

\* The exact state after a step in which the servers keep what they hold.
LEMMA ExactRests ==
  ASSUME ExactInv, Rests,
         \A s \in Server : \A h : AnswerOK(s, h) /\ HoldsBefore(s, h) => AnswerOK(s, h)'
  PROVE  ExactInv'
<1>1. PICK c, h : Counting(c) /\ HistoryOK(h) /\ \A t \in Server : ServerExact(t, c, h)
  BY DEF ExactInv
<1>2. query' = query /\ plan' = plan
  BY DEF Rests
<1>3. HistoryOK(h)'
  BY <1>1, HistoryKept DEF Rests
<1>4. Counting(c)'
  BY <1>1, <1>2, SameQuery
<1>5. ASSUME NEW t \in Server
      PROVE  ServerExact(t, c, h)'
  <2>1. ServerExact(t, c, h) /\ AnswerOK(t, h)'
    BY <1>1 DEF ServerExact
  <2>2. /\ pc'[t] = pc[t] /\ published'[t] = published[t] /\ finished'[t] = finished[t]
        /\ outbox'[t] = outbox[t] /\ mem'[t] = mem[t] /\ operand'[t] = operand[t]
        /\ zero'[t] = zero[t] /\ counter'[t] = counter[t]
    BY DEF Rests
  <2> QED
    BY <1>2, <2>1, <2>2, ExactKept
<1> QED
  BY <1>3, <1>4, <1>5 DEF ExactInv

\* The filter was written when a server has finished its plan.
LEMMA FilterWritten ==
  ASSUME Base
  PROVE  /\ FilterReg(query.kind) \in WrittenIn(plan, Len(plan) + 1)
         /\ \A s \in Server : pc[s] = Len(plan) + 1 => ~Mid(s)
<1>1. Piece(plan, {}, {FilterReg(query.kind)}, Computed(query.kind, LeafCount))
      /\ Len(plan) \in Nat
  BY PlanFacts DEF Base
<1>2. FilterReg(query.kind) \in WrittenIn(plan, Len(plan) + 1)
  BY <1>1 DEF Piece
<1>3. ASSUME NEW s \in Server, pc[s] = Len(plan) + 1
      PROVE  ~Mid(s)
  <2>1. AtRest(s) \/ pc[s] \in 1 .. Len(plan)
    BY DEF Base, PaceOK
  <2>2. AtRest(s)
    BY <1>1, <1>3, <2>1
  <2> QED
    BY <2>2 DEF AtRest, Mid, Base, DomainsOK
<1> QED
  BY <1>2, <1>3

\* A server that answers.
LEMMA ExactAnswers ==
  ASSUME BaseInv, ExactInv, Answers, DOMAIN answer = Server
  PROVE  ExactInv'
<1>1. PICK s \in Server : Respond(s)
  BY DEF Answers
<1>2. Rests /\ query' = query /\ plan' = plan /\ pc' = pc
  BY DEF Answers, Rests
<1> DEFINE N == Len(plan)
           F == FilterReg(query.kind)
           v == <<ValueShare(s, 0), ValueShare(s, 1)>>
           agg == [k \in Columns |-> LocalProduct(v, Column(mem[s][F], k)) % Word]
<1>3. /\ pc[s] = N + 1 /\ answer[s] = NoResult
      /\ answer' = [answer EXCEPT ![s] = [agg |-> agg, check |-> check[s]]]
  BY <1>1 DEF Respond
<1>4. ASSUME NEW t \in Server, NEW h, AnswerOK(t, h), HoldsBefore(t, h)
      PROVE  AnswerOK(t, h)'
  <2>1. AnswerFrom(t, h)' = AnswerFrom(t, h)
    BY <1>2, SameNumbers
  <2>2. CASE t # s
    <3>1. answer'[t] = answer[t]
      BY <1>3, <2>2
    <3> QED
      BY <1>2, <1>4, <2>1, <3>1 DEF AnswerOK
  <2>3. CASE t = s
    <3>1. answer'[s].agg = agg
      BY <1>3
    <3>2. agg[1] = LocalProduct(v, Column(mem[s][F], 1)) % Word
      BY FirstColumn
    <3>3. Column(mem[s][F], 1) = <<h[Prev(s)][N][F][1], h[s][N][F][1]>>
      <4>1. F \in WrittenIn(plan, pc[s]) /\ ~Mid(s) /\ N \in Nat
        BY <1>3, FilterWritten, PlanFacts DEF BaseInv, Base
      <4>2. mem[s][F][1] = h[Prev(s)][N][F] /\ mem[s][F][2] = h[s][N][F]
        <5>1. N + 1 - 1 = N
          BY <4>1
        <5> QED
          BY <1>3, <1>4, <2>3, <4>1, <5>1 DEF HoldsBefore
      <4> HIDE DEF F, N
      <4> QED
        BY <4>2 DEF Column
    <3>4. agg[1] = AnswerFrom(s, h)
      BY <3>2, <3>3 DEF AnswerFrom
    <3> HIDE DEF agg
    <3>5. answer'[s].agg[1] = AnswerFrom(t, h)' /\ pc'[s] = N' + 1
      BY <1>2, <1>3, <2>1, <2>3, <3>1, <3>4
    <3> QED
      BY <2>3, <3>5 DEF AnswerOK
  <2> QED
    BY <2>2, <2>3
<1> QED
  BY <1>2, <1>4, ExactRests

\* Any other step.
LEMMA ExactOthers ==
  ASSUME ExactInv, Rests, answer' = answer
  PROVE  ExactInv'
<1>1. query' = query /\ plan' = plan /\ pc' = pc
  BY DEF Rests
<1>2. ASSUME NEW s \in Server, NEW h, AnswerOK(s, h)
      PROVE  AnswerOK(s, h)'
  BY <1>1, <1>2, AnswerKept
<1> QED
  BY <1>2, ExactRests

\* The exact state at the start.
LEMMA ExactInit ==
  ASSUME Init
  PROVE  ExactInv /\ DOMAIN answer = Server
<1>1. PICK c : Counting(c) /\ \A s \in Server : MaskOK(s, c)
  BY MaskInit DEF MaskInv
<1>2. PICK h : HistoryOK(h) /\ \A s \in Server : HoldsBefore(s, h) /\ HoldsSent(s, h)
  BY ThirdInit DEF ThirdInv
<1>3. ASSUME NEW s \in Server
      PROVE  ServerExact(s, c, h)
  <2>1. pc[s] = 0 /\ published[s] = 0 /\ answer[s] = NoResult
    BY DEF Init, Ring!Init, Server
  <2>2. FreshOK(s) /\ AnswerOK(s, h)
    BY <2>1 DEF FreshOK, AnswerOK
  <2>3. ASSUME NEW i \in 1 .. Len(plan), plan[i].op \in Exchanges, ExIn(plan, i) <= published[s]
        PROVE  FALSE
    <3>1. ExIn(plan, i) = ExIn(plan, i - 1) + 1 /\ ExIn(plan, i - 1) \in Nat
      BY <2>3, ExStep, i \in Nat \ {0}
    <3> QED
      BY <2>1, <2>3, <3>1
  <2>4. SentOK(s, c, h)
    BY <2>3 DEF SentOK
  <2> QED
    BY <1>1, <1>2, <2>2, <2>4 DEF ServerExact
<1>4. DOMAIN answer = Server
  BY DEF Init
<1> QED
  BY <1>1, <1>2, <1>3, <1>4 DEF ExactInv

\* What the client returns is the sum of the servers' answers.
ResultOK ==
  result # NoResult =>
    (\A s \in Server : answer[s] # NoResult) /\ result = SumOf("agg", 1) % Group

AnswersInv == BaseInv /\ ExactInv /\ ResultOK /\ DOMAIN answer = Server

\* It holds initially.
LEMMA AnswersInit == Init => AnswersInv
<1>1. Init => result = NoResult
  BY DEF Init
<1> QED
  BY <1>1, BaseInvInit, ExactInit DEF AnswersInv, ResultOK

\* All of it is an invariant.
LEMMA AnswersStep ==
  ASSUME FourChunks, AnswersInv, [Next]_vars
  PROVE  AnswersInv'
<1>1. BaseInv /\ ExactInv /\ ResultOK /\ DOMAIN answer = Server
  BY DEF AnswersInv
<1>2. BaseInv'
  BY <1>1, StepKinds, BaseMoves, BaseRests
<1>3. CASE UNCHANGED vars
  <2>1. Rests /\ answer' = answer /\ result' = result
    BY <1>3 DEF vars, Rests, masks, ring
  <2> QED
    BY <1>1, <1>2, <2>1, ExactOthers DEF AnswersInv, ResultOK, SumOf
<1>4. CASE \E s \in Server : MovesOn(s)
  <2>1. answer' = answer /\ result' = result
    BY <1>4 DEF MovesOn
  <2> QED
    BY <1>1, <1>2, <1>4, <2>1, ExactMoves DEF AnswersInv, ResultOK, SumOf
<1>5. CASE Answers
  <2>1. PICK s \in Server : Respond(s)
    BY <1>5 DEF Answers
  <2>2. DOMAIN answer' = DOMAIN answer /\ result' = result /\ answer[s] = NoResult
    BY <2>1 DEF Respond
  <2>3. result = NoResult
    BY <1>1, <2>2 DEF ResultOK
  <2> QED
    BY <1>1, <1>2, <1>5, <2>2, <2>3, ExactAnswers DEF AnswersInv, ResultOK
<1>6. CASE Gather
  <2>1. /\ Rests /\ answer' = answer
        /\ \A s \in Server : answer[s] # NoResult
        /\ result' = SumOf("agg", 1) % Group
    BY <1>6 DEF Gather, Rests, masks, ring
  <2>2. ExactInv'
    BY <1>1, <2>1, ExactOthers
  <2>3. ResultOK'
    BY <2>1 DEF ResultOK, SumOf
  <2> QED
    BY <1>1, <1>2, <2>1, <2>2, <2>3 DEF AnswersInv
<1> QED
  BY <1>1, <1>3, <1>4, <1>5, <1>6, Kinds

-----------------------------------------------------------------------------
(* What the thirds add up to.                                              *)

\* The value of vector v after instruction in, from the values b before it and
\* the values bit of the inputs; W is what was written.
After(in, b, bit, W, v) ==
  IF in.op = "reshare" /\ v \in Range(in.regs) THEN IF v \in W THEN 2 * b[v] ELSE bit[v]
  ELSE IF in.op \in {"and", "or"} /\ v = in.dst
       THEN b[in.x] * b[in.y] + OrTerm(in.op, b[in.x], b[in.y])
       ELSE b[v]

\* e[i] has the values after i instructions.
Values(e, bit) ==
  /\ e \in [0 .. Len(plan) -> [Reg -> Int]]
  /\ \A i \in 1 .. Len(plan), v \in Reg :
       e[i][v] = After(plan[i], e[i - 1], bit, WrittenIn(plan, i), v)

\* They are defined.
LEMMA ValuesDefined ==
  ASSUME PlanOK, NEW bit \in [Reg -> Int]
  PROVE  \E e : Values(e, bit)
<1> DEFINE N == Len(plan)
           D == [Reg -> Int]
           base == [v \in Reg |-> 0]
           G == [i \in 1 .. N |->
                   [b \in D |-> [v \in Reg |-> After(plan[i], b, bit, WrittenIn(plan, i), v)]]]
<1>1. N \in Nat
  BY PlanFacts
<1>2. ASSUME NEW i \in 1 .. N, NEW b \in D, NEW v \in Reg
      PROVE  After(plan[i], b, bit, WrittenIn(plan, i), v) \in Int
  <2>1. plan[i].op \in {"and", "or"} => plan[i].x \in Reg /\ plan[i].y \in Reg
    BY InstrRegs
  <2>2. b[v] \in Int /\ bit[v] \in Int /\ 2 * b[v] \in Int
    OBVIOUS
  <2>3. plan[i].op \in {"and", "or"} => b[plan[i].x] \in Int /\ b[plan[i].y] \in Int
    BY <2>1
  <2>4. \A x, y \in Int : x * y \in Int /\ x * y + OrTerm(plan[i].op, x, y) \in Int
    BY DEF OrTerm
  <2> QED
    BY <2>2, <2>3, <2>4 DEF After
<1>3. base \in D
  OBVIOUS
<1>4. G \in [1 .. N -> [D -> D]]
  BY <1>2
<1>5. \A i \in 1 .. N, b \in D, v \in Reg :
        G[i][b][v] = After(plan[i], b, bit, WrittenIn(plan, i), v)
  OBVIOUS
<1> HIDE DEF N, D, base, G
<1>6. PICK e \in [0 .. N -> D] : IsIteration(e, N, base, G)
  BY <1>1, <1>3, <1>4, Iteration
<1>7. \A i \in 1 .. N : i - 1 \in 0 .. N
  BY <1>1
<1>8. \A i \in 1 .. N, v \in Reg :
        e[i][v] = After(plan[i], e[i - 1], bit, WrittenIn(plan, i), v)
  BY <1>5, <1>6, <1>7 DEF IsIteration
<1>9. Values(e, bit)
  BY <1>6, <1>8 DEF Values, N, D
<1> QED
  BY <1>9

\* The masks with the same number add up to a multiple of the group's order.
LEMMA MaskSum ==
  ASSUME PrfNumbers, PlanOK, NEW n \in Nat
  PROVE  /\ \A s \in Server : MaskAt(s, n) \in Int
         /\ Same(MaskAt(0, n) + MaskAt(1, n) + MaskAt(2, n), 0)
<1> DEFINE a == Prf(query.prfKey[0], n)
           b == Prf(query.prfKey[1], n)
           d == Prf(query.prfKey[2], n)
<1>1. /\ Server = {0, 1, 2} /\ Prev(0) = 2 /\ Prev(1) = 0 /\ Prev(2) = 1
      /\ Word \in Nat \ {0}
  BY ServerFacts, GroupAssumption
<1>2. a \in Int /\ b \in Int /\ d \in Int
  <2>1. query \in Requests
    BY DEF PlanOK
  <2> QED
    BY <1>1, <2>1 DEF PrfNumbers
<1>3. /\ MaskAt(0, n) = (d - a) % Word
      /\ MaskAt(1, n) = (a - b) % Word
      /\ MaskAt(2, n) = (b - d) % Word
  BY <1>1 DEF MaskAt
<1> HIDE DEF a, b, d
<1>4. MaskAt(0, n) \in Int /\ MaskAt(1, n) \in Int /\ MaskAt(2, n) \in Int
  BY <1>2, <1>3, SameWord
<1>5. (((d - a) % Word) + ((a - b) % Word) + ((b - d) % Word)) % Word = 0
  BY <1>1, <1>2, MasksAddUp
<1>6. (MaskAt(0, n) + MaskAt(1, n) + MaskAt(2, n)) % Word = 0
  BY <1>3, <1>5
<1>7. Same(MaskAt(0, n) + MaskAt(1, n) + MaskAt(2, n), 0)
  BY <1>4, <1>6, SameZero
<1> QED
  BY <1>1, <1>4, <1>7

\* Three sums of words.
LEMMA WordSum ==
  ASSUME NEW a0 \in Int, NEW a1 \in Int, NEW a2 \in Int,
         NEW m0 \in Int, NEW m1 \in Int, NEW m2 \in Int, NEW u \in Int, Same(m0 + m1 + m2, u),
         NEW v \in Int, Same(a0 + a1 + a2, v)
  PROVE  /\ (a0 + m0) % Word \in Int /\ (a1 + m1) % Word \in Int /\ (a2 + m2) % Word \in Int
         /\ Same(((a0 + m0) % Word) + ((a1 + m1) % Word) + ((a2 + m2) % Word), v + u)
<1> DEFINE n0 == a0 + m0  n1 == a1 + m1  n2 == a2 + m2
           r0 == n0 % Word  r1 == n1 % Word  r2 == n2 % Word
<1>1. n0 \in Int /\ n1 \in Int /\ n2 \in Int
      /\ n0 + n1 + n2 = (a0 + a1 + a2) + (m0 + m1 + m2)
  OBVIOUS
<1>2. Same((a0 + a1 + a2) + (m0 + m1 + m2), v + u) /\ v + u \in Int
  BY SameAdd
<1>3. Same(n0 + n1 + n2, v + u)
  BY <1>1, <1>2
<1> HIDE DEF n0, n1, n2
<1>4. /\ r0 \in Int /\ Same(r0, n0)
      /\ r1 \in Int /\ Same(r1, n1)
      /\ r2 \in Int /\ Same(r2, n2)
  BY <1>1, SameWord
<1> HIDE DEF r0, r1, r2
<1>5. Same(r0 + r1 + r2, n0 + n1 + n2)
  BY <1>1, <1>4, SameThree
<1>6. r0 + r1 + r2 \in Int /\ n0 + n1 + n2 \in Int
  BY <1>1, <1>4
<1>7. Same(r0 + r1 + r2, v + u)
  BY <1>2, <1>3, <1>5, <1>6, SameTrans
<1> QED
  BY <1>4, <1>7 DEF r0, r1, r2, n0, n1, n2

\* The local products of three shared numbers add up to the product.
LEMMA ProductSum ==
  ASSUME NEW x0 \in Int, NEW x1 \in Int, NEW x2 \in Int,
         NEW y0 \in Int, NEW y1 \in Int, NEW y2 \in Int
  PROVE  /\ LocalProduct(<<x2, x0>>, <<y2, y0>>) \in Int
         /\ LocalProduct(<<x0, x1>>, <<y0, y1>>) \in Int
         /\ LocalProduct(<<x1, x2>>, <<y1, y2>>) \in Int
         /\ LocalProduct(<<x2, x0>>, <<y2, y0>>) + LocalProduct(<<x0, x1>>, <<y0, y1>>)
              + LocalProduct(<<x1, x2>>, <<y1, y2>>) = (x0 + x1 + x2) * (y0 + y1 + y2)
BY DEF LocalProduct

\* The inputs' shares add up to bit.
InputsMean(bit) ==
  \A v \in Computed(query.kind, LeafCount) :
    /\ \A s \in Server : Inputs(s)[v][1][1] \in Int /\ Inputs(s)[v][2][1] \in Int
    /\ Same((Inputs(0)[v][1][1] + Inputs(0)[v][2][1])
              + (Inputs(1)[v][1][1] + Inputs(1)[v][2][1])
              + (Inputs(2)[v][1][1] + Inputs(2)[v][2][1]), bit[v])

\* The thirds of a vector add up to x.
AddUp(h, i, v, x) ==
  /\ \A s \in Server : h[s][i][v][1] \in Int
  /\ Same(h[0][i][v][1] + h[1][i][v][1] + h[2][i][v][1], x)

\* Those of every vector that is written do so to its value.
Adds(h, e, i) == \A v \in WrittenIn(plan, i + 1) : AddUp(h, i, v, e[i][v])

\* Instruction i has left what the servers sent, and nothing else is changed.
Follows(c, h, i) ==
  \A s \in Server :
    /\ plan[i].op \in Exchanges => SentAt(s, c, h, i)
    /\ \A v \in Reg : ~(plan[i].op \in Exchanges /\ v \in Outputs(plan[i])) =>
         h[s][i][v] = h[s][i - 1][v]

\* What a step of the values is about.
StepOf(c, h, e, bit, i) ==
  /\ PrfNumbers /\ PlanOK /\ Counting(c) /\ bit \in [Reg -> Int] /\ InputsMean(bit)
  /\ Values(e, bit) /\ i \in 1 .. Len(plan) /\ Adds(h, e, i - 1) /\ Follows(c, h, i)

\* The values are numbers.
LEMMA ValueNumbers ==
  ASSUME PlanOK, NEW bit, NEW e, Values(e, bit), NEW i \in 1 .. Len(plan), NEW v \in Reg
  PROVE  /\ e[i - 1][v] \in Int /\ e[i][v] \in Int
         /\ e[i][v] = After(plan[i], e[i - 1], bit, WrittenIn(plan, i), v)
<1>1. Len(plan) \in Nat
  BY PlanFacts
<1>2. i - 1 \in 0 .. Len(plan) /\ i \in 0 .. Len(plan)
  BY <1>1
<1>3. e \in [0 .. Len(plan) -> [Reg -> Int]]
  BY DEF Values
<1>4. e[i - 1] \in [Reg -> Int] /\ e[i] \in [Reg -> Int]
  BY <1>2, <1>3
<1> QED
  BY <1>4 DEF Values

\* A resharing: the thirds of a vector add up to what its shares did.
LEMMA ReshareAdds ==
  ASSUME NEW c, NEW h, NEW e, NEW bit, NEW i, StepOf(c, h, e, bit, i),
         plan[i].op = "reshare", NEW v \in Range(plan[i].regs)
  PROVE  AddUp(h, i, v, e[i][v])
<1> DEFINE regs == plan[i].regs
           j == IndexOf(regs, v)
           n == c[i - 1] + ((j - 1) * Len(regs) + VectorLen)
           a(s) == Held(s, h, i, v)[1][1] + Held(s, h, i, v)[2][1]
           m(s) == MaskAt(s, n)
<1>1. /\ PrfNumbers /\ PlanOK /\ Counting(c) /\ bit \in [Reg -> Int] /\ InputsMean(bit)
      /\ Values(e, bit) /\ i \in 1 .. Len(plan) /\ Adds(h, e, i - 1) /\ Follows(c, h, i)
  BY DEF StepOf
<1>2. /\ Server = {0, 1, 2} /\ Prev(0) = 2 /\ Prev(1) = 0 /\ Prev(2) = 1 /\ Len(plan) \in Nat
  BY <1>1, ServerFacts, PlanFacts
<1>3. /\ regs \in Seq(Reg) /\ Range(regs) \subseteq Computed(query.kind, LeafCount) /\ v \in Reg
      /\ plan[i] \in InstrSet
  <2>1. InstrOK(plan, i, {}, Computed(query.kind, LeafCount)) /\ plan[i] \in InstrSet
    BY <1>1, PlanFacts, ElementOfSeq DEF Piece
  <2> QED
    BY <1>1, <2>1, InstrKinds, InstrRegs DEF InstrOK
<1>4. j \in 1 .. Len(regs) /\ Len(regs) \in Nat
  BY <1>3, IndexFact, LenProperties
<1>5. n \in Nat
  <2>1. c[i - 1] \in Nat
    <3>1. i - 1 \in 0 .. Len(plan)
      BY <1>1, <1>2
    <3> QED
      BY <1>1, <3>1 DEF Counting
  <2>2. VectorLen \in Nat
    BY <1>1, Sizes
  <2>3. (j - 1) * Len(regs) \in Nat
    <3> DEFINE l == Len(regs)
               k == j - 1
    <3>1. k \in Nat /\ l \in Nat
      BY <1>4
    <3> HIDE DEF k, l
    <3>2. k * l \in Nat
      BY <3>1
    <3> QED
      BY <3>2 DEF k, l
  <2> QED
    BY <2>1, <2>2, <2>3
<1>6. \A s \in Server : h[s][i][v][1] = (a(s) + m(s)) % Word
  <2> SUFFICES ASSUME NEW s \in Server PROVE h[s][i][v][1] = (a(s) + m(s)) % Word
    OBVIOUS
  <2>1. h[s][i][v][1] = Reshared(s, c, h, i, v)
    BY <1>1 DEF Follows, SentAt, Exchanges
  <2> QED
    BY <2>1 DEF Reshared
<1>7. (\A s \in Server : m(s) \in Int) /\ Same(m(0) + m(1) + m(2), 0)
  <2> HIDE DEF n
  <2> QED
    BY <1>1, <1>5, MaskSum
<1>8. e[i][v] = IF v \in WrittenIn(plan, i) THEN 2 * e[i - 1][v] ELSE bit[v]
  <2>1. e[i][v] = After(plan[i], e[i - 1], bit, WrittenIn(plan, i), v)
    BY <1>1, <1>3, ValueNumbers
  <2> QED
    BY <2>1 DEF After
<1>9. (\A s \in Server : a(s) \in Int) /\ Same(a(0) + a(1) + a(2), e[i][v])
  <2>1. CASE v \in WrittenIn(plan, i)
    <3> DEFINE x(s) == h[s][i - 1][v][1]
               t == x(0) + x(1) + x(2)
               y == e[i - 1][v]
    <3>1. i - 1 + 1 = i
      BY <1>1, <1>2
    <3>2. AddUp(h, i - 1, v, y)
      BY <1>1, <2>1, <3>1 DEF Adds
    <3>3. (\A s \in Server : x(s) \in Int) /\ Same(t, y)
      BY <3>2 DEF AddUp
    <3>4. a(0) = x(2) + x(0) /\ a(1) = x(0) + x(1) /\ a(2) = x(1) + x(2)
      BY <1>2, <2>1 DEF Held
    <3>5. y \in Int /\ e[i][v] = y * 2
      BY <1>1, <1>3, <1>8, <2>1, ValueNumbers
    <3> HIDE DEF x, a, y
    <3>6. t \in Int /\ a(0) + a(1) + a(2) = t * 2 /\ \A s \in Server : a(s) \in Int
      BY SMTT(40), <1>2, <3>3, <3>4
    <3> HIDE DEF t
    <3>7. Same(t * 2, y * 2)
      BY <3>3, <3>5, <3>6, SameMultiple
    <3> QED
      BY <3>5, <3>6, <3>7
  <2>2. CASE v \notin WrittenIn(plan, i)
    <3>1. \A s \in Server : a(s) = Inputs(s)[v][1][1] + Inputs(s)[v][2][1]
      BY <2>2 DEF Held
    <3>2. v \in Computed(query.kind, LeafCount)
      BY <1>3
    <3> HIDE DEF a
    <3>3. /\ \A s \in Server : Inputs(s)[v][1][1] \in Int /\ Inputs(s)[v][2][1] \in Int
          /\ Same((Inputs(0)[v][1][1] + Inputs(0)[v][2][1])
                    + (Inputs(1)[v][1][1] + Inputs(1)[v][2][1])
                    + (Inputs(2)[v][1][1] + Inputs(2)[v][2][1]), bit[v])
      BY <1>1, <3>2 DEF InputsMean
    <3>4. Same(a(0) + a(1) + a(2), bit[v])
      BY <1>2, <3>1, <3>3
    <3> QED
      BY <1>8, <2>2, <3>1, <3>3, <3>4
  <2> QED
    BY <2>1, <2>2
<1>10. e[i][v] \in Int
  BY <1>1, <1>3, ValueNumbers
<1> DEFINE a0 == a(0)  a1 == a(1)  a2 == a(2)  m0 == m(0)  m1 == m(1)  m2 == m(2)
           x == e[i][v]  zip == 0
<1> HIDE DEF a, m
<1>20. /\ a0 \in Int /\ a1 \in Int /\ a2 \in Int /\ m0 \in Int /\ m1 \in Int /\ m2 \in Int
       /\ x \in Int /\ zip \in Int /\ Same(m0 + m1 + m2, zip) /\ Same(a0 + a1 + a2, x)
  BY <1>2, <1>7, <1>9, <1>10
<1> HIDE DEF a0, a1, a2, m0, m1, m2, x, zip
<1>21. /\ (a0 + m0) % Word \in Int /\ (a1 + m1) % Word \in Int /\ (a2 + m2) % Word \in Int
       /\ Same(((a0 + m0) % Word) + ((a1 + m1) % Word) + ((a2 + m2) % Word), x + zip)
  BY <1>20, WordSum
<1>11. /\ (a(0) + m(0)) % Word \in Int /\ (a(1) + m(1)) % Word \in Int /\ (a(2) + m(2)) % Word \in Int
       /\ Same(((a(0) + m(0)) % Word) + ((a(1) + m(1)) % Word) + ((a(2) + m(2)) % Word),
               e[i][v] + 0)
  BY <1>21 DEF a0, a1, a2, m0, m1, m2, x, zip
<1>12. e[i][v] + 0 = e[i][v]
  BY <1>10
<1> QED
  BY <1>2, <1>6, <1>11, <1>12 DEF AddUp

\* The mask of a combination is that of the last Fill before it.
LEMMA CombineMask ==
  ASSUME NEW c, Counting(c), PlanOK, NEW i \in 1 .. Len(plan), plan[i].op \in {"and", "or"}
  PROVE  \E f \in 1 .. Len(plan) :
           LastFill(plan, f, i) /\ c[f - 1] + (plan[i].row * VectorLen + query.row) \in Nat
<1>1. /\ Len(plan) \in Nat /\ plan \in Seq(InstrSet)
      /\ InstrOK(plan, i, {}, Computed(query.kind, LeafCount))
  BY PlanFacts DEF Piece
<1>2. PICK f \in 1 .. i - 1 : LastFill(plan, f, i)
  BY <1>1 DEF InstrOK, Masked
<1>3. f \in 1 .. Len(plan) /\ f - 1 \in 0 .. Len(plan)
  BY <1>1
<1>4. c[f - 1] \in Nat
  BY <1>3 DEF Counting
<1>5. plan[i].row \in Nat
  BY InstrRegs
<1>6. plan[i].row * VectorLen + query.row \in Nat
  BY <1>5, Sizes
<1> QED
  BY SMTT(40), <1>2, <1>3, <1>4, <1>6

\* What OrFilters adds.
LEMMA OrSum ==
  ASSUME NEW op, NEW x0 \in Int, NEW x1 \in Int, NEW x2 \in Int, NEW x \in Int,
         Same(x0 + x1 + x2, x),
         NEW y0 \in Int, NEW y1 \in Int, NEW y2 \in Int, NEW y \in Int, Same(y0 + y1 + y2, y)
  PROVE  /\ OrTerm(op, x0, y0) \in Int /\ OrTerm(op, x1, y1) \in Int /\ OrTerm(op, x2, y2) \in Int
         /\ OrTerm(op, x, y) \in Int
         /\ Same(OrTerm(op, x0, y0) + OrTerm(op, x1, y1) + OrTerm(op, x2, y2), OrTerm(op, x, y))
<1>1. CASE op = "or"
  <2>1. Same((x0 + x1 + x2) + (y0 + y1 + y2), x + y)
    BY SameAdd
  <2>2. (x0 + x1 + x2) + (y0 + y1 + y2) = (x0 + y0) + (x1 + y1) + (x2 + y2)
    OBVIOUS
  <2> QED
    BY <1>1, <2>1, <2>2 DEF OrTerm
<1>2. CASE op # "or"
  BY <1>2, SameRefl DEF OrTerm
<1> QED
  BY <1>1, <1>2

\* The thirds r of a combination of operands with thirds x and y and masks m.
Combines(op, x, y, m, r) ==
  /\ r[0] = (((LocalProduct(<<x[2], x[0]>>, <<y[2], y[0]>>) + m[0]) % Word)
               + OrTerm(op, x[0], y[0])) % Word
  /\ r[1] = (((LocalProduct(<<x[0], x[1]>>, <<y[0], y[1]>>) + m[1]) % Word)
               + OrTerm(op, x[1], y[1])) % Word
  /\ r[2] = (((LocalProduct(<<x[1], x[2]>>, <<y[1], y[2]>>) + m[2]) % Word)
               + OrTerm(op, x[2], y[2])) % Word

\* Three numbers that add up to a given one.
SumsTo(x, a) ==
  x[0] \in Int /\ x[1] \in Int /\ x[2] \in Int /\ a \in Int /\ Same(x[0] + x[1] + x[2], a)

\* A masked product, and what is added.
LEMMA CombineSum ==
  ASSUME NEW op, NEW x, NEW y, NEW m, NEW r, NEW a, NEW b, Combines(op, x, y, m, r),
         SumsTo(x, a), SumsTo(y, b), SumsTo(m, 0)
  PROVE  SumsTo(r, a * b + OrTerm(op, a, b))
<1> DEFINE x0 == x[0]  x1 == x[1]  x2 == x[2]  y0 == y[0]  y1 == y[1]  y2 == y[2]
           m0 == m[0]  m1 == m[1]  m2 == m[2]  r0 == r[0]  r1 == r[1]  r2 == r[2]
<1>1. /\ x0 \in Int /\ x1 \in Int /\ x2 \in Int /\ a \in Int /\ Same(x0 + x1 + x2, a)
      /\ y0 \in Int /\ y1 \in Int /\ y2 \in Int /\ b \in Int /\ Same(y0 + y1 + y2, b)
      /\ m0 \in Int /\ m1 \in Int /\ m2 \in Int /\ Same(m0 + m1 + m2, 0)
  BY DEF SumsTo
<1>2. /\ r0 = (((LocalProduct(<<x2, x0>>, <<y2, y0>>) + m0) % Word) + OrTerm(op, x0, y0)) % Word
      /\ r1 = (((LocalProduct(<<x0, x1>>, <<y0, y1>>) + m1) % Word) + OrTerm(op, x1, y1)) % Word
      /\ r2 = (((LocalProduct(<<x1, x2>>, <<y1, y2>>) + m2) % Word) + OrTerm(op, x2, y2)) % Word
  BY DEF Combines
<1>3. SumsTo(r, a * b + OrTerm(op, a, b))
      <=> /\ r0 \in Int /\ r1 \in Int /\ r2 \in Int /\ a * b + OrTerm(op, a, b) \in Int
          /\ Same(r0 + r1 + r2, a * b + OrTerm(op, a, b))
  BY DEF SumsTo
<1> HIDE DEF x0, x1, x2, y0, y1, y2, m0, m1, m2, r0, r1, r2
<1> DEFINE p0 == LocalProduct(<<x2, x0>>, <<y2, y0>>)
           p1 == LocalProduct(<<x0, x1>>, <<y0, y1>>)
           p2 == LocalProduct(<<x1, x2>>, <<y1, y2>>)
           t0 == OrTerm(op, x0, y0)  t1 == OrTerm(op, x1, y1)  t2 == OrTerm(op, x2, y2)
           t == OrTerm(op, a, b)  u == a * b  zip == 0
           w0 == (p0 + m0) % Word  w1 == (p1 + m1) % Word  w2 == (p2 + m2) % Word
<1>11. /\ p0 \in Int /\ p1 \in Int /\ p2 \in Int
      /\ p0 + p1 + p2 = (x0 + x1 + x2) * (y0 + y1 + y2)
  BY <1>1, ProductSum
<1>12. u \in Int /\ x0 + x1 + x2 \in Int /\ y0 + y1 + y2 \in Int /\ zip \in Int
  BY <1>1
<1>13. Same((x0 + x1 + x2) * (y0 + y1 + y2), u)
  BY <1>1, <1>12, SameProduct
<1>14. Same(p0 + p1 + p2, u)
  BY <1>11, <1>13
<1>15. /\ t0 \in Int /\ t1 \in Int /\ t2 \in Int /\ t \in Int
      /\ Same(t0 + t1 + t2, t)
  BY <1>1, OrSum
<1>16. Same(m0 + m1 + m2, zip)
  BY <1>1
<1> HIDE DEF p0, p1, p2, t0, t1, t2, t, u, zip
<1>17. w0 \in Int /\ w1 \in Int /\ w2 \in Int /\ Same(w0 + w1 + w2, u + zip)
  <2>1. /\ p0 \in Int /\ p1 \in Int /\ p2 \in Int /\ m0 \in Int /\ m1 \in Int /\ m2 \in Int
        /\ zip \in Int /\ u \in Int /\ Same(m0 + m1 + m2, zip) /\ Same(p0 + p1 + p2, u)
    BY <1>1, <1>11, <1>12, <1>14, <1>16
  <2> QED
    BY ZenonT(60), <2>1, WordSum DEF w0, w1, w2
<1>18. u + zip = u /\ w0 \in Int /\ w1 \in Int /\ w2 \in Int /\ Same(w0 + w1 + w2, u)
  <2>1. u + zip = u
    BY <1>12 DEF zip
  <2> HIDE DEF w0, w1, w2
  <2> QED
    BY <1>17, <2>1
<1> HIDE DEF w0, w1, w2
<1>19. /\ (w0 + t0) % Word \in Int /\ (w1 + t1) % Word \in Int /\ (w2 + t2) % Word \in Int
      /\ Same(((w0 + t0) % Word) + ((w1 + t1) % Word) + ((w2 + t2) % Word), u + t)
  BY ZenonT(60), <1>12, <1>15, <1>18, WordSum
<1>20. r0 = (w0 + t0) % Word /\ r1 = (w1 + t1) % Word /\ r2 = (w2 + t2) % Word
  BY <1>2 DEF w0, w1, w2, t0, t1, t2, p0, p1, p2
<1>21. u + t = a * b + OrTerm(op, a, b) /\ u + t \in Int
  BY <1>12, <1>15 DEF u, t
<1> QED
  BY <1>3, <1>19, <1>20, <1>21

\* A combination: the thirds of the destination add up to what the operands' did.
LEMMA CombineAdds ==
  ASSUME NEW c, NEW h, NEW e, NEW bit, NEW i, StepOf(c, h, e, bit, i),
         plan[i].op \in {"and", "or"}
  PROVE  AddUp(h, i, plan[i].dst, e[i][plan[i].dst])
<1> DEFINE in == plan[i]
           x(q) == h[q][i - 1][in.x][1]
           y(q) == h[q][i - 1][in.y][1]
<1>1. /\ PrfNumbers /\ PlanOK /\ Counting(c) /\ bit \in [Reg -> Int] /\ InputsMean(bit)
      /\ Values(e, bit) /\ i \in 1 .. Len(plan) /\ Adds(h, e, i - 1) /\ Follows(c, h, i)
  BY DEF StepOf
<1>2. /\ Server = {0, 1, 2} /\ Prev(0) = 2 /\ Prev(1) = 0 /\ Prev(2) = 1 /\ Len(plan) \in Nat
  BY <1>1, ServerFacts, PlanFacts
<1>3. /\ in.x \in Reg /\ in.y \in Reg /\ in.dst \in Reg
      /\ in.x \in WrittenIn(plan, i) /\ in.y \in WrittenIn(plan, i)
  <2>1. InstrOK(plan, i, {}, Computed(query.kind, LeafCount))
    BY <1>1, PlanFacts DEF Piece
  <2> QED
    BY <1>1, <2>1, InstrRegs DEF InstrOK
<1>4. PICK f \in 1 .. Len(plan) :
        LastFill(plan, f, i) /\ c[f - 1] + (plan[i].row * VectorLen + query.row) \in Nat
  BY <1>1, CombineMask
<1> DEFINE n == c[f - 1] + (in.row * VectorLen + query.row)
<1>5. \A s \in Server : h[s][i][in.dst][1] = Multiplied(s, c, h, i, f)
  BY <1>1, <1>4 DEF Follows, SentAt, Exchanges
<1>6. i - 1 + 1 = i
  BY <1>1, <1>2
<1>7. AddUp(h, i - 1, in.x, e[i - 1][in.x]) /\ AddUp(h, i - 1, in.y, e[i - 1][in.y])
  BY <1>1, <1>3, <1>6 DEF Adds
<1>8. e[i][in.dst] = e[i - 1][in.x] * e[i - 1][in.y] + OrTerm(in.op, e[i - 1][in.x], e[i - 1][in.y])
  <2>1. e[i][in.dst] = After(plan[i], e[i - 1], bit, WrittenIn(plan, i), in.dst)
    <3> DEFINE d == in.dst
    <3>1. d \in Reg
      BY <1>3
    <3> HIDE DEF d, x, y
    <3>2. e[i][d] = After(plan[i], e[i - 1], bit, WrittenIn(plan, i), d)
      BY <1>1, <3>1, ValueNumbers
    <3> QED
      BY <3>2 DEF d
  <2> QED
    BY <2>1 DEF After
<1> DEFINE X == [s \in Server |-> x(s)]  Y == [s \in Server |-> y(s)]
           a == e[i - 1][in.x]  b == e[i - 1][in.y]
           M == [s \in Server |-> MaskAt(s, n)]
           R == [s \in Server |-> h[s][i][in.dst][1]]
<1>9. SumsTo(X, a) /\ SumsTo(Y, b)
  <2>1. a \in Int /\ b \in Int
    BY <1>1, <1>3, ValueNumbers
  <2> QED
    BY ZenonT(60), <1>2, <1>7, <2>1 DEF AddUp, SumsTo
<1>10. SumsTo(M, 0)
  <2> HIDE DEF n
  <2>1. n \in Nat
    BY <1>4 DEF n
  <2>2. /\ MaskAt(0, n) \in Int /\ MaskAt(1, n) \in Int /\ MaskAt(2, n) \in Int
        /\ Same(MaskAt(0, n) + MaskAt(1, n) + MaskAt(2, n), 0)
    BY ZenonT(60), <1>1, <1>2, <2>1, MaskSum
  <2> QED
    BY <1>2, <2>2 DEF SumsTo
<1>11. Combines(in.op, X, Y, M, R)
  BY ZenonT(60), <1>2, <1>5 DEF Multiplied, Combines
<1>12. e[i][in.dst] = a * b + OrTerm(in.op, a, b)
  BY <1>8
<1>13. SumsTo(R, e[i][in.dst]) => AddUp(h, i, in.dst, e[i][in.dst])
  BY ZenonT(60), <1>2 DEF AddUp, SumsTo
<1> HIDE DEF X, Y, M, R, a, b
<1>14. SumsTo(R, a * b + OrTerm(in.op, a, b))
  BY <1>9, <1>10, <1>11, CombineSum
<1> QED
  BY <1>12, <1>13, <1>14

\* Any instruction: what is written adds up.
LEMMA AddsStep ==
  ASSUME NEW c, NEW h, NEW e, NEW bit, NEW i, StepOf(c, h, e, bit, i)
  PROVE  Adds(h, e, i)
<1>1. /\ PlanOK /\ Values(e, bit) /\ i \in 1 .. Len(plan) /\ Adds(h, e, i - 1) /\ Follows(c, h, i)
  BY DEF StepOf
<1>2. Len(plan) \in Nat /\ i - 1 + 1 = i /\ WrittenIn(plan, i) \subseteq Reg
  BY <1>1, PlanFacts, WrittenReg
<1> DEFINE Out == IF plan[i].op \in Exchanges THEN Outputs(plan[i]) ELSE {}
<1>3. WrittenIn(plan, i + 1) = WrittenIn(plan, i) \cup Out
  BY <1>1, <1>2, WrittenStep
<1>4. ASSUME NEW v \in Out
      PROVE  AddUp(h, i, v, e[i][v])
  <2>1. plan[i].op \in Exchanges /\ v \in Outputs(plan[i])
    BY <1>4
  <2>2. CASE plan[i].op = "reshare"
    <3>1. v \in Range(plan[i].regs)
      BY <2>1, <2>2 DEF Outputs
    <3> QED
      BY <2>2, <3>1, ReshareAdds
  <2>3. CASE plan[i].op \in {"and", "or"}
    <3>1. v = plan[i].dst
      BY <2>1, <2>3 DEF Outputs
    <3> QED
      BY <2>3, <3>1, CombineAdds
  <2> QED
    BY <2>1, <2>2, <2>3 DEF Exchanges
<1>5. ASSUME NEW v \in WrittenIn(plan, i), v \notin Out
      PROVE  AddUp(h, i, v, e[i][v])
  <2>1. v \in Reg
    BY <1>2
  <2>2. \A s \in Server : h[s][i][v] = h[s][i - 1][v]
    BY <1>1, <1>5, <2>1 DEF Follows
  <2>3. AddUp(h, i - 1, v, e[i - 1][v])
    BY <1>1, <1>2 DEF Adds
  <2>4. e[i][v] = After(plan[i], e[i - 1], bit, WrittenIn(plan, i), v)
    BY <1>1, <2>1, ValueNumbers
  <2>5. e[i][v] = e[i - 1][v]
    BY <1>5, <2>4 DEF After, Outputs, Exchanges
  <2> QED
    BY <2>2, <2>3, <2>5, ServerFacts DEF AddUp
<1> QED
  BY <1>3, <1>4, <1>5 DEF Adds

\* Once the servers have run their plans, all instructions have left what they sent.
LEMMA AllFollow ==
  ASSUME Base, NEW c, NEW h, HistoryOK(h), \A s \in Server : SentOK(s, c, h),
         \A s \in Server : pc[s] = Len(plan) + 1, NEW i \in 1 .. Len(plan)
  PROVE  Follows(c, h, i)
<1>1. Len(plan) \in Nat /\ i \in Nat \ {0} /\ i <= Len(plan)
  BY PlanFacts DEF Base
<1>2. ASSUME NEW s \in Server
      PROVE  ExIn(plan, i) <= published[s]
  <2>1. /\ finished[s] = ExIn(plan, pc[s] - 1) /\ (AtRest(s) \/ Mid(s))
        /\ finished[s] \in Nat /\ published[s] \in Nat
    BY DEF Base, PaceOK, DomainsOK
  <2>2. pc[s] - 1 = Len(plan)
    BY <1>1
  <2>3. ExIn(plan, i) <= ExIn(plan, Len(plan)) /\ ExIn(plan, Len(plan)) \in Nat
        /\ ExIn(plan, i) \in Nat
    BY <1>1, ExGrows
  <2> QED
    BY <2>1, <2>2, <2>3 DEF AtRest, Mid
<1>3. ASSUME NEW s \in Server, NEW v \in Reg, ~(plan[i].op \in Exchanges /\ v \in Outputs(plan[i]))
      PROVE  h[s][i][v] = h[s][i - 1][v]
  <2>1. h[s][i][v] = Third(Columns, plan[i], outbox[s][ExIn(plan, i)], h[s][i - 1], v)
    BY <1>2 DEF HistoryOK, HistoryOf
  <2>2. ~(plan[i].op = "reshare" /\ v \in Range(plan[i].regs))
        /\ ~(plan[i].op \in {"and", "or"} /\ v = plan[i].dst)
    BY <1>3 DEF Exchanges, Outputs
  <2> QED
    BY <2>1, <2>2 DEF Third
<1>4. ASSUME NEW s \in Server, plan[i].op \in Exchanges
      PROVE  SentAt(s, c, h, i)
  BY <1>2, <1>4 DEF SentOK
<1> QED
  BY <1>3, <1>4 DEF Follows

\* Then the thirds of every vector that the plan writes add up to its value.
LEMMA AddsAll ==
  ASSUME PrfNumbers, PlanOK, NEW c, Counting(c), NEW h, NEW e, NEW bit \in [Reg -> Int],
         InputsMean(bit), Values(e, bit), \A i \in 1 .. Len(plan) : Follows(c, h, i)
  PROVE  Adds(h, e, Len(plan))
<1> DEFINE N == Len(plan)
           S == {i \in 0 .. N : Adds(h, e, i)}
<1>1. N \in Nat
  BY PlanFacts
<1>2. 0 \in S
  <2>1. WrittenIn(plan, 0 + 1) = {}
    BY WrittenNone
  <2>2. Adds(h, e, 0)
    BY <2>1 DEF Adds
  <2> QED
    BY <1>1, <2>2
<1>3. ASSUME NEW n \in 0 .. N - 1, n \in S
      PROVE  n + 1 \in S
  <2> DEFINE i == n + 1
  <2>1. i \in 1 .. N /\ i - 1 = n /\ i \in 0 .. N
    BY <1>1
  <2>2. Adds(h, e, n)
    BY <1>3
  <2> HIDE DEF i
  <2>3. StepOf(c, h, e, bit, i)
    BY <2>1, <2>2 DEF StepOf
  <2>4. Adds(h, e, i)
    BY <2>3, AddsStep
  <2>5. i \in S
    BY <2>1, <2>4
  <2> QED
    BY <2>5 DEF i
<1> HIDE DEF S
<1>4. 0 .. N \subseteq S
  BY <1>1, <1>2, <1>3, BoundedInduction
<1>5. N \in S
  BY <1>1, <1>4
<1> QED
  BY <1>5 DEF S

\* A sequence and one element more.
LEMMA AppendIs ==
  ASSUME NEW S, NEW t \in Seq(S), NEW e \in S, NEW u \in Seq(S), Len(u) = Len(t) + 1,
         \A i \in 1 .. Len(t) : u[i] = t[i], u[Len(t) + 1] = e
  PROVE  Append(t, e) = u
<1> DEFINE r == Append(t, e)
<1>1. /\ r \in Seq(S) /\ Len(t) \in Nat /\ Len(r) = Len(t) + 1
      /\ \A i \in 1 .. Len(t) : r[i] = t[i]
      /\ r[Len(t) + 1] = e
  OBVIOUS
<1> HIDE DEF r
<1>2. ASSUME NEW i \in 1 .. Len(r)
      PROVE  r[i] = u[i]
  <2>1. i \in 1 .. Len(t) \/ i = Len(t) + 1
    BY <1>1
  <2> QED
    BY <1>1, <2>1
<1>3. r = u
  BY <1>1, <1>2, SeqEqual
<1> QED
  BY <1>3 DEF r

\* Longer tuples.
LEMMA AppendTwo ==
  ASSUME NEW a, NEW b, NEW c
  PROVE  Append(<<a, b>>, c) = <<a, b, c>>
<1> DEFINE S == {a, b, c}  t == <<a, b>>  u == <<a, b, c>>
<1>1. t \in Seq(S) /\ c \in S /\ u \in Seq(S) /\ Len(u) = Len(t) + 1
      /\ u[Len(t) + 1] = c
  OBVIOUS
<1>2. \A i \in 1 .. Len(t) : u[i] = t[i]
  <2>1. \A i \in 1 .. Len(t) : i = 1 \/ i = 2
    OBVIOUS
  <2> QED
    BY <2>1
<1> HIDE DEF S, t, u
<1>4. Append(t, c) = u
  BY <1>1, <1>2, AppendIs
<1> QED
  BY <1>4 DEF t, u

\* Tags are sequences of four elements,
LEMMA AppendThree ==
  ASSUME NEW a, NEW b, NEW c, NEW d
  PROVE  Append(<<a, b, c>>, d) = <<a, b, c, d>>
<1> DEFINE S == {a, b, c, d}  t == <<a, b, c>>  u == <<a, b, c, d>>
<1>1. t \in Seq(S) /\ d \in S /\ u \in Seq(S) /\ Len(u) = Len(t) + 1
      /\ u[Len(t) + 1] = d
  OBVIOUS
<1>2. \A i \in 1 .. Len(t) : u[i] = t[i]
  <2>1. \A i \in 1 .. Len(t) : i = 1 \/ i = 2 \/ i = 3
    OBVIOUS
  <2> QED
    BY <2>1
<1> HIDE DEF S, t, u
<1>4. Append(t, d) = u
  BY <1>1, <1>2, AppendIs
<1> QED
  BY <1>4 DEF t, u

\* or of five.
LEMMA ConcatTwo ==
  ASSUME NEW a, NEW b, NEW c, NEW d, NEW e
  PROVE  <<a, b, c>> \o <<d, e>> = <<a, b, c, d, e>>
<1> DEFINE S == {a, b, c, d, e}  t == <<a, b, c>>  z == <<d, e>>  u == <<a, b, c, d, e>>
           r == t \o z
<1>1. t \in Seq(S) /\ z \in Seq(S) /\ Len(t) = 3 /\ Len(z) = 2 /\ u \in Seq(S) /\ Len(u) = 5
  OBVIOUS
<1>2. /\ u[1] = t[1] /\ u[2] = t[2] /\ u[3] = t[3] /\ u[4] = z[1] /\ u[5] = z[2]
  OBVIOUS
<1> HIDE DEF S, t, u, z
<1>3. /\ r \in Seq(S) /\ Len(r) = 5
      /\ \A i \in 1 .. 3 : r[i] = t[i]
      /\ \A i \in 1 .. 2 : r[3 + i] = z[i]
  <2>1. /\ r \in Seq(S) /\ Len(r) = Len(t) + Len(z)
        /\ \A i \in 1 .. Len(t) + Len(z) : r[i] = IF i <= Len(t) THEN t[i] ELSE z[i - Len(t)]
    BY <1>1, ConcatProperties
  <2> HIDE DEF r
  <2> QED
    BY <1>1, <2>1
<1> HIDE DEF r
<1>4. r[1] = t[1] /\ r[2] = t[2] /\ r[3] = t[3] /\ r[4] = z[1] /\ r[5] = z[2]
  <2>1. r[3 + 1] = z[1] /\ r[3 + 2] = z[2]
    BY <1>3
  <2> QED
    BY <1>3, <2>1
<1>5. \A i \in 1 .. 5 : i = 1 \/ i = 2 \/ i = 3 \/ i = 4 \/ i = 5
  OBVIOUS
<1>6. \A i \in 1 .. Len(r) : r[i] = u[i]
  BY <1>2, <1>3, <1>4, <1>5
<1>7. r = u
  BY <1>1, <1>3, <1>6, SeqEqual
<1> QED
  BY <1>7 DEF r, t, z, u

\* The random words of the client are numbers.
Names == {"value", "onehot", "block", "offset"}

RandNumbers ==
  \A q \in Requests : \A seed \in {q.seed} \cup {q.clock[j] : j \in 0 .. 2} :
    \A a \in Names, i, j, k, l \in Nat :
      /\ Rand(seed, <<a, i, j>>) \in Int
      /\ Rand(seed, <<a, i, j, k>>) \in Int
      /\ Rand(seed, <<a, i, j, k, l>>) \in Int

\* The three shares of a number add up to it.
LEMMA SplitSum ==
  ASSUME RandNumbers, PlanOK, NEW x \in Int, NEW a \in Names, NEW i \in Nat
  PROVE  LET t == <<a, i>> IN
         /\ Split(x, t, 0) \in Int /\ Split(x, t, 1) \in Int /\ Split(x, t, 2) \in Int
         /\ Same(Split(x, t, 0) + Split(x, t, 1) + Split(x, t, 2), x)
<1> DEFINE t == <<a, i>>
           r0 == Rand(query.seed, <<a, i, 0>>)
           r1 == Rand(query.seed, <<a, i, 1>>)
<1>1. query \in Requests
  BY DEF PlanOK
<1>2. r0 \in Int /\ r1 \in Int
  BY <1>1 DEF RandNumbers
<1>3. Append(t, 0) = <<a, i, 0>> /\ Append(t, 1) = <<a, i, 1>>
  BY AppendTwo
<1> HIDE DEF t
<1>4. Split(x, t, 0) = r0 /\ Split(x, t, 1) = r1 /\ Split(x, t, 2) = (x - r0 - r1) % Word
  <2>1. 0 < 2 /\ 1 < 2 /\ ~(2 < 2)
    OBVIOUS
  <2> QED
    BY <1>3, <2>1 DEF Split
<1> HIDE DEF r0, r1
<1> DEFINE y == x - r0 - r1  w == y % Word  r == r0 + r1
<1>5. y \in Int /\ r \in Int /\ r + y = x
  BY <1>2
<1> HIDE DEF y
<1>6. w \in Int /\ Same(w, y)
  BY <1>5, SameWord
<1>7. Same(r, r)
  BY <1>5, SameRefl
<1> HIDE DEF w, r
<1>8. Same(r + w, r + y)
  BY <1>5, <1>6, <1>7, SameAdd
<1>9. Same(r0 + r1 + w, x)
  BY <1>5, <1>8 DEF r
<1> QED
  BY <1>2, <1>4, <1>6, <1>9 DEF w, y, t

\* The responses add up to the product of the row's value and of the filter's.
LEMMA AnswersAdd ==
  ASSUME RandNumbers, PrfNumbers, AnswersInv, \A s \in Server : answer[s] # NoResult,
         query.value \in Int, NEW bit \in [Reg -> Int], InputsMean(bit), NEW e, Values(e, bit)
  PROVE  /\ SumOf("agg", 1) \in Int
         /\ e[Len(plan)][FilterReg(query.kind)] \in Int
         /\ Same(SumOf("agg", 1), query.value * e[Len(plan)][FilterReg(query.kind)])
<1> DEFINE N == Len(plan)
           F == FilterReg(query.kind)
           x == query.value  y == e[N][F]
<1>1. Base /\ PlanOK /\ N \in Nat
  BY PlanFacts DEF AnswersInv, BaseInv, Base
<1>2. PICK c, h : Counting(c) /\ HistoryOK(h) /\ \A s \in Server : ServerExact(s, c, h)
  BY DEF AnswersInv, ExactInv
<1>3. \A s \in Server : answer[s].agg[1] = AnswerFrom(s, h) /\ pc[s] = N + 1 /\ SentOK(s, c, h)
  BY <1>2 DEF ServerExact, AnswerOK
<1>4. Adds(h, e, N)
  <2>1. \A i \in 1 .. N : Follows(c, h, i)
    BY <1>1, <1>2, <1>3, AllFollow
  <2> QED
    BY <1>1, <1>2, <2>1, AddsAll
<1>5. F \in WrittenIn(plan, N + 1) /\ F \in Reg
  BY <1>1, FilterWritten, WrittenReg
<1>6. AddUp(h, N, F, y)
  BY <1>4, <1>5 DEF Adds
<1>7. x \in Int /\ y \in Int
  <2>1. N \in 0 .. N /\ e \in [0 .. N -> [Reg -> Int]]
    BY <1>1 DEF Values
  <2>2. e[N] \in [Reg -> Int]
    BY <2>1
  <2> QED
    BY <1>5, <2>2
<1>8. Server = {0, 1, 2} /\ Prev(0) = 2 /\ Prev(1) = 0 /\ Prev(2) = 1
  BY ServerFacts
<1> DEFINE t == <<"value", 0>>
           v0 == Split(x, t, 0)  v1 == Split(x, t, 1)  v2 == Split(x, t, 2)
           f(s) == h[s][N][F][1]
           f0 == f(0)  f1 == f(1)  f2 == f(2)
           a0 == answer[0].agg[1]  a1 == answer[1].agg[1]  a2 == answer[2].agg[1]
           p0 == LocalProduct(<<v0, v1>>, <<f2, f0>>)
           p1 == LocalProduct(<<v1, v2>>, <<f0, f1>>)
           p2 == LocalProduct(<<v2, v0>>, <<f1, f2>>)
<1>9. /\ v0 \in Int /\ v1 \in Int /\ v2 \in Int /\ Same(v0 + v1 + v2, x)
  <2>1. "value" \in Names
    BY DEF Names
  <2> QED
    BY <1>1, <1>7, <2>1, SplitSum
<1>10. f0 \in Int /\ f1 \in Int /\ f2 \in Int /\ Same(f0 + f1 + f2, y)
  BY <1>6, <1>8 DEF AddUp
<1>11. a0 = p0 % Word /\ a1 = p1 % Word /\ a2 = p2 % Word
  <2>1. /\ ValueShare(0, 0) = v0 /\ ValueShare(0, 1) = v1
        /\ ValueShare(1, 0) = v1 /\ ValueShare(1, 1) = v2
        /\ ValueShare(2, 0) = v2 /\ ValueShare(2, 1) = v0
    <3>1. (0 + 0) % 3 = 0 /\ (0 + 1) % 3 = 1 /\ (1 + 0) % 3 = 1 /\ (1 + 1) % 3 = 2
          /\ (2 + 0) % 3 = 2 /\ (2 + 1) % 3 = 0
      OBVIOUS
    <3> QED
      BY <3>1 DEF ValueShare
  <2> HIDE DEF v0, v1, v2
  <2> QED
    BY <1>3, <1>8, <2>1 DEF AnswerFrom
<1> DEFINE V == v0 + v1 + v2  W == f0 + f1 + f2
<1>12. /\ p0 \in Int /\ p1 \in Int /\ p2 \in Int
       /\ p0 + p1 + p2 = V * W /\ V \in Int /\ W \in Int
  <2> HIDE DEF v0, v1, v2, f0, f1, f2
  <2> QED
    BY <1>9, <1>10 DEF LocalProduct
<1> HIDE DEF v0, v1, v2, f0, f1, f2, p0, p1, p2, x, y, V, W
<1>13. Same(V * W, x * y) /\ x * y \in Int
  BY <1>7, <1>9, <1>10, <1>12, SameProduct DEF V, W
<1> DEFINE w0 == p0 % Word  w1 == p1 % Word  w2 == p2 % Word  sum == w0 + w1 + w2  p == p0 + p1 + p2
<1>14. /\ w0 \in Int /\ Same(w0, p0)
       /\ w1 \in Int /\ Same(w1, p1)
       /\ w2 \in Int /\ Same(w2, p2)
  BY <1>12, SameWord
<1>15. Same(sum, p) /\ sum \in Int /\ p \in Int
  <2> HIDE DEF w0, w1, w2
  <2> QED
    BY <1>12, <1>14, SameThree
<1>16. SumOf("agg", 1) = sum % Word
  BY <1>11 DEF SumOf
<1> HIDE DEF sum
<1>17. sum % Word \in Int /\ Same(sum % Word, sum)
  BY <1>15, SameWord
<1>18. Same(sum % Word, p)
  BY <1>15, <1>17, SameTrans
<1>19. Same(sum % Word, x * y)
  BY <1>12, <1>13, <1>15, <1>17, <1>18, SameTrans
<1> QED
  BY <1>7, <1>16, <1>17, <1>19 DEF x, y

-----------------------------------------------------------------------------
(* What the plans compute.                                                 *)

\* The written vectors and the values of all.
States == [w : SUBSET Reg, b : [Reg -> Int]]

\* What instruction in makes of s.
Does(in, bit, s, t) ==
  /\ t.w = s.w \cup (IF in.op \in Exchanges THEN Outputs(in) ELSE {})
  /\ \A v \in Reg : t.b[v] = After(in, s.b, bit, s.w, v)

Passed(seq, bit, g) ==
  /\ g \in [0 .. Len(seq) -> States]
  /\ \A i \in 1 .. Len(seq) : Does(seq[i], bit, g[i - 1], g[i])

\* What the instructions of seq make of s.
Leads(seq, bit, s, t) == \E g : Passed(seq, bit, g) /\ g[0] = s /\ g[Len(seq)] = t

\* One sequence after the other.
LEMMA LeadsConcat ==
  ASSUME NEW a \in Seq(InstrSet), NEW b \in Seq(InstrSet), NEW bit, NEW s, NEW t,
         Leads(a \o b, bit, s, t)
  PROVE  \E u \in States : Leads(a, bit, s, u) /\ Leads(b, bit, u, t)
<1> DEFINE c == a \o b  n == Len(a)  m == Len(b)
<1>1. n \in Nat /\ m \in Nat
  OBVIOUS
<1>2. /\ c \in Seq(InstrSet) /\ Len(c) = n + m
      /\ \A i \in 1 .. n + m : c[i] = IF i <= n THEN a[i] ELSE b[i - n]
  BY <1>1, ConcatProperties
<1>3. /\ \A i \in 1 .. n : i \in 1 .. n + m /\ c[i] = a[i]
      /\ \A i \in 1 .. m : n + i \in 1 .. n + m /\ c[n + i] = b[i]
  BY <1>1, <1>2
<1>4. PICK g : Passed(c, bit, g) /\ g[0] = s /\ g[Len(c)] = t
  BY DEF Leads
<1> HIDE DEF c
<1> DEFINE p == [i \in 0 .. n |-> g[i]]
           q == [i \in 0 .. m |-> g[n + i]]
<1>5. g \in [0 .. n + m -> States] /\ \A i \in 1 .. n + m : Does(c[i], bit, g[i - 1], g[i])
  BY <1>2, <1>4 DEF Passed
<1>6. Passed(a, bit, p) /\ p[0] = s
  <2>1. p \in [0 .. n -> States]
    BY <1>1, <1>5
  <2>2. ASSUME NEW i \in 1 .. n
        PROVE  Does(a[i], bit, p[i - 1], p[i])
    <3>1. i - 1 \in 0 .. n /\ i \in 0 .. n
      BY <1>1
    <3>2. p[i - 1] = g[i - 1] /\ p[i] = g[i]
      BY <3>1
    <3> QED
      BY <1>3, <1>5, <3>2
  <2>3. p[0] = s
    BY <1>1, <1>4
  <2> HIDE DEF p
  <2> QED
    BY <1>1, <2>1, <2>2, <2>3 DEF Passed
<1>7. Passed(b, bit, q) /\ q[m] = t
  <2>1. q \in [0 .. m -> States]
    BY <1>1, <1>5
  <2>2. ASSUME NEW i \in 1 .. m
        PROVE  Does(b[i], bit, q[i - 1], q[i])
    <3>1. i - 1 \in 0 .. m /\ i \in 0 .. m /\ (n + i) - 1 = n + (i - 1)
      BY <1>1
    <3>2. q[i - 1] = g[n + (i - 1)] /\ q[i] = g[n + i]
      BY <3>1
    <3>3. Does(c[n + i], bit, g[(n + i) - 1], g[n + i])
      BY <1>3, <1>5
    <3> QED
      BY <1>3, <3>1, <3>2, <3>3
  <2>3. q[m] = g[n + m]
    BY <1>1
  <2>4. q[m] = t
    BY <1>2, <1>4, <2>3
  <2> HIDE DEF q
  <2> QED
    BY <2>1, <2>2, <2>4 DEF Passed
<1>8. p[n] = g[n] /\ q[0] = g[n] /\ g[n] \in States
  BY <1>1, <1>5
<1>9. Leads(a, bit, s, g[n])
  <2> HIDE DEF p, q
  <2> QED
    BY <1>6, <1>8 DEF Leads
<1>10. Leads(b, bit, g[n], t)
  <2> HIDE DEF p, q
  <2> QED
    BY <1>7, <1>8 DEF Leads
<1> QED
  BY <1>8, <1>9, <1>10

\* No instruction.
LEMMA LeadsEmpty ==
  ASSUME NEW bit, NEW s, NEW t, Leads(<<>>, bit, s, t)
  PROVE  s = t
BY DEF Leads

\* One instruction.
LEMMA LeadsOne ==
  ASSUME NEW in, NEW bit, NEW s, NEW t, Leads(<<in>>, bit, s, t)
  PROVE  Does(in, bit, s, t)
<1>1. PICK g : Passed(<<in>>, bit, g) /\ g[0] = s /\ g[1] = t
  BY DEF Leads
<1>2. 1 \in 1 .. Len(<<in>>) /\ <<in>>[1] = in /\ 1 - 1 = 0
  OBVIOUS
<1> QED
  BY <1>1, <1>2 DEF Passed

\* Sequence after sequence, through the states of m.
Through(seqs, bit, m, k, s, t) ==
  /\ m \in [0 .. k -> States] /\ m[0] = s /\ m[k] = t
  /\ \A i \in 1 .. k : Leads(seqs[i], bit, m[i - 1], m[i])

\* A sequence of sequences of instructions is done one by one.
LEMMA LeadsFlatten ==
  ASSUME NEW N \in Nat \ {0}, NEW seqs, Len(seqs) = N, \A i \in 1 .. N : seqs[i] \in Seq(InstrSet),
         NEW bit, NEW s \in States, NEW t \in States, Leads(FlattenSeq(seqs), bit, s, t)
  PROVE  \E m : Through(seqs, bit, m, N, s, t)
<1>1. PICK h \in [0 .. N -> Seq(InstrSet)] : IsJoin(h, N, seqs) /\ FlattenSeq(seqs) = h[N]
  BY FlattenJoins
<1> DEFINE T == {k \in 0 .. N : \A u \in States : Leads(h[k], bit, s, u) =>
                                  \E m : Through(seqs, bit, m, k, s, u)}
<1>2. 0 \in T
  <2>1. ASSUME NEW u \in States, Leads(h[0], bit, s, u)
        PROVE  \E m : Through(seqs, bit, m, 0, s, u)
    <3>1. h[0] = <<>>
      BY <1>1 DEF IsJoin
    <3>2. s = u
      BY <2>1, <3>1, LeadsEmpty
    <3> DEFINE m == [i \in 0 .. 0 |-> s]
    <3>3. m \in [0 .. 0 -> States] /\ m[0] = s
      OBVIOUS
    <3> HIDE DEF m
    <3>4. Through(seqs, bit, m, 0, s, u)
      BY <3>2, <3>3 DEF Through
    <3> QED
      BY <3>4
  <2> QED
    BY <2>1
<1>3. ASSUME NEW k \in 0 .. N - 1, k \in T
      PROVE  k + 1 \in T
  <2> DEFINE j == k + 1
  <2>1. j \in 1 .. N /\ j - 1 = k /\ j \in 0 .. N /\ k \in 0 .. N /\ k \in Nat
        /\ k \in 0 .. j /\ 0 .. k \subseteq 0 .. j
    OBVIOUS
  <2>2. \A u \in States : Leads(h[k], bit, s, u) => \E m : Through(seqs, bit, m, k, s, u)
    BY <1>3
  <2> HIDE DEF j, T
  <2>3. ASSUME NEW u \in States, Leads(h[j], bit, s, u)
        PROVE  \E m : Through(seqs, bit, m, j, s, u)
    <3>1. h[j] = h[k] \o seqs[j] /\ h[k] \in Seq(InstrSet) /\ seqs[j] \in Seq(InstrSet)
      BY <1>1, <2>1 DEF IsJoin
    <3>2. PICK x \in States : Leads(h[k], bit, s, x) /\ Leads(seqs[j], bit, x, u)
      BY <2>3, <3>1, LeadsConcat
    <3>3. PICK m : Through(seqs, bit, m, k, s, x)
      BY <2>2, <3>2
    <3>30. /\ m \in [0 .. k -> States] /\ m[0] = s /\ m[k] = x
           /\ \A i \in 1 .. k : Leads(seqs[i], bit, m[i - 1], m[i])
      BY <3>3 DEF Through
    <3> DEFINE r == [i \in 0 .. j |-> IF i <= k THEN m[i] ELSE u]
    <3>4. r \in [0 .. j -> States] /\ r[0] = s /\ r[j] = u /\ \A i \in 0 .. k : r[i] = m[i]
      BY <2>1, <3>30 DEF j
    <3> HIDE DEF r
    <3>5. ASSUME NEW i \in 1 .. j
          PROVE  Leads(seqs[i], bit, r[i - 1], r[i])
      <4>1. CASE i = j
        <5>1. r[i - 1] = x /\ r[i] = u
          BY <2>1, <3>30, <3>4, <4>1
        <5> QED
          BY <3>2, <4>1, <5>1
      <4>2. CASE i # j
        <5>1. i \in 1 .. k /\ i - 1 \in 0 .. k /\ i \in 0 .. k
          BY <2>1, <4>2 DEF j
        <5>2. r[i - 1] = m[i - 1] /\ r[i] = m[i]
          BY <3>4, <5>1
        <5> QED
          BY <3>30, <5>1, <5>2
      <4> QED
        BY <4>1, <4>2
    <3>6. Through(seqs, bit, r, j, s, u)
      BY <3>4, <3>5 DEF Through
    <3> QED
      BY <3>6
  <2> QED
    BY <2>1, <2>3 DEF j, T
<1> HIDE DEF T
<1>4. 0 .. N \subseteq T
  BY <1>2, <1>3, BoundedInduction
<1>5. N \in T
  BY <1>4
<1> QED
  BY <1>1, <1>5 DEF T

BitOf(cond) == IF cond THEN 1 ELSE 0

\* What the first m of the truth values x are together.
Joined(op, x, m) ==
  BitOf(IF op = "and" THEN \A j \in 1 .. m : x[j] = 1 ELSE \E j \in 1 .. m : x[j] = 1)

AtMostOne(x, m) == \A i, j \in 1 .. m : x[i] = 1 /\ x[j] = 1 => i = j

\* The truth values of the vectors regs; OR is used where at most one holds.
Joinable(op, regs, x, s) ==
  /\ op \in {"and", "or"} /\ regs \in Seq(Reg) /\ Len(regs) \in Nat \ {0} /\ s \in States
  /\ \A j \in 2 .. Len(regs) : regs[j] # regs[1]
  /\ \A j \in 1 .. Len(regs) : x[j] \in {0, 1} /\ s.b[regs[j]] = x[j]
  /\ op = "or" => AtMostOne(x, Len(regs))

\* Their first one has become what they are together; nothing else has changed.
Joins(op, regs, x, s, t) ==
  /\ t.b[regs[1]] = Joined(op, x, Len(regs))
  /\ \A v \in Reg : v # regs[1] => t.b[v] = s.b[v]
  /\ t.w \subseteq s.w \cup {regs[1]}

\* The values after a combination, by AndFilters or OrFilters.
LEMMA JoinedStep ==
  ASSUME NEW op \in {"and", "or"}, NEW x, NEW m \in Nat \ {0},
         \A j \in 1 .. m + 1 : x[j] \in {0, 1}, op = "or" => AtMostOne(x, m + 1)
  PROVE  Joined(op, x, m) * x[m + 1] + OrTerm(op, Joined(op, x, m), x[m + 1])
           = Joined(op, x, m + 1)
<1> DEFINE k == m + 1
<1>1. k \in 1 .. k /\ \A j \in 1 .. m : j \in 1 .. k /\ j # k
  OBVIOUS
<1>2. \A j \in 1 .. k : j \in 1 .. m \/ j = k
  OBVIOUS
<1>3. x[k] \in {0, 1}
  BY <1>1
<1>4. CASE op = "and"
  <2> HIDE DEF k
  <2>1. (\A j \in 1 .. k : x[j] = 1) <=> (\A j \in 1 .. m : x[j] = 1) /\ x[k] = 1
    BY <1>1, <1>2
  <2>2. Joined(op, x, m) \in {0, 1} /\ OrTerm(op, Joined(op, x, m), x[k]) = 0
    BY <1>4 DEF Joined, BitOf, OrTerm
  <2>3. Joined(op, x, m) * x[k] = Joined(op, x, k)
    BY <1>3, <1>4, <2>1 DEF Joined, BitOf
  <2>4. Joined(op, x, k) \in Int
    BY DEF Joined, BitOf
  <2> QED
    BY <2>2, <2>3, <2>4 DEF k
<1>5. CASE op = "or"
  <2> DEFINE a == Joined(op, x, m)
  <2> HIDE DEF k
  <2>1. (\E j \in 1 .. k : x[j] = 1) <=> (\E j \in 1 .. m : x[j] = 1) \/ x[k] = 1
    BY <1>1, <1>2
  <2>2. ~((\E j \in 1 .. m : x[j] = 1) /\ x[k] = 1)
    BY <1>1, <1>5 DEF AtMostOne, k
  <2>3. a \in {0, 1} /\ OrTerm(op, a, x[k]) = a + x[k]
    BY <1>5 DEF Joined, BitOf, OrTerm
  <2>4. a = 0 \/ x[k] = 0
    BY <1>3, <1>5, <2>2 DEF Joined, BitOf
  <2>5. a + x[k] = Joined(op, x, k)
    BY <1>3, <1>5, <2>1, <2>2 DEF Joined, BitOf
  <2> HIDE DEF a
  <2>6. a * x[k] = 0
    BY <1>3, <2>3, <2>4
  <2>7. a + x[k] \in Int
    BY <1>3, <2>3
  <2> QED
    BY <2>3, <2>5, <2>6, <2>7 DEF a, k
<1> QED
  BY <1>4, <1>5

\* A chain of combinations.
LEMMA LeadsChain ==
  ASSUME NEW op, NEW regs, NEW x, NEW s, Joinable(op, regs, x, s),
         NEW body, NEW row, IsChain(body, op, regs, row), NEW bit, NEW t, Leads(body, bit, s, t)
  PROVE  Joins(op, regs, x, s, t)
<1> DEFINE n == Len(regs)  N == n - 1
<1>1. /\ op \in {"and", "or"} /\ regs \in Seq(Reg) /\ n \in Nat \ {0} /\ s \in States
      /\ \A j \in 2 .. n : regs[j] # regs[1]
      /\ \A j \in 1 .. n : x[j] \in {0, 1} /\ s.b[regs[j]] = x[j]
      /\ op = "or" => AtMostOne(x, n)
  BY DEF Joinable
<1>2. PICK g : Passed(body, bit, g) /\ g[0] = s /\ g[Len(body)] = t
  BY DEF Leads
<1>3. /\ Len(body) = N /\ N \in Nat
      /\ \A i \in 1 .. N : Does(body[i], bit, g[i - 1], g[i])
      /\ \A i \in 1 .. N :
           /\ body[i].op = op /\ body[i].x = regs[1] /\ body[i].dst = regs[1]
           /\ body[i].y = regs[i + 1]
  BY <1>1, <1>2 DEF Passed, IsChain
<1>4. \A j \in 1 .. n : regs[j] \in Reg
  BY <1>1
<1> DEFINE Good(i) ==
             /\ g[i].b[regs[1]] = Joined(op, x, i + 1)
             /\ \A v \in Reg : v # regs[1] => g[i].b[v] = s.b[v]
             /\ g[i].w \subseteq s.w \cup {regs[1]}
           T == {i \in 0 .. N : Good(i)}
<1>5. 0 \in T
  <2>1. s.b[regs[1]] = x[1] /\ x[1] \in {0, 1}
    BY <1>1
  <2>2. Joined(op, x, 1) = x[1]
    <3>1. \A j \in 1 .. 1 : j = 1
      OBVIOUS
    <3>2. 1 \in 1 .. 1
      OBVIOUS
    <3> QED
      BY <1>1, <2>1, <3>1, <3>2 DEF Joined, BitOf
  <2>3. Good(0)
    BY <1>2, <2>1, <2>2
  <2> HIDE DEF Good
  <2> QED
    BY <1>3, <2>3
<1>6. ASSUME NEW k \in 0 .. N - 1, k \in T
      PROVE  k + 1 \in T
  <2> DEFINE j == k + 1
  <2>1. j \in 1 .. N /\ j - 1 = k /\ j \in 0 .. N /\ j \in Nat \ {0} /\ j + 1 \in 2 .. n
        /\ j + 1 \in 1 .. n /\ j + 1 <= n
    BY <1>1, <1>3
  <2>2. Good(k)
    BY <1>6
  <2> HIDE DEF T
  <2>3. /\ g[k].b[regs[1]] = Joined(op, x, j)
        /\ \A v \in Reg : v # regs[1] => g[k].b[v] = s.b[v]
        /\ g[k].w \subseteq s.w \cup {regs[1]}
    BY <2>2
  <2> HIDE DEF j, Good
  <2>4. /\ g[j].w = g[k].w \cup {regs[1]}
        /\ \A v \in Reg : g[j].b[v] = After(body[j], g[k].b, bit, g[k].w, v)
    <3>1. Does(body[j], bit, g[k], g[j]) /\ body[j].op \in Exchanges
          /\ Outputs(body[j]) = {regs[1]}
      BY <1>1, <1>3, <2>1 DEF Exchanges, Outputs
    <3> QED
      BY <3>1 DEF Does
  <2>5. \A v \in Reg : v # regs[1] => g[j].b[v] = g[k].b[v]
    BY SMTT(40), <1>1, <1>3, <2>1, <2>4 DEF After
  <2>6. g[j].b[regs[1]] = Joined(op, x, j + 1)
    <3>1. regs[1] \in Reg /\ regs[j + 1] \in Reg /\ regs[j + 1] # regs[1]
      BY <1>1, <1>4, <2>1
    <3>2. g[k].b[regs[j + 1]] = x[j + 1]
      BY <1>1, <2>1, <2>3, <3>1
    <3>3. g[j].b[regs[1]] = g[k].b[regs[1]] * g[k].b[regs[j + 1]]
                              + OrTerm(op, g[k].b[regs[1]], g[k].b[regs[j + 1]])
      BY SMTT(40), <1>1, <1>3, <2>1, <2>4, <3>1 DEF After
    <3>4. /\ \A i \in 1 .. j + 1 : x[i] \in {0, 1}
          /\ op = "or" => AtMostOne(x, j + 1)
      <4>1. \A i \in 1 .. j + 1 : i \in 1 .. n
        BY <1>1, <2>1
      <4> QED
        BY <1>1, <4>1 DEF AtMostOne
    <3>5. Joined(op, x, j) * x[j + 1] + OrTerm(op, Joined(op, x, j), x[j + 1])
            = Joined(op, x, j + 1)
      BY <1>1, <2>1, <3>4, JoinedStep
    <3> QED
      BY <2>3, <3>2, <3>3, <3>5
  <2>7. Good(j)
    BY <2>3, <2>4, <2>5, <2>6 DEF Good
  <2> QED
    BY <2>1, <2>7 DEF j, T
<1>7. N \in T
  <2> HIDE DEF T
  <2>1. 0 .. N \subseteq T
    BY <1>3, <1>5, <1>6, BoundedInduction
  <2> QED
    BY <1>3, <2>1
<1>8. Good(N) /\ N + 1 = n
  BY <1>1, <1>7
<1> QED
  BY <1>2, <1>3, <1>8 DEF Joins

\* A resharing leaves the inputs in vectors that were not written, and a Fill nothing.
LEMMA LeadsReshare ==
  ASSUME NEW regs, NEW bit, NEW s, NEW t, Leads(<<Reshare(regs)>>, bit, s, t)
  PROVE  /\ t.w = s.w \cup Range(regs)
         /\ \A v \in Reg : v \in Range(regs) /\ v \notin s.w => t.b[v] = bit[v]
         /\ \A v \in Reg : v \notin Range(regs) => t.b[v] = s.b[v]
<1> DEFINE in == Reshare(regs)
<1>1. in.op = "reshare" /\ in.regs = regs
  BY DEF Reshare
<1> HIDE DEF in
<1>2. Does(in, bit, s, t)
  BY LeadsOne DEF in
<1> QED
  BY <1>1, <1>2 DEF Does, After, Outputs, Exchanges

\* A Fill changes no value.
LEMMA LeadsFill ==
  ASSUME NEW f, NEW rows, NEW bit, NEW s, NEW t, Leads(<<Fill(f, rows)>>, bit, s, t)
  PROVE  t.w = s.w /\ \A v \in Reg : t.b[v] = s.b[v]
<1> DEFINE in == Fill(f, rows)
<1>1. in.op = "fill"
  BY DEF Fill
<1> HIDE DEF in
<1>2. Does(in, bit, s, t)
  BY LeadsOne DEF in
<1> QED
  BY <1>1, <1>2 DEF Does, After, Exchanges

\* A Fill and a chain.
LEMMA LeadsFilled ==
  ASSUME NEW op, NEW regs, NEW x, NEW s, Joinable(op, regs, x, s), NEW f \in Nat, NEW rows \in Nat,
         NEW row \in Nat, NEW bit, NEW t,
         Leads(<<Fill(f, rows)>> \o Accumulate(op, regs, row), bit, s, t)
  PROVE  Joins(op, regs, x, s, t)
<1>1. op \in {"and", "or"} /\ regs \in Seq(Reg) /\ Len(regs) \in Nat \ {0}
  BY DEF Joinable
<1> DEFINE body == Accumulate(op, regs, row)
<1>2. IsChain(body, op, regs, row)
  BY <1>1, AccumulateSteps
<1>3. <<Fill(f, rows)>> \in Seq(InstrSet)
  <2>1. Fill(f, rows) \in InstrSet
    BY DEF Fill, InstrSet
  <2> QED
    BY <2>1
<1> HIDE DEF body
<1>4. body \in Seq(InstrSet)
  BY <1>2 DEF IsChain
<1>5. PICK u \in States : Leads(<<Fill(f, rows)>>, bit, s, u) /\ Leads(body, bit, u, t)
  BY <1>3, <1>4, LeadsConcat DEF body
<1>6. u.w = s.w /\ \A v \in Reg : u.b[v] = s.b[v]
  BY <1>5, LeadsFill
<1>7. Joinable(op, regs, x, u)
  <2>1. \A j \in 1 .. Len(regs) : regs[j] \in Reg
    BY <1>1
  <2> QED
    BY <1>6, <2>1 DEF Joinable
<1>8. Joins(op, regs, x, u, t)
  BY <1>2, <1>5, <1>7, LeadsChain
<1> QED
  BY <1>6, <1>8 DEF Joins

\* Nothing to combine with.
LEMMA JoinsOne ==
  ASSUME NEW op, NEW regs, NEW x, NEW s, Joinable(op, regs, x, s), Len(regs) = 1
  PROVE  Joins(op, regs, x, s, s)
<1>1. 1 \in 1 .. 1 /\ \A j \in 1 .. 1 : j = 1
  OBVIOUS
<1>2. x[1] \in {0, 1} /\ s.b[regs[1]] = x[1]
  BY <1>1 DEF Joinable
<1>3. Joined(op, x, 1) = x[1]
  BY <1>1, <1>2 DEF Joined, BitOf
<1> QED
  BY <1>2, <1>3 DEF Joins

\* A union of vectors leaves what they are together in the first one.
LEMMA LeadsUnion ==
  ASSUME NEW op, NEW regs, NEW x, NEW s, Joinable(op, regs, x, s), NEW bit, NEW t,
         Leads(Union(op, regs), bit, s, t)
  PROVE  Joins(op, regs, x, s, t)
<1>1. CASE Len(regs) = 1
  <2>1. s = t
    BY <1>1, LeadsEmpty DEF Union
  <2> QED
    BY <1>1, <2>1, JoinsOne
<1>2. CASE Len(regs) # 1
  <2>1. Len(regs) - 1 \in Nat /\ 0 \in Nat
    BY <1>2 DEF Joinable
  <2>2. Leads(<<Fill(0, Len(regs) - 1)>> \o Accumulate(op, regs, 0), bit, s, t)
    BY <1>2 DEF Union
  <2> QED
    BY <2>1, <2>2, LeadsFilled
<1> QED
  BY <1>1, <1>2

\* The vectors of leaves: their blocks and offsets, and those that BOLeaves writes.
Parts(leaves) == UNION {{Block(a[1], a[2]), Offset(a[1], a[2])} : a \in Range(leaves)}
Made(leaves) == {Leaf(a[1], a[2]) : a \in Range(leaves)}

\* The combinations of BOLeaves.
IsLeaves(body, leaves) ==
  /\ body \in Seq(InstrSet) /\ Len(body) = Len(leaves)
  /\ \A i \in 1 .. Len(leaves) :
       /\ body[i].op = "and"
       /\ body[i].x = Block(leaves[i][1], leaves[i][2])
       /\ body[i].y = Offset(leaves[i][1], leaves[i][2])
       /\ body[i].dst = Leaf(leaves[i][1], leaves[i][2])
       /\ body[i].row = i - 1

\* Its vectors have places in the plan.
LEMMA LeafVectors ==
  ASSUME NEW a \in Nat \X Nat
  PROVE  Block(a[1], a[2]) \in Reg /\ Offset(a[1], a[2]) \in Reg /\ Leaf(a[1], a[2]) \in Reg
BY DEF Block, Offset, Leaf, Reg

\* What BOLeaves is made of.
LEMMA LeavesShape ==
  ASSUME NEW leaves \in Seq(Nat \X Nat), leaves # <<>>
  PROVE  \E regs, body :
           /\ regs \in Seq(Reg) /\ Range(regs) = Parts(leaves) /\ IsLeaves(body, leaves)
           /\ BOLeaves(leaves) = <<Reshare(regs)>> \o (<<Fill(0, Len(leaves))>> \o body)
           /\ Reshare(regs) \in InstrSet /\ Fill(0, Len(leaves)) \in InstrSet
           /\ Len(leaves) \in Nat \ {0}
<1> DEFINE n == Len(leaves)
           P == Parts(leaves)
           regs == [i \in 1 .. 2 * n |-> IF i <= n THEN Block(leaves[i][1], leaves[i][2])
                                         ELSE Offset(leaves[i - n][1], leaves[i - n][2])]
           body == [i \in 1 .. n |-> Combine("and", Block(leaves[i][1], leaves[i][2]),
                                             Offset(leaves[i][1], leaves[i][2]),
                                             Leaf(leaves[i][1], leaves[i][2]), i - 1)]
<1>1. n \in Nat \ {0} /\ DOMAIN leaves = 1 .. n
  BY EmptySeq, LenProperties
<1>2. \A i \in 1 .. n : leaves[i] \in Nat \X Nat /\ leaves[i] \in Range(leaves)
  BY <1>1, ElementOfSeq DEF Range
<1>3. BOLeaves(leaves) = <<Reshare(regs), Fill(0, n)>> \o body
  BY DEF BOLeaves
<1>4. ASSUME NEW a \in Nat \X Nat
      PROVE  Block(a[1], a[2]) \in Reg /\ Offset(a[1], a[2]) \in Reg /\ Leaf(a[1], a[2]) \in Reg
  BY DEF Block, Offset, Leaf, Reg
<1> HIDE DEF n
<1>5. ASSUME NEW i \in 1 .. 2 * n
      PROVE  regs[i] \in Reg /\ regs[i] \in P
  <2>1. CASE i <= n
    <3>1. i \in 1 .. n
      BY <1>1, <2>1
    <3> QED
      BY <1>2, <1>4, <2>1, <3>1 DEF Parts
  <2>2. CASE ~(i <= n)
    <3>1. i - n \in 1 .. n
      BY <1>1, <2>2
    <3> QED
      BY <1>2, <1>4, <2>2, <3>1 DEF Parts
  <2> QED
    BY <2>1, <2>2
<1>6. regs \in Seq(Reg) /\ Range(regs) \subseteq P /\ DOMAIN regs = 1 .. 2 * n
  <2>1. regs \in [1 .. 2 * n -> Reg] /\ 2 * n \in Nat
    BY <1>1, <1>5
  <2>2. Range(regs) \subseteq P
    BY <1>5 DEF Range
  <2>3. DOMAIN regs = 1 .. 2 * n
    OBVIOUS
  <2> DEFINE m == 2 * n
  <2>4. m \in Nat /\ regs \in [1 .. m -> Reg]
    BY <2>1
  <2> HIDE DEF regs, m
  <2>5. regs \in Seq(Reg)
    BY <2>4
  <2> QED
    BY <2>2, <2>3, <2>5
<1>7. ASSUME NEW i \in 1 .. n
      PROVE  Block(leaves[i][1], leaves[i][2]) \in Range(regs)
             /\ Offset(leaves[i][1], leaves[i][2]) \in Range(regs)
  <2>1. i \in 1 .. 2 * n /\ i <= n
    BY <1>1
  <2>2. regs[i] = Block(leaves[i][1], leaves[i][2])
    BY <2>1
  <2> DEFINE j == n + i
  <2>3. j \in 1 .. 2 * n /\ ~(j <= n) /\ j - n = i
    BY <1>1
  <2> HIDE DEF j
  <2>4. regs[j] = Offset(leaves[i][1], leaves[i][2])
    BY <2>3
  <2> HIDE DEF regs
  <2> QED
    BY <1>6, <2>1, <2>2, <2>3, <2>4 DEF Range
<1>8. ASSUME NEW i \in 1 .. n
      PROVE  /\ body[i] \in InstrSet
             /\ body[i].op = "and"
             /\ body[i].x = Block(leaves[i][1], leaves[i][2])
             /\ body[i].y = Offset(leaves[i][1], leaves[i][2])
             /\ body[i].dst = Leaf(leaves[i][1], leaves[i][2])
             /\ body[i].row = i - 1
  <2> DEFINE b == Combine("and", Block(leaves[i][1], leaves[i][2]),
                          Offset(leaves[i][1], leaves[i][2]),
                          Leaf(leaves[i][1], leaves[i][2]), i - 1)
  <2>1. body[i] = b
    OBVIOUS
  <2>2. i - 1 \in Nat
    BY <1>1
  <2>3. b \in InstrSet
    <3> DEFINE B == Block(leaves[i][1], leaves[i][2])
               O == Offset(leaves[i][1], leaves[i][2])
               L == Leaf(leaves[i][1], leaves[i][2])
    <3>1. B \in Reg /\ O \in Reg /\ L \in Reg
      BY <1>2, <1>4
    <3> HIDE DEF B, O, L
    <3>2. Combine("and", B, O, L, i - 1) \in InstrSet
      BY <2>2, <3>1 DEF Combine, InstrSet
    <3> QED
      BY <3>2 DEF B, O, L
  <2>4. /\ b.op = "and"
        /\ b.x = Block(leaves[i][1], leaves[i][2])
        /\ b.y = Offset(leaves[i][1], leaves[i][2])
        /\ b.dst = Leaf(leaves[i][1], leaves[i][2])
        /\ b.row = i - 1
    BY DEF Combine
  <2> HIDE DEF b, body
  <2> QED
    BY <2>1, <2>3, <2>4
<1>9. body \in Seq(InstrSet) /\ Len(body) = n
  <2>1. body \in [1 .. n -> InstrSet]
    BY SMTT(40), <1>8
  <2> HIDE DEF body
  <2> QED
    BY <1>1, <2>1
<1> HIDE DEF regs, body
<1>10. BOLeaves(leaves) = <<Reshare(regs)>> \o (<<Fill(0, n)>> \o body)
       /\ Reshare(regs) \in InstrSet /\ Fill(0, n) \in InstrSet
  <2>1. Reshare(regs) \in InstrSet /\ Fill(0, n) \in InstrSet
    BY <1>1, <1>6 DEF Reshare, Fill, InstrSet
  <2>2. <<Reshare(regs), Fill(0, n)>> \o body = <<Reshare(regs)>> \o (<<Fill(0, n)>> \o body)
    BY <1>9, <2>1, PieceTwo
  <2> QED
    BY <1>3, <2>1, <2>2 DEF regs, body
<1>11. Range(regs) = P
  <2>1. P \subseteq Range(regs)
    <3> SUFFICES ASSUME NEW a \in Range(leaves)
                 PROVE  Block(a[1], a[2]) \in Range(regs) /\ Offset(a[1], a[2]) \in Range(regs)
      BY DEF Parts
    <3>1. PICK i \in 1 .. n : leaves[i] = a
      BY <1>1 DEF Range
    <3> QED
      BY <1>7, <3>1
  <2> QED
    BY <1>6, <2>1
<1>12. IsLeaves(body, leaves)
  BY <1>8, <1>9 DEF IsLeaves, n
<1> QED
  BY <1>1, <1>6, <1>10, <1>11, <1>12 DEF n, P

\* Blocks, offsets and leaves are different vectors.
LEMMA LeafNames ==
  /\ \A p, l : Leaf(p, l)[1] = "leaf" /\ Block(p, l)[1] = "block" /\ Offset(p, l)[1] = "offset"
  /\ \A p, l : Leaf(p, l)[2] = p /\ Block(p, l)[2] = p /\ Offset(p, l)[2] = p
  /\ \A p, l : Leaf(p, l)[3] = l /\ Block(p, l)[3] = l /\ Offset(p, l)[3] = l
  /\ "leaf" # "block" /\ "leaf" # "offset"
BY DEF Leaf, Block, Offset

\* BOLeaves makes every leaf the product of its block and offset, which it
\* reshared before; it writes nothing else.
LEMMA LeadsLeaves ==
  ASSUME NEW leaves \in Seq(Nat \X Nat), leaves # <<>>, NEW bit, NEW s \in States, NEW t \in States,
         Parts(leaves) \cap s.w = {}, Leads(BOLeaves(leaves), bit, s, t)
  PROVE  /\ \A a \in Range(leaves) :
              t.b[Leaf(a[1], a[2])] = bit[Block(a[1], a[2])] * bit[Offset(a[1], a[2])]
         /\ \A v \in Reg : v \notin Parts(leaves) \cup Made(leaves) => t.b[v] = s.b[v]
         /\ t.w \subseteq s.w \cup Parts(leaves) \cup Made(leaves)
<1> DEFINE n == Len(leaves)
           B(i) == Block(leaves[i][1], leaves[i][2])
           O(i) == Offset(leaves[i][1], leaves[i][2])
           L(i) == Leaf(leaves[i][1], leaves[i][2])
<1>1. PICK regs, body :
        /\ regs \in Seq(Reg) /\ Range(regs) = Parts(leaves) /\ IsLeaves(body, leaves)
        /\ BOLeaves(leaves) = <<Reshare(regs)>> \o (<<Fill(0, n)>> \o body)
        /\ Reshare(regs) \in InstrSet /\ Fill(0, n) \in InstrSet /\ n \in Nat \ {0}
  BY LeavesShape
<1>2. /\ <<Reshare(regs)>> \in Seq(InstrSet) /\ <<Fill(0, n)>> \in Seq(InstrSet)
      /\ body \in Seq(InstrSet) /\ Len(body) = n
      /\ <<Fill(0, n)>> \o body \in Seq(InstrSet)
  <2>1. <<Reshare(regs)>> \in Seq(InstrSet) /\ <<Fill(0, n)>> \in Seq(InstrSet)
    BY <1>1
  <2>2. body \in Seq(InstrSet) /\ Len(body) = n
    BY <1>1 DEF IsLeaves
  <2> HIDE DEF n
  <2> QED
    BY <2>1, <2>2, ConcatProperties
<1>3. PICK r \in States : /\ Leads(<<Reshare(regs)>>, bit, s, r)
                          /\ Leads(<<Fill(0, n)>> \o body, bit, r, t)
  <2> HIDE DEF n
  <2> QED
    BY <1>1, <1>2, LeadsConcat
<1>4. PICK u \in States : Leads(<<Fill(0, n)>>, bit, r, u) /\ Leads(body, bit, u, t)
  <2> HIDE DEF n
  <2> QED
    BY <1>2, <1>3, LeadsConcat
<1>5. /\ u.w = s.w \cup Parts(leaves)
      /\ \A v \in Reg : v \in Parts(leaves) => u.b[v] = bit[v]
      /\ \A v \in Reg : v \notin Parts(leaves) => u.b[v] = s.b[v]
  <2>1. u.w = r.w /\ \A v \in Reg : u.b[v] = r.b[v]
    BY <1>4, LeadsFill
  <2>2. /\ r.w = s.w \cup Range(regs)
        /\ \A v \in Reg : v \in Range(regs) /\ v \notin s.w => r.b[v] = bit[v]
        /\ \A v \in Reg : v \notin Range(regs) => r.b[v] = s.b[v]
    BY <1>3, LeadsReshare
  <2> QED
    BY <1>1, <2>1, <2>2
<1>6. PICK g : Passed(body, bit, g) /\ g[0] = u /\ g[n] = t
  BY <1>2, <1>4 DEF Leads
<1>7. /\ DOMAIN leaves = 1 .. n
      /\ \A i \in 1 .. n : leaves[i] \in Range(leaves) /\ leaves[i] \in Nat \X Nat
  <2>1. DOMAIN leaves = 1 .. n
    BY <1>1, LenProperties
  <2>2. \A i \in 1 .. n : leaves[i] \in Range(leaves)
    BY <2>1 DEF Range
  <2>3. \A i \in 1 .. n : leaves[i] \in Nat \X Nat
    BY ElementOfSeq
  <2> QED
    BY <2>1, <2>2, <2>3
<1>8. ASSUME NEW i \in 1 .. n
      PROVE  /\ body[i].op = "and" /\ body[i].x = B(i) /\ body[i].y = O(i) /\ body[i].dst = L(i)
             /\ B(i) \in Reg /\ O(i) \in Reg /\ L(i) \in Reg
             /\ B(i) \in Parts(leaves) /\ O(i) \in Parts(leaves) /\ L(i) \in Made(leaves)
             /\ Does(body[i], bit, g[i - 1], g[i])
  <2>1. /\ body[i].op = "and" /\ body[i].x = B(i) /\ body[i].y = O(i) /\ body[i].dst = L(i)
    BY <1>1 DEF IsLeaves
  <2>2. B(i) \in Reg /\ O(i) \in Reg /\ L(i) \in Reg
    BY <1>7, LeafVectors
  <2>3. B(i) \in Parts(leaves) /\ O(i) \in Parts(leaves) /\ L(i) \in Made(leaves)
    BY <1>7 DEF Parts, Made
  <2>4. Does(body[i], bit, g[i - 1], g[i])
    BY <1>2, <1>6 DEF Passed
  <2> QED
    BY <2>1, <2>2, <2>3, <2>4
<1>9. \A v \in Parts(leaves) : v[1] # "leaf"
  BY LeafNames DEF Parts
<1>10. \A v \in Made(leaves) : v[1] = "leaf"
  BY LeafNames DEF Made
<1> DEFINE Good(k) ==
             /\ \A i \in 1 .. k : g[k].b[L(i)] = bit[B(i)] * bit[O(i)]
             /\ \A v \in Reg : v \notin Made(leaves) => g[k].b[v] = u.b[v]
             /\ g[k].w \subseteq u.w \cup Made(leaves)
           T == {k \in 0 .. n : Good(k)}
<1>11. 0 \in T
  BY <1>1, <1>6
<1>12. ASSUME NEW k \in 0 .. n - 1, k \in T
       PROVE  k + 1 \in T
  <2> DEFINE j == k + 1
  <2>1. j \in 1 .. n /\ j - 1 = k /\ j \in 0 .. n /\ \A i \in 1 .. j : i \in 1 .. n /\ (i \in 1 .. k \/ i = j)
    BY <1>1
  <2>2. Good(k)
    BY <1>12
  <2> HIDE DEF j, T, n
  <2>3. /\ body[j].op = "and" /\ body[j].x = B(j) /\ body[j].y = O(j) /\ body[j].dst = L(j)
        /\ B(j) \in Reg /\ O(j) \in Reg /\ L(j) \in Reg
        /\ B(j) \in Parts(leaves) /\ O(j) \in Parts(leaves) /\ L(j) \in Made(leaves)
        /\ Does(body[j], bit, g[k], g[j])
    BY <1>8, <2>1
  <2> DEFINE BB == B(j)  OO == O(j)  LL == L(j)
  <2>4. g[k].b[BB] = bit[BB] /\ g[k].b[OO] = bit[OO]
    <3>1. BB \notin Made(leaves) /\ OO \notin Made(leaves)
      BY <1>9, <1>10, <2>3
    <3> HIDE DEF BB, OO
    <3> QED
      BY <1>5, <2>2, <2>3, <3>1 DEF BB, OO
  <2>5. /\ g[j].w = g[k].w \cup {LL}
        /\ \A v \in Reg : g[j].b[v] = After(body[j], g[k].b, bit, g[k].w, v)
    BY <2>3 DEF Does, Exchanges, Outputs
  <2>6. g[j].b[LL] = bit[BB] * bit[OO]
    <3>1. g[j].b[LL] = g[k].b[BB] * g[k].b[OO] + OrTerm("and", g[k].b[BB], g[k].b[OO])
      BY <2>3, <2>5 DEF After
    <3>2. OrTerm("and", g[k].b[BB], g[k].b[OO]) = 0
      BY DEF OrTerm
    <3>3. g[k].b[BB] \in Int /\ g[k].b[OO] \in Int
      <4>1. g[k] \in States
        <5>1. k \in 0 .. n
          BY <1>1 DEF n
        <5> QED
          BY <1>2, <1>6, <5>1 DEF Passed
      <4>2. g[k].b \in [Reg -> Int]
        BY <4>1 DEF States
      <4> QED
        BY <2>3, <4>2
    <3> HIDE DEF BB, OO, LL
    <3>4. g[k].b[BB] * g[k].b[OO] + 0 = g[k].b[BB] * g[k].b[OO]
      BY SMTT(40), <3>3
    <3> QED
      BY SMTT(40), <2>4, <3>1, <3>2, <3>4
  <2>7. \A v \in Reg : v # LL => g[j].b[v] = g[k].b[v]
    BY <2>3, <2>5 DEF After
  <2>8. Good(j)
    <3>1. ASSUME NEW i \in 1 .. j
          PROVE  g[j].b[L(i)] = bit[B(i)] * bit[O(i)]
      <4>1. CASE L(i) = LL
        <5>1. leaves[i][1] = leaves[j][1] /\ leaves[i][2] = leaves[j][2]
          <6>1. Leaf(leaves[i][1], leaves[i][2])[2] = leaves[i][1]
                /\ Leaf(leaves[j][1], leaves[j][2])[2] = leaves[j][1]
                /\ Leaf(leaves[i][1], leaves[i][2])[3] = leaves[i][2]
                /\ Leaf(leaves[j][1], leaves[j][2])[3] = leaves[j][2]
            BY SMTT(40), LeafNames
          <6> QED
            BY <4>1, <6>1
        <5> QED
          BY <2>6, <4>1, <5>1
      <4>2. CASE L(i) # LL
        <5>1. i \in 1 .. k
          BY <2>1, <4>2
        <5>2. L(i) \in Reg
          BY <1>8, <2>1
        <5> QED
          BY <2>2, <2>7, <4>2, <5>1, <5>2
      <4> QED
        BY <4>1, <4>2
    <3>2. \A v \in Reg : v \notin Made(leaves) => g[j].b[v] = u.b[v]
      BY <2>2, <2>3, <2>7
    <3>3. g[j].w \subseteq u.w \cup Made(leaves)
      BY <2>2, <2>3, <2>5
    <3> QED
      BY <3>1, <3>2, <3>3
  <2> HIDE DEF Good
  <2> QED
    BY <2>1, <2>8 DEF j, T
<1>13. n \in T
  <2> HIDE DEF T, n
  <2>1. 0 .. n \subseteq T
    BY <1>1, <1>11, <1>12, BoundedInduction
  <2> QED
    BY <1>1, <2>1
<1>14. Good(n)
  BY <1>13
<1>15. ASSUME NEW a \in Range(leaves)
       PROVE  t.b[Leaf(a[1], a[2])] = bit[Block(a[1], a[2])] * bit[Offset(a[1], a[2])]
  <2>1. PICK i \in 1 .. n : leaves[i] = a
    BY <1>7 DEF Range
  <2> QED
    BY <1>6, <1>14, <2>1
<1> QED
  BY <1>5, <1>6, <1>14, <1>15

\* The vectors of a predicate's leaves, and the first ones of all predicates.
LEMMA PredRegs ==
  ASSUME NEW m \in Nat \ {0}, NEW p \in Nat, NEW regs, regs = [l \in 1 .. m |-> Leaf(p, l)]
  PROVE  /\ regs \in Seq(Reg) /\ Len(regs) = m /\ \A l \in 2 .. m : regs[l] # regs[1]
         /\ \A l \in 1 .. m : regs[l] = Leaf(p, l)
<1>1. regs \in [1 .. m -> Reg] /\ \A l \in 1 .. m : regs[l] = Leaf(p, l)
  BY DEF Leaf, Reg
<1>2. \A l \in 2 .. m : regs[l] # regs[1]
  <2> SUFFICES ASSUME NEW l \in 2 .. m PROVE regs[l] # regs[1]
    OBVIOUS
  <2>1. l \in 1 .. m /\ 1 \in 1 .. m /\ l # 1
    OBVIOUS
  <2>2. Leaf(p, l)[3] = l /\ Leaf(p, 1)[3] = 1
    BY LeafNames
  <2>3. regs[l] = Leaf(p, l) /\ regs[1] = Leaf(p, 1)
    BY <1>1, <2>1
  <2> QED
    BY <2>1, <2>2, <2>3
<1> QED
  BY <1>1, <1>2

\* The vectors of the first leaves.
LEMMA FirstRegs ==
  ASSUME NEW n \in Nat \ {0}, NEW regs, regs = [p \in 1 .. n |-> Leaf(p, 1)]
  PROVE  /\ regs \in Seq(Reg) /\ Len(regs) = n /\ \A p \in 2 .. n : regs[p] # regs[1]
         /\ \A p \in 1 .. n : regs[p] = Leaf(p, 1)
<1>1. regs \in [1 .. n -> Reg] /\ \A p \in 1 .. n : regs[p] = Leaf(p, 1)
  BY DEF Leaf, Reg
<1>2. \A p \in 2 .. n : regs[p] # regs[1]
  <2> SUFFICES ASSUME NEW p \in 2 .. n PROVE regs[p] # regs[1]
    OBVIOUS
  <2>1. p \in 1 .. n /\ 1 \in 1 .. n /\ p # 1
    OBVIOUS
  <2>2. Leaf(p, 1)[2] = p /\ Leaf(1, 1)[2] = 1
    BY LeafNames
  <2>3. regs[p] = Leaf(p, 1) /\ regs[1] = Leaf(1, 1)
    BY <1>1, <2>1
  <2> QED
    BY <2>1, <2>2, <2>3
<1> QED
  BY <1>1, <1>2

\* The leaves of predicate p are x, of which at most one holds.
PredReady(lc, p, x, s) ==
  /\ AtMostOne(x, lc[p])
  /\ \A l \in 1 .. lc[p] : x[l] \in {0, 1} /\ s.b[Leaf(p, l)] = x[l]

\* Their union is in the first one; nothing else has changed.
PredDone(lc, p, x, s, t) ==
  /\ t.b[Leaf(p, 1)] = Joined("or", x, lc[p])
  /\ \A v \in Reg : v # Leaf(p, 1) => t.b[v] = s.b[v]
  /\ t.w \subseteq s.w \cup {Leaf(p, 1)}

\* The union of a predicate's leaves.
LEMMA LeadsPred ==
  ASSUME NEW lc \in LeafCounts, NEW p \in 1 .. Len(lc), NEW x, NEW s \in States, NEW t,
         PredReady(lc, p, x, s), NEW bit, Leads(PredUnion(p, lc), bit, s, t)
  PROVE  PredDone(lc, p, x, s, t)
<1> DEFINE m == lc[p]
           regs == [l \in 1 .. m |-> Leaf(p, l)]
<1>1. m \in Nat \ {0} /\ p \in Nat
  BY ElementOfSeq DEF LeafCounts
<1> HIDE DEF m
<1>2. /\ regs \in Seq(Reg) /\ Len(regs) = m /\ \A l \in 2 .. m : regs[l] # regs[1]
      /\ \A l \in 1 .. m : regs[l] = Leaf(p, l)
  <2>1. regs = [l \in 1 .. m |-> Leaf(p, l)]
    OBVIOUS
  <2> HIDE DEF regs
  <2> QED
    BY <1>1, <2>1, PredRegs
<1>3. Leads(Union("or", regs), bit, s, t)
  BY DEF PredUnion, m
<1> HIDE DEF regs
<1>4. Joinable("or", regs, x, s)
  BY <1>1, <1>2 DEF Joinable, PredReady, m
<1>5. Joins("or", regs, x, s, t)
  BY <1>3, <1>4, LeadsUnion
<1>6. regs[1] = Leaf(p, 1)
  BY <1>1, <1>2
<1> QED
  BY <1>2, <1>5, <1>6 DEF Joins, PredDone, m

\* The predicates are y, each in its first leaf.
Firsts(lc, y, s) == \A p \in 1 .. Len(lc) : y[p] \in {0, 1} /\ s.b[Leaf(p, 1)] = y[p]

\* OR combines predicates of which at most one holds.
Combinable(op, y, n) == op \in {"and", "or"} /\ (op = "or" => AtMostOne(y, n))

\* ... and the combination of the predicates in the first one's.
LEMMA LeadsFinal ==
  ASSUME NEW lc \in LeafCounts, NEW op, NEW y, Combinable(op, y, Len(lc)),
         NEW s \in States, NEW t, Firsts(lc, y, s), NEW bit,
         Leads(Union(op, [p \in 1 .. Len(lc) |-> Leaf(p, 1)]), bit, s, t)
  PROVE  t.b[Leaf(1, 1)] = Joined(op, y, Len(lc))
<1> DEFINE n == Len(lc)
           regs == [p \in 1 .. n |-> Leaf(p, 1)]
<1>1. n \in Nat \ {0}
  BY EmptySeq DEF LeafCounts
<1>3. Leads(Union(op, regs), bit, s, t)
  OBVIOUS
<1> HIDE DEF n
<1>2. /\ regs \in Seq(Reg) /\ Len(regs) = n /\ \A p \in 2 .. n : regs[p] # regs[1]
      /\ \A p \in 1 .. n : regs[p] = Leaf(p, 1)
  <2>1. regs = [p \in 1 .. n |-> Leaf(p, 1)]
    OBVIOUS
  <2> HIDE DEF regs
  <2> QED
    BY <1>1, <2>1, FirstRegs
<1> HIDE DEF regs
<1>4. Joinable(op, regs, y, s)
  BY <1>1, <1>2 DEF Joinable, Combinable, Firsts, n
<1>5. Joins(op, regs, y, s, t)
  BY <1>3, <1>4, LeadsUnion
<1>6. regs[1] = Leaf(1, 1)
  BY <1>1, <1>2
<1> QED
  BY <1>2, <1>5, <1>6 DEF Joins, n

\* The truth values of the leaves of predicate p.
LeafValue(bit, p, l) == bit[Block(p, l)] * bit[Offset(p, l)]
LeafValues(bit, lc, p) == [l \in 1 .. lc[p] |-> LeafValue(bit, p, l)]

\* The truth values y of the predicates, of which at most one leaf holds.
Truths(lc, bit, y) ==
  \A p \in 1 .. Len(lc) :
    /\ \A l \in 1 .. lc[p] : LeafValue(bit, p, l) \in {0, 1}
    /\ AtMostOne(LeafValues(bit, lc, p), lc[p])
    /\ y[p] = Joined("or", LeafValues(bit, lc, p), lc[p])

\* Truth values are bits.
LEMMA TruthBits ==
  ASSUME NEW lc, NEW bit, NEW y, Truths(lc, bit, y), NEW p \in 1 .. Len(lc)
  PROVE  /\ y[p] \in {0, 1}
         /\ \A l \in 1 .. lc[p] : LeafValues(bit, lc, p)[l] \in {0, 1}
                                  /\ LeafValues(bit, lc, p)[l] = LeafValue(bit, p, l)
BY DEF Truths, LeafValues, Joined, BitOf

\* The pieces of the plans of block and offset queries.
LEMMA LeafPieces ==
  ASSUME NEW lc \in LeafCounts
  PROVE  /\ \A p \in 1 .. Len(lc) : /\ PredUnion(p, lc) \in Seq(InstrSet)
                                    /\ BOLeaves(LeavesOf(p, lc)) \in Seq(InstrSet)
         /\ \A op \in {"and", "or"} :
              Union(op, [p \in 1 .. Len(lc) |-> Leaf(p, 1)]) \in Seq(InstrSet)
<1> DEFINE V == LeavesTo(Len(lc), lc)
           In == Computed("bo", lc)
<1>1. /\ \A p \in 1 .. Len(lc) : \A l \in 1 .. lc[p] : Leaf(p, l) \in V
      /\ \A p \in 1 .. Len(lc) : Leaf(p, 1) \in V
  BY AllLeaves
<1> HIDE DEF V
<1>2. ASSUME NEW op \in {"and", "or"}
      PROVE  Piece(Union(op, [p \in 1 .. Len(lc) |-> Leaf(p, 1)]), V, V, In)
  BY <1>1, PieceFinal
<1>3. ASSUME NEW p \in 1 .. Len(lc)
      PROVE  PredUnion(p, lc) \in Seq(InstrSet) /\ BOLeaves(LeavesOf(p, lc)) \in Seq(InstrSet)
  <2>1. Piece(PredUnion(p, lc), V, V, In)
    BY <1>1, PiecePredUnion
  <2>2. /\ LeavesOf(p, lc) \in Seq(Nat \X Nat) /\ LeavesOf(p, lc) # <<>>
        /\ Range(LeavesOf(p, lc)) = {<<p, l>> : l \in 1 .. lc[p]}
    BY LeavesOfPred
  <2>3. \A a \in Range(LeavesOf(p, lc)) : Block(a[1], a[2]) \in In /\ Offset(a[1], a[2]) \in In
    <3> SUFFICES ASSUME NEW l \in 1 .. lc[p] PROVE Block(p, l) \in In /\ Offset(p, l) \in In
      <4> HIDE DEF In
      <4> QED
        BY <2>2
    <3> QED
      BY ComputedLeaves
  <2>4. Piece(BOLeaves(LeavesOf(p, lc)), {}, {Leaf(a[1], a[2]) : a \in Range(LeavesOf(p, lc))}, In)
    <3> HIDE DEF In
    <3> QED
      BY <2>2, <2>3, PieceLeaves
  <2> QED
    BY <2>1, <2>4 DEF Piece
<1> QED
  BY <1>2, <1>3 DEF Piece

\* The unions of all predicates, one after the other.
LEMMA LeadsUnions ==
  ASSUME NEW lc \in LeafCounts, NEW bit, NEW y, Truths(lc, bit, y),
         NEW s \in States, NEW t \in States,
         Leads(FlattenSeq([p \in 1 .. Len(lc) |-> PredUnion(p, lc)]), bit, s, t),
         \A p \in 1 .. Len(lc) : \A l \in 1 .. lc[p] : s.b[Leaf(p, l)] = LeafValue(bit, p, l)
  PROVE  \A p \in 1 .. Len(lc) : t.b[Leaf(p, 1)] = y[p]
<1> DEFINE n == Len(lc)
           seqs == [p \in 1 .. n |-> PredUnion(p, lc)]
<1>1. n \in Nat \ {0}
  BY AllLeaves
<1>2. Len(seqs) = n /\ \A p \in 1 .. n : seqs[p] = PredUnion(p, lc) /\ seqs[p] \in Seq(InstrSet)
  <2>1. \A p \in 1 .. n : PredUnion(p, lc) \in Seq(InstrSet)
    BY LeafPieces
  <2> HIDE DEF n
  <2> QED
    BY <1>1, <2>1
<1>3. Leads(FlattenSeq(seqs), bit, s, t)
  OBVIOUS
<1> HIDE DEF seqs
<1>4. PICK m : Through(seqs, bit, m, n, s, t)
  <2> HIDE DEF n
  <2> QED
    BY <1>1, <1>2, <1>3, LeadsFlatten
<1>5. /\ m \in [0 .. n -> States] /\ m[0] = s /\ m[n] = t
      /\ \A p \in 1 .. n : Leads(PredUnion(p, lc), bit, m[p - 1], m[p])
  BY <1>2, <1>4 DEF Through
<1> DEFINE Good(k) ==
             /\ \A p \in 1 .. k : m[k].b[Leaf(p, 1)] = y[p]
             /\ \A p \in k + 1 .. n : \A l \in 1 .. lc[p] : m[k].b[Leaf(p, l)] = LeafValue(bit, p, l)
           T == {k \in 0 .. n : Good(k)}
<1>6. 0 \in T
  BY <1>1, <1>5
<1>7. ASSUME NEW k \in 0 .. n - 1, k \in T
      PROVE  k + 1 \in T
  <2> DEFINE j == k + 1
  <2>1. /\ j \in 1 .. n /\ j - 1 = k /\ j \in 0 .. n /\ k \in 0 .. n /\ k \in Nat /\ j \in Nat
        /\ \A p \in 1 .. j : p \in 1 .. k \/ p = j
        /\ \A p \in 1 .. k : p # j
        /\ \A p \in j + 1 .. n : p \in k + 1 .. n /\ p # j
        /\ j \in k + 1 .. n
        /\ \A p \in 1 .. k : p \in Nat
        /\ \A p \in j + 1 .. n : p \in Nat
    BY <1>1
  <2>2. Good(k)
    BY <1>7
  <2> HIDE DEF j, T
  <2>3. /\ \A p \in 1 .. k : m[k].b[Leaf(p, 1)] = y[p]
        /\ \A p \in k + 1 .. n : \A l \in 1 .. lc[p] : m[k].b[Leaf(p, l)] = LeafValue(bit, p, l)
    BY <2>2
  <2> HIDE DEF Good
  <2> DEFINE x == LeafValues(bit, lc, j)
  <2>4. /\ AtMostOne(x, lc[j]) /\ y[j] = Joined("or", x, lc[j])
        /\ \A l \in 1 .. lc[j] : x[l] \in {0, 1} /\ x[l] = LeafValue(bit, j, l)
    <3>1. j \in 1 .. Len(lc)
      BY <2>1
    <3>2. \A l \in 1 .. lc[j] : x[l] \in {0, 1} /\ x[l] = LeafValue(bit, j, l)
      BY <3>1, TruthBits
    <3>3. AtMostOne(x, lc[j]) /\ y[j] = Joined("or", x, lc[j])
      BY <3>1 DEF Truths
    <3> QED
      BY <3>2, <3>3
  <2>5. Leads(PredUnion(j, lc), bit, m[k], m[j]) /\ m[k] \in States /\ m[j] \in States
    BY <1>5, <2>1
  <2>6. \A l \in 1 .. lc[j] : x[l] \in {0, 1} /\ m[k].b[Leaf(j, l)] = x[l]
    BY <2>1, <2>3, <2>4
  <2> HIDE DEF x
  <2>7. /\ m[j].b[Leaf(j, 1)] = Joined("or", x, lc[j])
        /\ \A v \in Reg : v # Leaf(j, 1) => m[j].b[v] = m[k].b[v]
    <3> DEFINE a == m[k]  b == m[j]
    <3>1. /\ Leads(PredUnion(j, lc), bit, a, b) /\ a \in States /\ b \in States
          /\ j \in 1 .. Len(lc) /\ PredReady(lc, j, x, a)
      BY <2>1, <2>4, <2>5, <2>6 DEF PredReady
    <3> HIDE DEF a, b, n
    <3>2. PredDone(lc, j, x, a, b)
      BY <3>1, LeadsPred
    <3> QED
      BY <3>2 DEF PredDone, a, b
  <2>8. \A p, l : p \in Nat /\ l \in Nat => Leaf(p, l) \in Reg
    BY DEF Leaf, Reg
  <2>9. ASSUME NEW p \in Nat, NEW l \in Nat, p # j
        PROVE  m[j].b[Leaf(p, l)] = m[k].b[Leaf(p, l)]
    <3>1. Leaf(p, l)[2] = p /\ Leaf(j, 1)[2] = j
      BY LeafNames
    <3>2. Leaf(p, l) # Leaf(j, 1)
      BY <2>9, <3>1
    <3> QED
      BY <2>7, <2>8, <3>2
  <2>10. Good(j)
    <3>1. ASSUME NEW p \in 1 .. j
          PROVE  m[j].b[Leaf(p, 1)] = y[p]
      <4>1. CASE p = j
        BY <2>4, <2>7, <4>1
      <4>2. CASE p # j
        <5>1. p \in 1 .. k /\ p \in Nat /\ 1 \in Nat
          BY <2>1, <4>2
        <5> QED
          BY <2>3, <2>9, <4>2, <5>1
      <4> QED
        BY <4>1, <4>2
    <3>2. ASSUME NEW p \in j + 1 .. n, NEW l \in 1 .. lc[p]
          PROVE  m[j].b[Leaf(p, l)] = LeafValue(bit, p, l)
      <4>1. p \in Nat /\ p # j /\ p \in k + 1 .. n
        BY <2>1
      <4>2. l \in Nat
        OBVIOUS
      <4> QED
        BY <2>3, <2>9, <4>1, <4>2
    <3> QED
      BY <3>1, <3>2 DEF Good
  <2> QED
    BY <2>1, <2>10 DEF j, T
<1>8. n \in T
  <2> HIDE DEF T, n
  <2>1. 0 .. n \subseteq T
    BY <1>1, <1>6, <1>7, BoundedInduction
  <2> QED
    BY <1>1, <2>1
<1> QED
  BY <1>5, <1>8

\* The instructions that make leaves of blocks and offsets.
LEMMA LeavesInstrs ==
  ASSUME NEW leaves \in Seq(Nat \X Nat), leaves # <<>>
  PROVE  BOLeaves(leaves) \in Seq(InstrSet)
<1> DEFINE In == Parts(leaves)
<1>1. \A a \in Range(leaves) : Block(a[1], a[2]) \in In /\ Offset(a[1], a[2]) \in In
  BY DEF Parts
<1>2. Piece(BOLeaves(leaves), {}, {Leaf(a[1], a[2]) : a \in Range(leaves)}, In)
  <2> HIDE DEF In
  <2> QED
    BY <1>1, PieceLeaves
<1> QED
  BY <1>2 DEF Piece

\* The leaves of all predicates, one after the other.
LEMMA AllGroups ==
  ASSUME NEW lc \in LeafCounts, NEW leaves,
         leaves = FlattenSeq([p \in 1 .. Len(lc) |-> LeavesOf(p, lc)])
  PROVE  /\ leaves \in Seq(Nat \X Nat) /\ leaves # <<>>
         /\ \A p \in 1 .. Len(lc) : \A l \in 1 .. lc[p] : <<p, l>> \in Range(leaves)
<1> DEFINE n == Len(lc)
           groups == [p \in 1 .. n |-> LeavesOf(p, lc)]
<1>1. n \in Nat \ {0}
  BY AllLeaves
<1>2. /\ \A p \in 1 .. n : groups[p] \in Seq(Nat \X Nat)
      /\ \A p \in 1 .. n : Range(groups[p]) = {<<p, l>> : l \in 1 .. lc[p]}
      /\ Len(groups) = n
  BY <1>1, LeavesOfPred
<1>20. leaves = FlattenSeq(groups)
  OBVIOUS
<1> HIDE DEF groups
<1>3. leaves \in Seq(Nat \X Nat) /\ Range(leaves) = UNION {Range(groups[p]) : p \in 1 .. n}
  <2> DEFINE S == Nat \X Nat
  <2>1. \A p \in 1 .. n : groups[p] \in Seq(S)
    BY <1>2
  <2> HIDE DEF n, S
  <2>2. FlattenSeq(groups) \in Seq(S)
        /\ Range(FlattenSeq(groups)) = UNION {Range(groups[p]) : p \in 1 .. n}
    BY <1>1, <1>2, <2>1, FlattenElements
  <2> QED
    BY <1>20, <2>2 DEF S
<1> HIDE DEF n
<1>5. \A p \in 1 .. n : \A l \in 1 .. lc[p] : <<p, l>> \in Range(leaves)
  <2> SUFFICES ASSUME NEW p \in 1 .. n, NEW l \in 1 .. lc[p]
               PROVE  <<p, l>> \in Range(leaves)
    BY ZenonT(60)
  <2>1. <<p, l>> \in Range(groups[p])
    BY <1>2
  <2> QED
    BY <1>3, <2>1
<1>6. <<1, 1>> \in Range(leaves)
  <2>1. 1 \in 1 .. n
    BY <1>1
  <2>2. lc[1] \in Nat \ {0}
    BY <2>1, ElementOfSeq DEF LeafCounts, n
  <2>3. 1 \in 1 .. lc[1]
    BY <2>2
  <2> QED
    BY <1>5, <2>1, <2>3
<1>7. leaves # <<>>
  BY <1>6 DEF Range
<1> QED
  BY <1>3, <1>5, <1>7 DEF n

\* BOEvalFilter.
LEMMA LeadsBO ==
  ASSUME NEW lc \in LeafCounts, NEW op, NEW y, Combinable(op, y, Len(lc)),
         NEW bit, Truths(lc, bit, y),
         NEW s \in States, NEW t \in States, s.w = {}, Leads(BOPlan(lc, op), bit, s, t)
  PROVE  t.b[Leaf(1, 1)] = Joined(op, y, Len(lc))
<1> DEFINE n == Len(lc)
           leaves == FlattenSeq([p \in 1 .. n |-> LeavesOf(p, lc)])
           seqs == [p \in 1 .. n |-> PredUnion(p, lc)]
           a == BOLeaves(leaves)
           b == FlattenSeq(seqs)
           c == Union(op, [p \in 1 .. n |-> Leaf(p, 1)])
<1>1. Leads((a \o b) \o c, bit, s, t)
  BY DEF BOPlan
<1>2. /\ leaves \in Seq(Nat \X Nat) /\ leaves # <<>>
      /\ \A p \in 1 .. n : \A l \in 1 .. lc[p] : <<p, l>> \in Range(leaves)
  BY AllGroups
<1>3. n \in Nat \ {0}
  BY AllLeaves
<1> HIDE DEF leaves
<1>4. a \in Seq(InstrSet)
  BY <1>2, LeavesInstrs
<1>5. b \in Seq(InstrSet)
  <2>1. \A p \in 1 .. n : PredUnion(p, lc) \in Seq(InstrSet)
    BY LeafPieces
  <2>2. Len(seqs) = n
    BY <1>3
  <2>3. \A p \in 1 .. n : seqs[p] \in Seq(InstrSet)
    BY <2>1
  <2> HIDE DEF seqs, n
  <2> QED
    BY <1>3, <2>2, <2>3, FlattenElements
<1>6. c \in Seq(InstrSet)
  BY LeafPieces DEF Combinable
<1>60. Leads(b, bit, s, t) <=> Leads(FlattenSeq([p \in 1 .. Len(lc) |-> PredUnion(p, lc)]), bit, s, t)
  OBVIOUS
<1> HIDE DEF a, b, c
<1>7. a \o b \in Seq(InstrSet)
  BY <1>4, <1>5, ConcatProperties
<1>8. PICK v \in States : Leads(a \o b, bit, s, v) /\ Leads(c, bit, v, t)
  BY <1>1, <1>6, <1>7, LeadsConcat
<1>9. PICK u \in States : Leads(a, bit, s, u) /\ Leads(b, bit, u, v)
  BY <1>4, <1>5, <1>8, LeadsConcat
<1>10. \A p \in 1 .. n : \A l \in 1 .. lc[p] : u.b[Leaf(p, l)] = LeafValue(bit, p, l)
  <2>1. Parts(leaves) \cap s.w = {}
    OBVIOUS
  <2>2. \A e \in Range(leaves) :
          u.b[Leaf(e[1], e[2])] = bit[Block(e[1], e[2])] * bit[Offset(e[1], e[2])]
    BY <1>2, <1>9, <2>1, LeadsLeaves DEF a
  <2> SUFFICES ASSUME NEW p \in 1 .. n, NEW l \in 1 .. lc[p]
               PROVE  u.b[Leaf(p, l)] = bit[Block(p, l)] * bit[Offset(p, l)]
    BY DEF LeafValue
  <2> DEFINE e == <<p, l>>
  <2>3. e \in Range(leaves) /\ e[1] = p /\ e[2] = l
    BY <1>2
  <2> HIDE DEF e
  <2> QED
    BY <2>2, <2>3
<1>11. \A p \in 1 .. n : v.b[Leaf(p, 1)] = y[p]
  <2>1. Leads(FlattenSeq([p \in 1 .. Len(lc) |-> PredUnion(p, lc)]), bit, u, v)
    BY <1>9 DEF b
  <2> QED
    BY <1>10, <2>1, LeadsUnions
<1>12. Firsts(lc, y, v)
  BY <1>11, TruthBits DEF Firsts
<1>13. Leads(Union(op, [p \in 1 .. Len(lc) |-> Leaf(p, 1)]), bit, v, t)
  BY <1>8 DEF c
<1> QED
  BY <1>12, <1>13, LeadsFinal

\* Only vectors of predicate p have changed.
OnlyPred(p, s, t) ==
  /\ \A v \in Reg : v[2] # p => t.b[v] = s.b[v]
  /\ \A v \in t.w : v \in s.w \/ v[2] = p

\* One predicate of BOFSSEvalFilter.
LEMMA LeadsOnePred ==
  ASSUME NEW lc \in LeafCounts, NEW bit, NEW y, Truths(lc, bit, y), NEW p \in 1 .. Len(lc),
         NEW s \in States, NEW t \in States, \A v \in s.w : v[2] # p,
         Leads(BOLeaves(LeavesOf(p, lc)) \o PredUnion(p, lc), bit, s, t)
  PROVE  t.b[Leaf(p, 1)] = y[p] /\ OnlyPred(p, s, t)
<1> DEFINE leaves == LeavesOf(p, lc)
           a == BOLeaves(leaves)
           b == PredUnion(p, lc)
           x == LeafValues(bit, lc, p)
<1>1. a \in Seq(InstrSet) /\ b \in Seq(InstrSet)
  BY LeafPieces
<1>2. /\ leaves \in Seq(Nat \X Nat) /\ leaves # <<>>
      /\ Range(leaves) = {<<p, l>> : l \in 1 .. lc[p]}
  BY LeavesOfPred
<1>3. Leads(a \o b, bit, s, t)
  OBVIOUS
<1> HIDE DEF a, b
<1>4. PICK u \in States : Leads(a, bit, s, u) /\ Leads(b, bit, u, t)
  BY <1>1, <1>3, LeadsConcat
<1> HIDE DEF leaves
<1>5. \A e \in Range(leaves) : e[1] = p
  BY <1>2
<1>6. /\ \A v \in Parts(leaves) : v[2] = p
      /\ \A v \in Made(leaves) : v[2] = p
  <2>1. \A e \in Range(leaves) :
          Block(e[1], e[2])[2] = p /\ Offset(e[1], e[2])[2] = p /\ Leaf(e[1], e[2])[2] = p
    BY <1>5, LeafNames
  <2> QED
    BY <2>1 DEF Parts, Made
<1>7. Parts(leaves) \cap s.w = {}
  BY <1>6
<1>8. /\ \A e \in Range(leaves) :
           u.b[Leaf(e[1], e[2])] = bit[Block(e[1], e[2])] * bit[Offset(e[1], e[2])]
      /\ \A v \in Reg : v \notin Parts(leaves) \cup Made(leaves) => u.b[v] = s.b[v]
      /\ u.w \subseteq s.w \cup Parts(leaves) \cup Made(leaves)
  BY <1>2, <1>4, <1>7, LeadsLeaves DEF a
<1>9. PredReady(lc, p, x, u)
  <2>1. AtMostOne(x, lc[p])
    BY DEF Truths
  <2>2. ASSUME NEW l \in 1 .. lc[p]
        PROVE  x[l] \in {0, 1} /\ u.b[Leaf(p, l)] = x[l]
    <3>1. x[l] \in {0, 1} /\ x[l] = LeafValue(bit, p, l)
      BY TruthBits
    <3> DEFINE e == <<p, l>>
    <3>2. e \in Range(leaves) /\ e[1] = p /\ e[2] = l
      BY <1>2
    <3> HIDE DEF e, x
    <3>3. u.b[Leaf(p, l)] = bit[Block(p, l)] * bit[Offset(p, l)]
      BY <1>8, <3>2
    <3> QED
      BY <3>1, <3>3 DEF LeafValue
  <2> HIDE DEF x
  <2> QED
    BY <2>1, <2>2 DEF PredReady
<1>10. PredDone(lc, p, x, u, t)
  <2>1. Leads(PredUnion(p, lc), bit, u, t)
    BY <1>4 DEF b
  <2> HIDE DEF x
  <2> QED
    BY <1>9, <2>1, LeadsPred
<1>11. t.b[Leaf(p, 1)] = y[p]
  BY <1>10 DEF PredDone, Truths
<1>12. OnlyPred(p, s, t)
  <2>1. /\ \A v \in Reg : v # Leaf(p, 1) => t.b[v] = u.b[v]
        /\ t.w \subseteq u.w \cup {Leaf(p, 1)}
    BY <1>10 DEF PredDone
  <2>2. Leaf(p, 1)[2] = p
    BY LeafNames
  <2>3. \A v \in Reg : v[2] # p => v \notin Parts(leaves) \cup Made(leaves) /\ v # Leaf(p, 1)
    BY <1>6, <2>2
  <2>4. \A v \in Reg : v[2] # p => t.b[v] = s.b[v]
    BY <1>8, <2>1, <2>3
  <2>5. \A v \in t.w : v \in s.w \/ v[2] = p
    BY <1>6, <1>8, <2>1, <2>2
  <2> QED
    BY <2>4, <2>5 DEF OnlyPred
<1> QED
  BY <1>11, <1>12

\* BOFSSEvalFilter.
LEMMA LeadsBOFSS ==
  ASSUME NEW lc \in LeafCounts, NEW op, NEW y, Combinable(op, y, Len(lc)),
         NEW bit, Truths(lc, bit, y),
         NEW s \in States, NEW t \in States, s.w = {}, Leads(BOFSSPlan(lc, op), bit, s, t)
  PROVE  t.b[Leaf(1, 1)] = Joined(op, y, Len(lc))
<1> DEFINE n == Len(lc)
           seqs == [p \in 1 .. n |-> BOLeaves(LeavesOf(p, lc)) \o PredUnion(p, lc)]
           b == FlattenSeq(seqs)
           c == Union(op, [p \in 1 .. n |-> Leaf(p, 1)])
<1>1. Leads(b \o c, bit, s, t)
  BY DEF BOFSSPlan
<1>2. n \in Nat \ {0}
  BY AllLeaves
<1>3. /\ Len(seqs) = n
      /\ \A p \in 1 .. n : seqs[p] = BOLeaves(LeavesOf(p, lc)) \o PredUnion(p, lc)
      /\ \A p \in 1 .. n : seqs[p] \in Seq(InstrSet)
  <2>1. \A p \in 1 .. n : PredUnion(p, lc) \in Seq(InstrSet)
                          /\ BOLeaves(LeavesOf(p, lc)) \in Seq(InstrSet)
    BY LeafPieces
  <2>2. \A p \in 1 .. n : BOLeaves(LeavesOf(p, lc)) \o PredUnion(p, lc) \in Seq(InstrSet)
    <3> HIDE DEF n
    <3> QED
      BY <2>1, ConcatProperties
  <2> HIDE DEF n
  <2> QED
    BY <1>2, <2>2
<1> HIDE DEF seqs
<1>4. b \in Seq(InstrSet)
  <2> HIDE DEF n
  <2> QED
    BY <1>2, <1>3, FlattenElements
<1>5. c \in Seq(InstrSet)
  BY LeafPieces DEF Combinable
<1> HIDE DEF c
<1>6. PICK u \in States : Leads(b, bit, s, u) /\ Leads(c, bit, u, t)
  <2> HIDE DEF b
  <2> QED
    BY <1>1, <1>4, <1>5, LeadsConcat
<1>7. PICK m : Through(seqs, bit, m, n, s, u)
  <2> HIDE DEF n
  <2> QED
    BY <1>2, <1>3, <1>6, LeadsFlatten
<1>8. /\ m \in [0 .. n -> States] /\ m[0] = s /\ m[n] = u
      /\ \A p \in 1 .. n : Leads(BOLeaves(LeavesOf(p, lc)) \o PredUnion(p, lc), bit, m[p - 1], m[p])
  BY <1>3, <1>7 DEF Through
<1> DEFINE Good(k) ==
             /\ \A p \in 1 .. k : m[k].b[Leaf(p, 1)] = y[p]
             /\ \A v \in m[k].w : v[2] \in 1 .. k
           T == {k \in 0 .. n : Good(k)}
<1>9. 0 \in T
  BY <1>2, <1>8
<1>10. ASSUME NEW k \in 0 .. n - 1, k \in T
       PROVE  k + 1 \in T
  <2> DEFINE j == k + 1
  <2>1. /\ j \in 1 .. n /\ j - 1 = k /\ j \in 0 .. n /\ k \in 0 .. n
        /\ \A p \in 1 .. j : p \in 1 .. k \/ p = j
        /\ \A p \in 1 .. k : p # j /\ p \in 1 .. j /\ p \in Nat
    BY <1>2
  <2>10. j \in 1 .. j
    OBVIOUS
  <2>2. Good(k)
    BY <1>10
  <2> HIDE DEF j, T
  <2>3. /\ \A p \in 1 .. k : m[k].b[Leaf(p, 1)] = y[p]
        /\ \A v \in m[k].w : v[2] \in 1 .. k
    BY <2>2
  <2> HIDE DEF Good
  <2>4. /\ Leads(BOLeaves(LeavesOf(j, lc)) \o PredUnion(j, lc), bit, m[k], m[j])
        /\ m[k] \in States /\ m[j] \in States
    BY <1>8, <2>1
  <2>5. \A v \in m[k].w : v[2] # j
    BY <2>1, <2>3
  <2>6. m[j].b[Leaf(j, 1)] = y[j] /\ OnlyPred(j, m[k], m[j])
    <3> DEFINE f == m[k]  g == m[j]
    <3>1. /\ Leads(BOLeaves(LeavesOf(j, lc)) \o PredUnion(j, lc), bit, f, g)
          /\ f \in States /\ g \in States /\ j \in 1 .. Len(lc) /\ \A v \in f.w : v[2] # j
      BY <2>1, <2>4, <2>5
    <3> HIDE DEF f, g, n
    <3>2. g.b[Leaf(j, 1)] = y[j] /\ OnlyPred(j, f, g)
      BY <3>1, LeadsOnePred
    <3> QED
      BY <3>2 DEF f, g
  <2>7. Good(j)
    <3>1. ASSUME NEW p \in 1 .. j
          PROVE  m[j].b[Leaf(p, 1)] = y[p]
      <4>1. CASE p = j
        BY <2>6, <4>1
      <4>2. CASE p # j
        <5>1. p \in 1 .. k /\ p \in Nat /\ 1 \in Nat
          BY <2>1, <4>2
        <5>2. Leaf(p, 1) \in Reg /\ Leaf(p, 1)[2] = p
          BY <5>1 DEF Leaf, Reg
        <5> QED
          BY <2>3, <2>6, <4>2, <5>1, <5>2 DEF OnlyPred
      <4> QED
        BY <4>1, <4>2
    <3>2. \A v \in m[j].w : v[2] \in 1 .. j
      <4> SUFFICES ASSUME NEW v \in m[j].w PROVE v[2] \in 1 .. j
        OBVIOUS
      <4>1. v \in m[k].w \/ v[2] = j
        BY <2>6 DEF OnlyPred
      <4> QED
        BY <2>1, <2>3, <2>10, <4>1
    <3> QED
      BY <3>1, <3>2 DEF Good
  <2> QED
    BY <2>1, <2>7 DEF j, T
<1>11. n \in T
  <2> HIDE DEF T, n
  <2>1. 0 .. n \subseteq T
    BY <1>2, <1>9, <1>10, BoundedInduction
  <2> QED
    BY <1>2, <2>1
<1>12. Firsts(lc, y, u)
  <2>1. \A p \in 1 .. n : u.b[Leaf(p, 1)] = y[p]
    BY <1>8, <1>11
  <2> QED
    BY <2>1, TruthBits DEF Firsts
<1>13. Leads(Union(op, [p \in 1 .. Len(lc) |-> Leaf(p, 1)]), bit, u, t)
  BY <1>6 DEF c
<1> QED
  BY <1>12, <1>13, LeadsFinal

\* The truth values y of the predicates are those of their vectors.
PredBits(lc, bit, y) == \A p \in 1 .. Len(lc) : y[p] \in {0, 1} /\ bit[Pred(p)] = y[p]

\* EvalFilter, and VBEvalFilter and VBFSSAggFilterQuery, from the reshared predicates.
LEMMA LeadsVB ==
  ASSUME NEW lc \in LeafCounts, NEW op, NEW y, Combinable(op, y, Len(lc)),
         NEW bit, PredBits(lc, bit, y),
         NEW preds, preds = [p \in DOMAIN lc |-> Pred(p)],
         NEW seq, seq = EvalFilterPlan(preds, op) \/ seq = VBPlan(preds, op),
         NEW s \in States, NEW t \in States, s.w = {}, Leads(seq, bit, s, t)
  PROVE  t.b[Pred(1)] = Joined(op, y, Len(lc))
<1> DEFINE n == Len(preds)
           chain == Accumulate(op, preds, 1)
<1>1. /\ preds \in Seq(Reg) /\ n = Len(lc) /\ n \in Nat \ {0}
      /\ \A i \in 2 .. n : preds[i] # preds[1]
      /\ \A i \in 1 .. n : preds[i] = Pred(i)
  BY PredVectors, AllLeaves
<1>2. op \in {"and", "or"}
  BY DEF Combinable
<1>3. seq = EvalFilterPlan(preds, op) \/ seq = VBPlan(preds, op)
  OBVIOUS
<1>4. \A i \in 1 .. n : preds[i] \in Range(preds) /\ preds[i] \in Reg
  <2>1. DOMAIN preds = 1 .. n
    BY <1>1, LenProperties
  <2> QED
    BY <1>1, <2>1, ElementOfSeq DEF Range
<1>5. Reshare(preds) \in InstrSet /\ <<Reshare(preds)>> \in Seq(InstrSet)
  BY <1>1 DEF Reshare, InstrSet
<1>6. ASSUME NEW r \in States, Leads(<<Reshare(preds)>>, bit, s, r)
      PROVE  Joinable(op, preds, y, r)
  <2>1. \A v \in Reg : v \in Range(preds) => r.b[v] = bit[v]
    BY <1>6, LeadsReshare
  <2>2. \A i \in 1 .. n : y[i] \in {0, 1} /\ r.b[preds[i]] = y[i]
    BY SMTT(40), <1>1, <1>4, <2>1 DEF PredBits
  <2> QED
    BY <1>1, <1>2, <2>2 DEF Joinable, Combinable
<1>7. chain \in Seq(InstrSet)
  <2>1. IsChain(chain, op, preds, 1)
    BY <1>1, <1>2, AccumulateSteps
  <2> QED
    BY <2>1 DEF IsChain
<1>8. ASSUME NEW f \in Nat, NEW rows \in Nat, seq = <<Reshare(preds)>> \o (<<Fill(f, rows)>> \o chain)
      PROVE  t.b[preds[1]] = Joined(op, y, n)
  <2> DEFINE rest == <<Fill(f, rows)>> \o chain
  <2>1. rest \in Seq(InstrSet)
    <3>1. <<Fill(f, rows)>> \in Seq(InstrSet)
      BY <1>8 DEF Fill, InstrSet
    <3> QED
      BY <1>7, <3>1, ConcatProperties
  <2>2. Leads(rest, bit, s, t) <=> Leads(<<Fill(f, rows)>> \o Accumulate(op, preds, 1), bit, s, t)
    OBVIOUS
  <2> HIDE DEF rest
  <2>3. PICK r \in States : Leads(<<Reshare(preds)>>, bit, s, r) /\ Leads(rest, bit, r, t)
    BY <1>5, <1>8, <2>1, LeadsConcat DEF rest
  <2>4. Leads(<<Fill(f, rows)>> \o Accumulate(op, preds, 1), bit, r, t)
    BY <2>3 DEF rest
  <2>5. Joinable(op, preds, y, r) /\ 1 \in Nat
    BY <1>6, <2>3
  <2>6. Joins(op, preds, y, r, t)
    BY <1>8, <2>4, <2>5, LeadsFilled
  <2> QED
    BY <2>6 DEF Joins
<1>9. t.b[preds[1]] = Joined(op, y, n)
  <2>1. CASE seq = EvalFilterPlan(preds, op)
    <3>1. Fill(0, n) \in InstrSet /\ 0 \in Nat /\ n \in Nat
      BY <1>1 DEF Fill, InstrSet
    <3>2. <<Reshare(preds), Fill(0, n)>> \o chain = <<Reshare(preds)>> \o (<<Fill(0, n)>> \o chain)
      BY SMTT(40), <1>5, <1>7, <3>1, PieceTwo
    <3>3. seq = <<Reshare(preds)>> \o (<<Fill(0, n)>> \o chain)
      BY <2>1, <3>2 DEF EvalFilterPlan
    <3> QED
      BY <1>8, <3>1, <3>3
  <2>2. CASE seq = VBPlan(preds, op) /\ n # 1
    <3>1. seq = <<Reshare(preds)>> \o (<<Fill(1, n - 1)>> \o chain)
      BY <2>2 DEF VBPlan
    <3>2. 1 \in Nat /\ n - 1 \in Nat
      BY <1>1
    <3> QED
      BY <1>8, <3>1, <3>2
  <2>3. CASE seq = VBPlan(preds, op) /\ n = 1
    <3>1. seq = <<Reshare(preds)>> \o <<>>
      BY <2>3 DEF VBPlan
    <3>2. seq = <<Reshare(preds)>>
      BY <1>5, <3>1, ConcatEmptySeq
    <3>3. Joinable(op, preds, y, t)
      BY <1>6, <3>2
    <3>4. Joins(op, preds, y, t, t)
      BY <2>3, <3>3, JoinsOne
    <3> QED
      BY <3>4 DEF Joins
  <2> QED
    BY <1>3, <2>1, <2>2, <2>3
<1>10. preds[1] = Pred(1)
  BY <1>1
<1> QED
  BY <1>1, <1>9, <1>10

\* The truth values y of the predicates, in terms of those of the inputs.
Meant(kind, lc, bit, y) ==
  IF kind \in {"bo", "bofss"} THEN Truths(lc, bit, y)
  ELSE PredBits(lc, bit, y)

\* Every handler's plan combines the predicates as the query says.
LEMMA LeadsPlan ==
  ASSUME NEW kind \in {"filter", "vb", "vbfss", "bo", "bofss"}, NEW lc \in LeafCounts, NEW isAnd,
         NEW y, Combinable(Operator(isAnd), y, Len(lc)), NEW bit, Meant(kind, lc, bit, y),
         NEW s \in States, NEW t \in States, s.w = {}, Leads(Plan(kind, lc, isAnd), bit, s, t)
  PROVE  t.b[FilterReg(kind)] = Joined(Operator(isAnd), y, Len(lc))
<1> DEFINE op == Operator(isAnd)
<1>1. CASE kind = "bo"
  <2>1. Plan(kind, lc, isAnd) = BOPlan(lc, op) /\ FilterReg(kind) = Leaf(1, 1)
    BY <1>1 DEF Plan, FilterReg
  <2>2. Truths(lc, bit, y)
    BY <1>1 DEF Meant
  <2> HIDE DEF op
  <2>3. Leads(BOPlan(lc, op), bit, s, t)
    BY <2>1
  <2> QED
    BY <2>1, <2>2, <2>3, LeadsBO DEF op
<1>2. CASE kind = "bofss"
  <2>1. Plan(kind, lc, isAnd) = BOFSSPlan(lc, op) /\ FilterReg(kind) = Leaf(1, 1)
    BY <1>2 DEF Plan, FilterReg
  <2>2. Truths(lc, bit, y)
    BY <1>2 DEF Meant
  <2> HIDE DEF op
  <2>3. Leads(BOFSSPlan(lc, op), bit, s, t)
    BY <2>1
  <2> QED
    BY <2>1, <2>2, <2>3, LeadsBOFSS DEF op
<1>3. CASE kind \in {"filter", "vb", "vbfss"}
  <2> DEFINE seq == Plan(kind, lc, isAnd)
             preds == [p \in DOMAIN lc |-> Pred(p)]
  <2>1. FilterReg(kind) = Pred(1)
    BY <1>3 DEF FilterReg
  <2>2. seq = EvalFilterPlan(preds, op) \/ seq = VBPlan(preds, op)
    BY <1>3 DEF Plan
  <2>3. PredBits(lc, bit, y)
    BY <1>3 DEF Meant
  <2>4. Leads(seq, bit, s, t) /\ preds = [p \in DOMAIN lc |-> Pred(p)]
    OBVIOUS
  <2> HIDE DEF seq, op, preds
  <2> QED
    BY <2>1, <2>2, <2>3, <2>4, LeadsVB DEF op
<1> QED
  BY <1>1, <1>2, <1>3

\* The values after the instructions of the plan are what it leads to.
LEMMA ValuesLead ==
  ASSUME PlanOK, NEW bit, NEW e, Values(e, bit)
  PROVE  \E s \in States, t \in States :
           s.w = {} /\ t.b = e[Len(plan)] /\ Leads(plan, bit, s, t)
<1> DEFINE N == Len(plan)
           g == [i \in 0 .. N |-> [w |-> WrittenIn(plan, i + 1), b |-> e[i]]]
<1>1. N \in Nat
  BY PlanFacts
<1>2. g \in [0 .. N -> States]
  <2>1. \A i \in 0 .. N : WrittenIn(plan, i + 1) \in SUBSET Reg /\ e[i] \in [Reg -> Int]
    BY WrittenReg DEF Values
  <2> QED
    BY <2>1 DEF States
<1>3. \A i \in 0 .. N : g[i].w = WrittenIn(plan, i + 1) /\ g[i].b = e[i]
  OBVIOUS
<1> HIDE DEF g
<1>4. ASSUME NEW i \in 1 .. N
      PROVE  Does(plan[i], bit, g[i - 1], g[i])
  <2>1. i - 1 \in 0 .. N /\ i \in 0 .. N /\ i - 1 + 1 = i
    BY <1>1
  <2>2. /\ g[i - 1].w = WrittenIn(plan, i) /\ g[i - 1].b = e[i - 1]
        /\ g[i].w = WrittenIn(plan, i + 1) /\ g[i].b = e[i]
    BY <1>3, <2>1
  <2>3. WrittenIn(plan, i + 1) = WrittenIn(plan, i) \cup
          (IF plan[i].op \in Exchanges THEN Outputs(plan[i]) ELSE {})
    BY <1>1, WrittenStep
  <2>4. \A v \in Reg : e[i][v] = After(plan[i], e[i - 1], bit, WrittenIn(plan, i), v)
    BY DEF Values
  <2> QED
    BY <2>2, <2>3, <2>4 DEF Does
<1>5. Passed(plan, bit, g)
  BY <1>2, <1>4 DEF Passed
<1>6. Leads(plan, bit, g[0], g[N])
  BY <1>5 DEF Leads
<1>7. 0 \in 0 .. N /\ N \in 0 .. N
  BY <1>1
<1>8. g[0].w = {} /\ g[N].b = e[N]
  <2>1. WrittenIn(plan, 0 + 1) = {}
    BY WrittenNone
  <2> QED
    BY <1>3, <1>7, <2>1
<1>9. g[0] \in States /\ g[N] \in States
  BY <1>2, <1>7
<1> QED
  BY <1>6, <1>8, <1>9

-----------------------------------------------------------------------------
(* What a query asks for.                                                  *)

\* The truth values of the predicates, and of the vectors before the first exchange.
PredBit(p) == BitOf(Aggregate!PredHolds(query.preds[p]))

InputBit(v) ==
  IF v \notin Computed(query.kind, LeafCount) THEN 0
  ELSE IF query.kind \in {"bo", "bofss"}
       THEN query.preds[v[2]][v[3]][IF v[1] = "block" THEN 1 ELSE 2]
       ELSE PredBit(v[2])

\* What there is in a query: leaves are one or two bits.
LEMMA LeafBits ==
  ASSUME PlanOK, Answerable(query), NEW p \in DOMAIN query.preds, NEW l \in DOMAIN query.preds[p]
  PROVE  LET leaf == query.preds[p][l] IN
         /\ query.kind \in {"bo", "bofss"} =>
              /\ leaf[1] \in {0, 1} /\ leaf[2] \in {0, 1}
              /\ leaf[1] * leaf[2] = BitOf(Aggregate!LeafHolds(leaf))
         /\ query.kind \notin {"bo", "bofss"} =>
              leaf[1] \in {0, 1} /\ leaf[1] = BitOf(Aggregate!LeafHolds(leaf))
<1> DEFINE S == Seq({0, 1})  leaf == query.preds[p][l]
<1>1. query.preds \in Seq(Seq(S))
  BY RequestAssumption DEF PlanOK
<1>2. query.preds[p] \in Seq(S)
  <2>1. p \in 1 .. Len(query.preds)
    BY <1>1, LenProperties
  <2> HIDE DEF S
  <2> QED
    BY <1>1, <2>1, ElementOfSeq
<1>3. leaf \in S
  <2>1. l \in 1 .. Len(query.preds[p])
    BY <1>2, LenProperties
  <2> HIDE DEF S
  <2> QED
    BY <1>2, <2>1, ElementOfSeq
<1>4. Len(leaf) = IF query.kind \in {"bo", "bofss"} THEN 2 ELSE 1
  BY DEF Answerable
<1>5. DOMAIN leaf = 1 .. Len(leaf) /\ \A i \in 1 .. Len(leaf) : leaf[i] \in {0, 1}
  BY <1>3, LenProperties, ElementOfSeq
<1> HIDE DEF leaf
<1>6. CASE query.kind \in {"bo", "bofss"}
  <2>1. Len(leaf) = 2 /\ 1 \in 1 .. 2 /\ 2 \in 1 .. 2 /\ \A i \in 1 .. 2 : i = 1 \/ i = 2
    BY <1>4, <1>6
  <2>2. leaf[1] \in {0, 1} /\ leaf[2] \in {0, 1}
    BY <1>5, <2>1
  <2>3. Aggregate!LeafHolds(leaf) <=> leaf[1] = 1 /\ leaf[2] = 1
    BY <1>5, <2>1 DEF Aggregate!LeafHolds
  <2>4. leaf[1] * leaf[2] = BitOf(Aggregate!LeafHolds(leaf))
    BY <2>2, <2>3 DEF BitOf
  <2> QED
    BY <1>6, <2>2, <2>4 DEF leaf
<1>7. CASE query.kind \notin {"bo", "bofss"}
  <2>1. Len(leaf) = 1 /\ 1 \in 1 .. 1 /\ \A i \in 1 .. 1 : i = 1
    BY <1>4, <1>7
  <2>2. leaf[1] \in {0, 1}
    BY <1>5, <2>1
  <2>3. Aggregate!LeafHolds(leaf) <=> leaf[1] = 1
    BY <1>5, <2>1 DEF Aggregate!LeafHolds
  <2>4. leaf[1] = BitOf(Aggregate!LeafHolds(leaf))
    BY <2>2, <2>3 DEF BitOf
  <2> QED
    BY <1>7, <2>2, <2>4 DEF leaf
<1> QED
  BY <1>6, <1>7

InputBits == [v \in Reg |-> InputBit(v)]
PredTruths == [p \in 1 .. Len(LeafCount) |-> PredBit(p)]

\* Where there are several conditions per leaf.
LEMMA InputBitsBO ==
  ASSUME PlanOK, Answerable(query), query.kind \in {"bo", "bofss"},
         NEW p \in DOMAIN query.preds, NEW l \in DOMAIN query.preds[p]
  PROVE  /\ InputBits[Block(p, l)] = query.preds[p][l][1]
         /\ InputBits[Offset(p, l)] = query.preds[p][l][2]
         /\ LeafValue(InputBits, p, l) = BitOf(Aggregate!LeafHolds(query.preds[p][l]))
<1>1. /\ LeafCount \in LeafCounts /\ DOMAIN LeafCount = DOMAIN query.preds
      /\ DOMAIN query.preds[p] = 1 .. LeafCount[p]
  BY PlanFacts
<1>2. p \in 1 .. Len(LeafCount) /\ l \in 1 .. LeafCount[p]
  BY <1>1, AllLeaves
<1>3. /\ Block(p, l) \in Computed(query.kind, LeafCount)
      /\ Offset(p, l) \in Computed(query.kind, LeafCount)
  BY <1>1, <1>2, ComputedLeaves
<1>4. Block(p, l) \in Reg /\ Offset(p, l) \in Reg
  BY <1>2 DEF Block, Offset, Reg
<1>5. /\ Block(p, l)[1] = "block" /\ Block(p, l)[2] = p /\ Block(p, l)[3] = l
      /\ Offset(p, l)[1] = "offset" /\ Offset(p, l)[2] = p /\ Offset(p, l)[3] = l
      /\ "offset" # "block"
  BY LeafNames
<1>6. InputBits[Block(p, l)] = query.preds[p][l][1]
  <2>1. InputBits[Block(p, l)] = InputBit(Block(p, l))
    BY <1>4 DEF InputBits
  <2> QED
    BY <1>3, <1>5, <2>1 DEF InputBit
<1>7. InputBits[Offset(p, l)] = query.preds[p][l][2]
  <2>1. InputBits[Offset(p, l)] = InputBit(Offset(p, l))
    BY <1>4 DEF InputBits
  <2> QED
    BY <1>3, <1>5, <2>1 DEF InputBit
<1>8. LeafValue(InputBits, p, l) = BitOf(Aggregate!LeafHolds(query.preds[p][l]))
  BY <1>6, <1>7, LeafBits DEF LeafValue
<1> QED
  BY <1>6, <1>7, <1>8

\* Where the leaves of a predicate are summed.
LEMMA InputBitsVB ==
  ASSUME PlanOK, query.kind \notin {"bo", "bofss"}, NEW p \in DOMAIN query.preds
  PROVE  InputBits[Pred(p)] = PredBit(p)
<1>1. /\ LeafCount \in LeafCounts /\ DOMAIN LeafCount = DOMAIN query.preds
      /\ DOMAIN LeafCount = 1 .. Len(LeafCount)
  BY PlanFacts, AllLeaves
<1>2. Pred(p) \in Reg /\ Pred(p)[2] = p
  BY <1>1 DEF Pred, Reg
<1>3. Pred(p) \in Computed(query.kind, LeafCount)
  BY <1>1 DEF Computed
<1>4. InputBits[Pred(p)] = InputBit(Pred(p))
  BY <1>2 DEF InputBits
<1> QED
  BY <1>2, <1>3, <1>4 DEF InputBit

\* They are numbers.
LEMMA InputBitsInt ==
  ASSUME PlanOK, Answerable(query)
  PROVE  InputBits \in [Reg -> Int]
<1> SUFFICES ASSUME NEW v \in Reg PROVE InputBit(v) \in Int
  BY DEF InputBits
<1>1. /\ DOMAIN LeafCount = DOMAIN query.preds
      /\ \A p \in DOMAIN query.preds : DOMAIN query.preds[p] = 1 .. LeafCount[p]
  BY PlanFacts
<1>2. \A p : PredBit(p) \in Int
  BY DEF PredBit, BitOf
<1>3. CASE query.kind \in {"bo", "bofss"} /\ v \in Computed(query.kind, LeafCount)
  <2>1. PICK p \in DOMAIN LeafCount : \E l \in 1 .. LeafCount[p] : v \in {Block(p, l), Offset(p, l)}
    BY <1>3 DEF Computed
  <2>2. PICK l \in 1 .. LeafCount[p] : v \in {Block(p, l), Offset(p, l)}
    BY <2>1
  <2>3. p \in DOMAIN query.preds /\ l \in DOMAIN query.preds[p]
    BY <1>1, <2>1, <2>2
  <2>4. query.preds[p][l][1] \in {0, 1} /\ query.preds[p][l][2] \in {0, 1}
    BY <1>3, <2>3, LeafBits
  <2>5. v[2] = p /\ v[3] = l
    BY <2>2, LeafNames
  <2> QED
    BY <1>3, <2>4, <2>5 DEF InputBit
<1>4. CASE ~(query.kind \in {"bo", "bofss"} /\ v \in Computed(query.kind, LeafCount))
  BY <1>2, <1>4 DEF InputBit
<1> QED
  BY <1>3, <1>4

\* The inputs mean the predicates.
LEMMA InputBitsMeant ==
  ASSUME PlanOK, Answerable(query)
  PROVE  Meant(query.kind, LeafCount, InputBits, PredTruths)
<1>1. /\ LeafCount \in LeafCounts /\ DOMAIN LeafCount = DOMAIN query.preds
      /\ DOMAIN LeafCount = 1 .. Len(LeafCount)
      /\ \A p \in DOMAIN query.preds : DOMAIN query.preds[p] = 1 .. LeafCount[p]
  BY PlanFacts, AllLeaves
<1>2. \A p \in 1 .. Len(LeafCount) : PredTruths[p] = PredBit(p)
  BY DEF PredTruths
<1>3. CASE query.kind \notin {"bo", "bofss"}
  <2>1. ASSUME NEW p \in 1 .. Len(LeafCount)
        PROVE  PredTruths[p] \in {0, 1} /\ InputBits[Pred(p)] = PredTruths[p]
    BY <1>1, <1>2, <1>3, InputBitsVB DEF PredBit, BitOf
  <2> QED
    BY <1>3, <2>1 DEF Meant, PredBits
<1>4. CASE query.kind \in {"bo", "bofss"}
  <2>1. ASSUME NEW p \in 1 .. Len(LeafCount)
        PROVE  /\ \A l \in 1 .. LeafCount[p] : LeafValue(InputBits, p, l) \in {0, 1}
               /\ AtMostOne(LeafValues(InputBits, LeafCount, p), LeafCount[p])
               /\ PredTruths[p] = Joined("or", LeafValues(InputBits, LeafCount, p), LeafCount[p])
    <3> DEFINE m == LeafCount[p]
               x == LeafValues(InputBits, LeafCount, p)
               holds(l) == Aggregate!LeafHolds(query.preds[p][l])
    <3>1. p \in DOMAIN query.preds /\ DOMAIN query.preds[p] = 1 .. m
      BY <1>1
    <3>2. ASSUME NEW l \in 1 .. m
          PROVE  x[l] = LeafValue(InputBits, p, l) /\ x[l] = BitOf(holds(l))
      <4>1. x[l] = LeafValue(InputBits, p, l)
        BY DEF LeafValues
      <4>2. LeafValue(InputBits, p, l) = BitOf(holds(l))
        BY <1>4, <3>1, InputBitsBO
      <4> QED
        BY <4>1, <4>2
    <3>3. \A l \in 1 .. m : x[l] \in {0, 1} /\ (x[l] = 1 <=> holds(l))
      <4> HIDE DEF x, holds, m
      <4> QED
        BY <3>2 DEF BitOf
    <3>4. AtMostOne(x, m)
      <4>1. \A i, j \in 1 .. m : holds(i) /\ holds(j) => i = j
        BY <3>1 DEF Answerable
      <4> HIDE DEF x, holds, m
      <4> QED
        BY <3>3, <4>1 DEF AtMostOne
    <3>5. PredTruths[p] = Joined("or", x, m)
      <4>1. Aggregate!PredHolds(query.preds[p]) <=> \E l \in 1 .. m : holds(l)
        BY <3>1 DEF Aggregate!PredHolds
      <4>2. PredTruths[p] = BitOf(Aggregate!PredHolds(query.preds[p]))
        BY <1>2 DEF PredBit
      <4> HIDE DEF x, holds, m
      <4>3. (\E l \in 1 .. m : x[l] = 1) <=> \E l \in 1 .. m : holds(l)
        BY <3>3
      <4> QED
        BY <4>1, <4>2, <4>3 DEF Joined, BitOf
    <3>6. \A l \in 1 .. m : LeafValue(InputBits, p, l) \in {0, 1}
      <4> HIDE DEF x, holds, m
      <4> QED
        BY <3>2, <3>3
    <3> QED
      BY <3>4, <3>5, <3>6
  <2>2. Truths(LeafCount, InputBits, PredTruths)
    BY <2>1 DEF Truths
  <2> QED
    BY <1>4, <2>2 DEF Meant
<1> QED
  BY <1>3, <1>4

\* Together they are what the query selects.
LEMMA PredTruthsJoined ==
  ASSUME PlanOK, Answerable(query)
  PROVE  /\ Combinable(Operator(query.isAnd), PredTruths, Len(LeafCount))
         /\ Joined(Operator(query.isAnd), PredTruths, Len(LeafCount))
              = BitOf(Aggregate!Selected(query))
<1> DEFINE n == Len(LeafCount)
           holds(p) == Aggregate!PredHolds(query.preds[p])
<1>1. DOMAIN query.preds = 1 .. n
  BY PlanFacts, AllLeaves
<1>2. \A p \in 1 .. n : PredTruths[p] = BitOf(holds(p))
  BY DEF PredTruths, PredBit
<1>3. \A p \in 1 .. n : PredTruths[p] = 1 <=> holds(p)
  <2> HIDE DEF n, holds
  <2> QED
    BY <1>2 DEF BitOf
<1>4. CASE query.isAnd
  <2>1. Operator(query.isAnd) = "and"
    BY <1>4 DEF Operator
  <2>2. Aggregate!Selected(query) <=> \A p \in 1 .. n : holds(p)
    BY <1>1, <1>4 DEF Aggregate!Selected
  <2> HIDE DEF n, holds
  <2>3. (\A p \in 1 .. n : PredTruths[p] = 1) <=> \A p \in 1 .. n : holds(p)
    BY <1>3
  <2> QED
    BY <2>1, <2>2, <2>3 DEF Joined, BitOf, Combinable, n
<1>5. CASE ~query.isAnd
  <2>1. Operator(query.isAnd) = "or"
    BY <1>5 DEF Operator
  <2>2. Aggregate!Selected(query) <=> \E p \in 1 .. n : holds(p)
    BY <1>1, <1>5 DEF Aggregate!Selected
  <2>3. \A p, r \in 1 .. n : holds(p) /\ holds(r) => p = r
    BY <1>1, <1>5 DEF Answerable
  <2> HIDE DEF n, holds
  <2>4. (\E p \in 1 .. n : PredTruths[p] = 1) <=> \E p \in 1 .. n : holds(p)
    BY <1>3
  <2>5. AtMostOne(PredTruths, n)
    BY <1>3, <2>3 DEF AtMostOne
  <2> QED
    BY <2>1, <2>2, <2>4, <2>5 DEF Joined, BitOf, Combinable, n
<1> QED
  BY <1>4, <1>5

\* So the plan of an answerable query leaves in the filter what it selects.
LEMMA FilterValue ==
  ASSUME PlanOK, Answerable(query), NEW e, Values(e, InputBits)
  PROVE  e[Len(plan)][FilterReg(query.kind)] = BitOf(Aggregate!Selected(query))
<1>1. PICK s \in States, t \in States :
        s.w = {} /\ t.b = e[Len(plan)] /\ Leads(plan, InputBits, s, t)
  BY ValuesLead
<1>2. /\ query.kind \in {"filter", "vb", "vbfss", "bo", "bofss"} /\ LeafCount \in LeafCounts
      /\ plan = Plan(query.kind, LeafCount, query.isAnd)
  BY PlanFacts DEF PlanOK
<1>3. Leads(Plan(query.kind, LeafCount, query.isAnd), InputBits, s, t)
  BY <1>1, <1>2
<1> DEFINE k == query.kind  lc == LeafCount  a == query.isAnd  y == PredTruths  b == InputBits
<1>4. /\ k \in {"filter", "vb", "vbfss", "bo", "bofss"} /\ lc \in LeafCounts
      /\ Combinable(Operator(a), y, Len(lc)) /\ Meant(k, lc, b, y) /\ Leads(Plan(k, lc, a), b, s, t)
      /\ Joined(Operator(a), y, Len(lc)) = BitOf(Aggregate!Selected(query))
  BY <1>2, <1>3, InputBitsMeant, PredTruthsJoined
<1> HIDE DEF k, lc, a, y, b
<1>5. t.b[FilterReg(k)] = Joined(Operator(a), y, Len(lc))
  BY <1>1, <1>4, LeadsPlan
<1> QED
  BY <1>1, <1>4, <1>5 DEF k

-----------------------------------------------------------------------------
(* What the dot products add up to.                                        *)

\* Two pairs of halves with the same random half.
Matched(j, i) == IF UsesKeys THEN PairSeed(j) = PairSeed(i) ELSE j = i

\* The random half.
RandomHalf(c, b, j) ==
  IF UsesKeys THEN Rand(PairSeed(j), Append(c, b)) % Group ELSE Rand(query.seed, c \o <<b, j>>)

\* The halves of a query vector's element add up to it.
LEMMA HalvesAdd ==
  ASSUME RandNumbers, PlanOK, NEW a \in Names, NEW p \in Nat, NEW l \in Nat, NEW b \in {1, 2},
         NEW bit \in {0, 1}, NEW j \in Server, NEW i \in Server, Matched(j, i)
  PROVE  LET c == <<a, p, l>> IN
         /\ Half(c, bit, b, j, 0, 1) \in Int /\ Half(c, bit, b, i, 1, 1) \in Int
         /\ Same(Half(c, bit, b, j, 0, 1) + Half(c, bit, b, i, 1, 1), QueryEntry(bit, b, 1))
         /\ QueryEntry(bit, b, 1) = IF b = 1 THEN bit ELSE 1 - bit
<1> DEFINE c == <<a, p, l>>
           modulus == IF UsesKeys THEN Group ELSE Word
           q == QueryEntry(bit, b, 1)
           r(k) == RandomHalf(c, b, k)
<1>1. query \in Requests /\ Server = {0, 1, 2} /\ b \in Nat
  BY ServerFacts DEF PlanOK
<1>2. Append(c, b) = <<a, p, l, b>> /\ \A k : c \o <<b, k>> = <<a, p, l, b, k>>
  BY AppendThree, ConcatTwo
<1>3. Append(c, b) \o [k \in 1 .. 1 - 1 |-> 1] = Append(c, b)
  <2>1. [k \in 1 .. 1 - 1 |-> 1] = <<>>
    OBVIOUS
  <2> DEFINE S == {a, p, l, b}  t == <<a, p, l, b>>
  <2>2. t \in Seq(S)
    OBVIOUS
  <2> HIDE DEF S, t
  <2>3. t \o <<>> = t
    BY <2>2, ConcatEmptySeq
  <2> HIDE DEF c
  <2> QED
    BY <1>2, <2>1, <2>3 DEF t
<1>4. ASSUME NEW k \in Server
      PROVE  r(k) \in Int
  <2>1. k \in 0 .. 2 /\ k \in Nat
    BY <1>1
  <2>2. PairSeed(k) \in {query.seed} \cup {query.clock[n] : n \in 0 .. 2}
    BY <2>1 DEF PairSeed
  <2>3. Rand(PairSeed(k), <<a, p, l, b>>) \in Int
    BY <1>1, <2>1, <2>2 DEF RandNumbers
  <2>4. Rand(query.seed, <<a, p, l, b, k>>) \in Int
    BY <1>1, <2>1 DEF RandNumbers
  <2> HIDE DEF c
  <2>5. CASE UsesKeys
    <3>1. r(k) = Rand(PairSeed(k), <<a, p, l, b>>) % Group
      BY <1>2, <2>5 DEF RandomHalf
    <3> QED
      BY <2>3, <3>1, SameGroup
  <2>6. CASE ~UsesKeys
    BY <1>2, <2>4, <2>6 DEF RandomHalf
  <2> QED
    BY <2>5, <2>6
<1>5. q = (IF b = 1 THEN bit ELSE 1 - bit) /\ q \in Int
  BY DEF QueryEntry
<1> HIDE DEF c, q
<1>6. ASSUME NEW k, NEW slot
      PROVE  Half(c, bit, b, k, slot, 1)
               = IF slot = RandomSlot(k) THEN r(k) ELSE (q - r(k)) % modulus
  BY <1>3 DEF Half, RandomHalf, q
<1>7. r(j) = r(i) /\ RandomSlot(j) = RandomSlot(i) /\ RandomSlot(j) \in {0, 1}
  BY DEF Matched, RandomHalf, RandomSlot
<1> DEFINE x == r(j)  y == (q - x) % modulus
<1>8. x \in Int
  BY <1>4
<1> HIDE DEF r
<1>9. y \in Int /\ Same(y, q - x) /\ q - x \in Int
  <2>1. q - x \in Int
    BY <1>5, <1>8
  <2> HIDE DEF x
  <2> QED
    BY <2>1, SameWord, SameGroup
<1>10. \/ Half(c, bit, b, j, 0, 1) = x /\ Half(c, bit, b, i, 1, 1) = y
       \/ Half(c, bit, b, j, 0, 1) = y /\ Half(c, bit, b, i, 1, 1) = x
  BY <1>6, <1>7
<1>11. Same(x + y, q)
  <2> HIDE DEF x, y
  <2>1. Same(x, x)
    BY <1>8, SameRefl
  <2>2. Same(x + y, x + (q - x))
    BY <1>8, <1>9, <2>1, SameAdd
  <2>3. x + (q - x) = q
    BY <1>5, <1>8
  <2> QED
    BY <2>2, <2>3
<1> HIDE DEF x, y
<1>12. x + y = y + x
  BY <1>8, <1>9
<1>13. /\ Half(c, bit, b, j, 0, 1) \in Int /\ Half(c, bit, b, i, 1, 1) \in Int
       /\ Same(Half(c, bit, b, j, 0, 1) + Half(c, bit, b, i, 1, 1), q)
  BY <1>8, <1>9, <1>10, <1>11, <1>12
<1> QED
  BY <1>5, <1>13 DEF c, q

\* Two words that come from the same share of a row.
LEMMA TwoDots ==
  ASSUME NEW h0 \in Int, NEW h1 \in Int, NEW g0 \in Int, NEW g1 \in Int,
         NEW t \in Int, NEW u \in Int, NEW q \in Int, NEW r \in Int,
         Same(h0 + h1, q), Same(g0 + g1, r)
  PROVE  /\ (h0 * t + g0 * u) % Word \in Int /\ (h1 * t + g1 * u) % Word \in Int
         /\ Same(((h0 * t + g0 * u) % Word) + ((h1 * t + g1 * u) % Word), q * t + r * u)
<1> DEFINE x == h0 * t + g0 * u  y == h1 * t + g1 * u
           h == h0 + h1  g == g0 + g1  ht == h * t  gu == g * u  qt == q * t  ru == r * u
           v == x % Word  w == y % Word
<1>1. x \in Int /\ y \in Int
  OBVIOUS
<1>2. h \in Int /\ g \in Int
  OBVIOUS
<1>3. x + y = ht + gu
  OBVIOUS
<1> HIDE DEF x, y
<1>4. v \in Int /\ w \in Int /\ Same(v, x) /\ Same(w, y)
  BY <1>1, SameWord
<1> HIDE DEF v, w
<1>5. Same(v + w, x + y)
  BY <1>1, <1>4, SameAdd
<1> HIDE DEF h, g
<1>6. Same(ht, qt) /\ Same(gu, ru)
  BY <1>2, SameMultiple DEF h, g
<1>7. ht \in Int /\ gu \in Int /\ qt \in Int /\ ru \in Int
  BY <1>2
<1> HIDE DEF ht, gu, qt, ru
<1>8. Same(ht + gu, qt + ru)
  BY <1>6, <1>7, SameAdd
<1>9. Same(v + w, qt + ru)
  <2>1. v + w \in Int /\ x + y \in Int /\ qt + ru \in Int
    BY <1>1, <1>4, <1>7
  <2> DEFINE aa == v + w  bb == x + y  cc == qt + ru
  <2>2. Same(aa, bb) /\ Same(bb, cc)
    BY <1>3, <1>5, <1>8
  <2> HIDE DEF aa, bb, cc
  <2>3. Same(aa, cc)
    BY <2>1, <2>2, SameTrans DEF aa, bb, cc
  <2> QED
    BY <2>3 DEF aa, cc
<1> QED
  BY <1>4, <1>9 DEF v, w, x, y, qt, ru

\* The dot product with the first half of share j, and that with its second
\* half, which the predecessor of server j has.
FirstDot(part, c, bit, j) == Dot(j, part, c, bit, 0, 1)
SecondDot(part, c, bit, j) == Dot(Prev(j), part, c, bit, 1, 1)

\* The share's elements in the two buckets.
ShareAt(part, b, j) == Split(IF b = 1 THEN 1 ELSE 0, <<part, b>>, j)

\* The two dot products with a share add up to what the condition selects of it.
LEMMA ShareDots ==
  ASSUME RandNumbers, PlanOK, Answerable(query), NEW part \in Names, NEW a \in Names,
         NEW p \in Nat, NEW l \in Nat, NEW bit \in {0, 1}, NEW j \in Server
  PROVE  LET c == <<a, p, l>> IN
         /\ FirstDot(part, c, bit, j) \in Int /\ SecondDot(part, c, bit, j) \in Int
         /\ Same(FirstDot(part, c, bit, j) + SecondDot(part, c, bit, j),
                 bit * ShareAt(part, 1, j) + (1 - bit) * ShareAt(part, 2, j))
<1> DEFINE c == <<a, p, l>>
           i == PairAt(Prev(j), 1)
           H(b) == Half(c, bit, b, j, 0, 1)
           G(b) == Half(c, bit, b, i, 1, 1)
           T(b) == ShareAt(part, b, j)
           Q(b) == QueryEntry(bit, b, 1)
<1>1. Server = {0, 1, 2} /\ Prev(0) = 2 /\ Prev(1) = 0 /\ Prev(2) = 1
  BY ServerFacts
<1>2. Matched(j, i) /\ i \in Server
  <2>1. Next3(2) = 0 /\ Next3(0) = 1 /\ Next3(1) = 2
    BY DEF Next3
  <2>2. CASE query.kind = "filter"
    <3>1. i = Prev(Prev(j))
      BY <2>2 DEF PairAt
    <3>2. UsesKeys /\ PairSeed(j) = PairSeed(i)
      BY <2>2 DEF UsesKeys, PairSeed
    <3> QED
      BY <1>1, <3>1, <3>2 DEF Matched
  <2>3. CASE query.kind = "vbfss"
    <3>1. i = Prev(Prev(j))
      BY <2>3 DEF PairAt
    <3>2. query.clock[0] = query.clock[1] /\ query.clock[0] = query.clock[2]
      BY <2>3 DEF Answerable
    <3>3. i \in Server
      BY <1>1, <3>1
    <3>4. UsesKeys /\ PairSeed(j) = query.clock[0] /\ PairSeed(i) = query.clock[0]
      BY <1>1, <2>3, <3>2, <3>3 DEF UsesKeys, PairSeed
    <3> QED
      BY <3>3, <3>4 DEF Matched
  <2>4. CASE query.kind \notin {"filter", "vbfss"}
    <3>1. i = j
      BY <1>1, <2>1, <2>4 DEF PairAt
    <3> QED
      BY <3>1 DEF Matched
  <2> QED
    BY <2>2, <2>3, <2>4
<1> HIDE DEF i
<1>3. ASSUME NEW b \in {1, 2}
      PROVE  /\ H(b) \in Int /\ G(b) \in Int /\ Same(H(b) + G(b), Q(b))
             /\ Q(b) = IF b = 1 THEN bit ELSE 1 - bit
  BY <1>2, HalvesAdd
<1>4. ASSUME NEW b \in {1, 2}
      PROVE  T(b) \in Int
  <2> DEFINE x == IF b = 1 THEN 1 ELSE 0
             t == <<part, b>>
  <2>1. x \in Int /\ b \in Nat
    OBVIOUS
  <2> HIDE DEF x
  <2>2. Split(x, t, 0) \in Int /\ Split(x, t, 1) \in Int /\ Split(x, t, 2) \in Int
    BY <2>1, SplitSum
  <2>3. T(b) = Split(x, t, j)
    BY DEF ShareAt, x
  <2> HIDE DEF T, t
  <2> QED
    BY <1>1, <2>2, <2>3
<1>5. /\ \A b : TableShare(part, b, j, 0) = T(b)
      /\ \A b : TableShare(part, b, Prev(j), 1) = T(b)
  <2>1. (j + 0) % 3 = j /\ (Prev(j) + 1) % 3 = j
    BY <1>1
  <2> QED
    BY <2>1 DEF TableShare, ShareAt
<1>6. PairAt(j, 0) = j
  BY DEF PairAt
<1> HIDE DEF c
<1>7. FirstDot(part, c, bit, j) = (H(1) * T(1) + H(2) * T(2)) % Word
  BY <1>5, <1>6 DEF FirstDot, Dot
<1>8. SecondDot(part, c, bit, j) = (G(1) * T(1) + G(2) * T(2)) % Word
  BY <1>5 DEF SecondDot, Dot, i
<1> DEFINE h0 == H(1)  h1 == G(1)  g0 == H(2)  g1 == G(2)  t == T(1)  u == T(2)  q == Q(1)  r == Q(2)
<1>9. /\ h0 \in Int /\ h1 \in Int /\ g0 \in Int /\ g1 \in Int /\ t \in Int /\ u \in Int
      /\ q = bit /\ r = 1 - bit /\ Same(h0 + h1, q) /\ Same(g0 + g1, r)
  <2>1. 1 \in {1, 2} /\ 2 \in {1, 2} /\ 2 # 1
    OBVIOUS
  <2> HIDE DEF H, G, T, Q
  <2> QED
    BY <1>3, <1>4, <2>1
<1>10. /\ h0 \in Int /\ h1 \in Int /\ g0 \in Int /\ g1 \in Int /\ t \in Int /\ u \in Int
       /\ q \in Int /\ r \in Int /\ Same(h0 + h1, q) /\ Same(g0 + g1, r)
  <2> HIDE DEF h0, h1, g0, g1, t, u, q, r
  <2> QED
    BY <1>9
<1> HIDE DEF h0, h1, g0, g1, t, u, q, r
<1>11. /\ (h0 * t + g0 * u) % Word \in Int /\ (h1 * t + g1 * u) % Word \in Int
       /\ Same(((h0 * t + g0 * u) % Word) + ((h1 * t + g1 * u) % Word), q * t + r * u)
  BY ZenonT(60), <1>10, TwoDots
<1>12. /\ FirstDot(part, c, bit, j) = (h0 * t + g0 * u) % Word
       /\ SecondDot(part, c, bit, j) = (h1 * t + g1 * u) % Word
  BY <1>7, <1>8 DEF h0, h1, g0, g1, t, u
<1>13. q * t + r * u = bit * ShareAt(part, 1, j) + (1 - bit) * ShareAt(part, 2, j)
  BY <1>9 DEF t, u
<1> QED
  BY <1>11, <1>12, <1>13 DEF c

\* What the servers' dot products add up to.
DotSum(part, c, bit) ==
  (Dot(0, part, c, bit, 0, 1) + Dot(0, part, c, bit, 1, 1))
    + (Dot(1, part, c, bit, 0, 1) + Dot(1, part, c, bit, 1, 1))
    + (Dot(2, part, c, bit, 0, 1) + Dot(2, part, c, bit, 1, 1))

\* They add up to whether the row satisfies the condition.
LEMMA DotsAdd ==
  ASSUME RandNumbers, PlanOK, Answerable(query), NEW part \in Names, NEW a \in Names,
         NEW p \in Nat, NEW l \in Nat, NEW bit \in {0, 1}
  PROVE  LET c == <<a, p, l>> IN
         /\ \A s \in Server : Dot(s, part, c, bit, 0, 1) \in Int /\ Dot(s, part, c, bit, 1, 1) \in Int
         /\ Same(DotSum(part, c, bit), bit)
<1> DEFINE c == <<a, p, l>>
           F(j) == FirstDot(part, c, bit, j)
           S(j) == SecondDot(part, c, bit, j)
           T(b, j) == ShareAt(part, b, j)
<1>1. Server = {0, 1, 2} /\ Prev(0) = 2 /\ Prev(1) = 0 /\ Prev(2) = 1
  BY ServerFacts
<1>2. ASSUME NEW j \in Server
      PROVE  F(j) \in Int /\ S(j) \in Int
             /\ Same(F(j) + S(j), bit * T(1, j) + (1 - bit) * T(2, j))
  BY ShareDots
<1>3. ASSUME NEW b \in {1, 2}
      PROVE  /\ T(b, 0) \in Int /\ T(b, 1) \in Int /\ T(b, 2) \in Int
             /\ Same(T(b, 0) + T(b, 1) + T(b, 2), IF b = 1 THEN 1 ELSE 0)
  <2> DEFINE x == IF b = 1 THEN 1 ELSE 0
             t == <<part, b>>
  <2>1. x \in Int /\ b \in Nat
    OBVIOUS
  <2> HIDE DEF x
  <2>2. /\ Split(x, t, 0) \in Int /\ Split(x, t, 1) \in Int /\ Split(x, t, 2) \in Int
        /\ Same(Split(x, t, 0) + Split(x, t, 1) + Split(x, t, 2), x)
    BY <2>1, SplitSum
  <2>3. \A j : T(b, j) = Split(x, t, j)
    BY DEF ShareAt, x
  <2> HIDE DEF T, t
  <2> QED
    BY <2>2, <2>3 DEF x
<1> DEFINE t0 == T(1, 0)  t1 == T(1, 1)  t2 == T(1, 2)  u0 == T(2, 0)  u1 == T(2, 1)  u2 == T(2, 2)
           f0 == F(0)  f1 == F(1)  f2 == F(2)  s0 == S(0)  s1 == S(1)  s2 == S(2)  r == 1 - bit
<1>4. /\ t0 \in Int /\ t1 \in Int /\ t2 \in Int /\ u0 \in Int /\ u1 \in Int /\ u2 \in Int
      /\ Same(t0 + t1 + t2, 1) /\ Same(u0 + u1 + u2, 0)
  <2>1. 1 \in {1, 2} /\ 2 \in {1, 2} /\ 2 # 1
    OBVIOUS
  <2> HIDE DEF T
  <2> QED
    BY <1>3, <2>1
<1>5. /\ f0 \in Int /\ f1 \in Int /\ f2 \in Int /\ s0 \in Int /\ s1 \in Int /\ s2 \in Int
      /\ Same(f0 + s0, bit * t0 + r * u0)
      /\ Same(f1 + s1, bit * t1 + r * u1)
      /\ Same(f2 + s2, bit * t2 + r * u2)
  <2> HIDE DEF F, S, T, c
  <2> QED
    BY <1>1, <1>2
<1>6. bit \in Int /\ r \in Int
  OBVIOUS
<1>7. DotSum(part, c, bit) = (f0 + s1) + (f1 + s2) + (f2 + s0)
  BY <1>1 DEF DotSum, FirstDot, SecondDot
<1>8. \A s \in Server : Dot(s, part, c, bit, 0, 1) \in Int /\ Dot(s, part, c, bit, 1, 1) \in Int
  <2>1. \A s \in Server : Dot(s, part, c, bit, 0, 1) = F(s)
    BY DEF FirstDot
  <2>2. Dot(0, part, c, bit, 1, 1) = s1 /\ Dot(1, part, c, bit, 1, 1) = s2
        /\ Dot(2, part, c, bit, 1, 1) = s0
    BY <1>1 DEF SecondDot
  <2> HIDE DEF F, S, c
  <2> QED
    BY <1>1, <1>2, <1>5, <2>1, <2>2
<1> HIDE DEF t0, t1, t2, u0, u1, u2, f0, f1, f2, s0, s1, s2, r
<1> DEFINE V == t0 + t1 + t2  U == u0 + u1 + u2
           sum == (f0 + s0) + (f1 + s1) + (f2 + s2)
           mid == (bit * t0 + r * u0) + (bit * t1 + r * u1) + (bit * t2 + r * u2)
<1>9. Same(sum, mid) /\ sum \in Int /\ mid \in Int
  <2> DEFINE x0 == f0 + s0  x1 == f1 + s1  x2 == f2 + s2
             y0 == bit * t0 + r * u0  y1 == bit * t1 + r * u1  y2 == bit * t2 + r * u2
  <2>1. /\ x0 \in Int /\ x1 \in Int /\ x2 \in Int /\ y0 \in Int /\ y1 \in Int /\ y2 \in Int
        /\ Same(x0, y0) /\ Same(x1, y1) /\ Same(x2, y2)
    BY <1>4, <1>5, <1>6
  <2> HIDE DEF x0, x1, x2, y0, y1, y2
  <2>2. Same(x0 + x1 + x2, y0 + y1 + y2) /\ x0 + x1 + x2 \in Int /\ y0 + y1 + y2 \in Int
    BY <2>1, SameThree
  <2> QED
    BY <2>2 DEF x0, x1, x2, y0, y1, y2
<1>10. mid = V * bit + U * r /\ V \in Int /\ U \in Int
  BY <1>4, <1>6
<1>11. DotSum(part, c, bit) = sum
  BY <1>5, <1>7
<1>12. Same(V, 1) /\ Same(U, 0)
  BY <1>4
<1> DEFINE one == 1  zip == 0
<1>120. one \in Int /\ zip \in Int /\ Same(V, one) /\ Same(U, zip)
  BY <1>12
<1> HIDE DEF sum, mid, V, U, one, zip
<1>13. Same(V * bit, one * bit) /\ Same(U * r, zip * r)
  BY <1>6, <1>10, <1>120, SameMultiple
<1>14. Same(V * bit + U * r, bit)
  <2> DEFINE x == V * bit  y == U * r  z == one * bit  w == zip * r
  <2>1. x \in Int /\ y \in Int /\ z \in Int /\ w \in Int /\ z + w = bit
    BY <1>6, <1>10 DEF one, zip
  <2>2. Same(x, z) /\ Same(y, w)
    BY <1>13
  <2> HIDE DEF x, y, z, w
  <2>3. Same(x + y, z + w)
    BY <2>1, <2>2, SameAdd
  <2> QED
    BY <2>1, <2>3 DEF x, y
<1>15. Same(sum, bit)
  BY <1>6, <1>9, <1>10, <1>14, SameTrans
<1> QED
  BY <1>8, <1>11, <1>15 DEF c

-----------------------------------------------------------------------------
(* The vectors that the handlers compute before the first exchange mean the *)
(* truth values of the conditions.                                         *)

\* There is always a column of values.
LEMMA DotPairValues ==
  ASSUME NEW s, NEW part, NEW c, NEW bit
  PROVE  /\ DotPair(s, part, c, bit)[1][1] = Dot(s, part, c, bit, 0, 1)
         /\ DotPair(s, part, c, bit)[2][1] = Dot(s, part, c, bit, 1, 1)
<1>1. 1 \in Columns
  BY DEF Columns
<1>2. 1 \in 1 .. 2 /\ 2 \in 1 .. 2 /\ 1 - 1 = 0 /\ 2 - 1 = 1
  OBVIOUS
<1> QED
  BY <1>1, <1>2 DEF DotPair

\* Blocks and offsets.
LEMMA BlockInput ==
  ASSUME PlanOK, query.kind \in {"bo", "bofss"}, NEW s,
         NEW p \in DOMAIN query.preds, NEW l \in DOMAIN query.preds[p]
  PROVE  /\ Inputs(s)[Block(p, l)] = DotPair(s, "block", Block(p, l), query.preds[p][l][1])
         /\ Inputs(s)[Offset(p, l)] = DotPair(s, "offset", Offset(p, l), query.preds[p][l][2])
<1> DEFINE bits(v) == query.preds[v[2]][v[3]][IF v[1] = "block" THEN 1 ELSE 2]
           in == UNION {{Block(at[1], at[2]), Offset(at[1], at[2])} : at \in Leaves}
<1>1. Inputs(s) = [v \in in |-> DotPair(s, v[1], v, bits(v))]
  BY DEF Inputs
<1>2. <<p, l>> \in Leaves
  BY DEF Leaves
<1>3. Block(p, l) \in in /\ Offset(p, l) \in in
  <2>1. <<p, l>>[1] = p /\ <<p, l>>[2] = l
    OBVIOUS
  <2> QED
    BY <1>2, <2>1
<1>4. /\ Block(p, l)[1] = "block" /\ Block(p, l)[2] = p /\ Block(p, l)[3] = l
      /\ Offset(p, l)[1] = "offset" /\ Offset(p, l)[2] = p /\ Offset(p, l)[3] = l
      /\ "offset" # "block"
  BY LeafNames
<1>5. bits(Block(p, l)) = query.preds[p][l][1] /\ bits(Offset(p, l)) = query.preds[p][l][2]
  BY <1>4
<1> HIDE DEF in, bits
<1> QED
  BY <1>1, <1>3, <1>4, <1>5

\* What an input means.
MeansBit(v, x) ==
  /\ \A s \in Server : Inputs(s)[v][1][1] \in Int /\ Inputs(s)[v][2][1] \in Int
  /\ Same((Inputs(0)[v][1][1] + Inputs(0)[v][2][1])
            + (Inputs(1)[v][1][1] + Inputs(1)[v][2][1])
            + (Inputs(2)[v][1][1] + Inputs(2)[v][2][1]), x)

\* Blocks and offsets mean the conditions of their leaf.
LEMMA InputsMeanBO ==
  ASSUME RandNumbers, PlanOK, Answerable(query), query.kind \in {"bo", "bofss"}
  PROVE  InputsMean(InputBits)
<1>1. Server = {0, 1, 2}
  BY ServerFacts
<1>2. ASSUME NEW part \in Names, NEW p \in Nat, NEW l \in Nat, NEW bit \in {0, 1}, NEW v,
             v = <<part, p, l>>, \A s \in Server : Inputs(s)[v] = DotPair(s, part, v, bit)
      PROVE  MeansBit(v, bit)
  <2>1. /\ \A s \in Server : Dot(s, part, v, bit, 0, 1) \in Int /\ Dot(s, part, v, bit, 1, 1) \in Int
        /\ Same(DotSum(part, v, bit), bit)
    BY <1>2, DotsAdd
  <2>2. \A s \in Server : /\ Inputs(s)[v][1][1] = Dot(s, part, v, bit, 0, 1)
                          /\ Inputs(s)[v][2][1] = Dot(s, part, v, bit, 1, 1)
    BY <1>2, DotPairValues
  <2> QED
    BY <1>1, <2>1, <2>2 DEF MeansBit, DotSum
<1>3. ASSUME NEW p \in DOMAIN query.preds, NEW l \in DOMAIN query.preds[p]
      PROVE  /\ MeansBit(Block(p, l), InputBits[Block(p, l)])
             /\ MeansBit(Offset(p, l), InputBits[Offset(p, l)])
  <2>1. p \in Nat /\ l \in Nat
    <3>1. /\ LeafCount \in LeafCounts /\ DOMAIN LeafCount = DOMAIN query.preds
          /\ DOMAIN query.preds[p] = 1 .. LeafCount[p]
      BY PlanFacts
    <3>2. DOMAIN LeafCount = 1 .. Len(LeafCount)
      BY <3>1, AllLeaves
    <3> QED
      BY <3>1, <3>2
  <2>2. query.preds[p][l][1] \in {0, 1} /\ query.preds[p][l][2] \in {0, 1}
    BY LeafBits
  <2>3. "block" \in Names /\ "offset" \in Names
    BY DEF Names
  <2>4. MeansBit(Block(p, l), query.preds[p][l][1])
    BY ZenonT(60), <1>2, <2>1, <2>2, <2>3, BlockInput DEF Block
  <2>5. MeansBit(Offset(p, l), query.preds[p][l][2])
    BY ZenonT(60), <1>2, <2>1, <2>2, <2>3, BlockInput DEF Offset
  <2> QED
    BY <2>4, <2>5, InputBitsBO
<1>4. ASSUME NEW v \in Computed(query.kind, LeafCount)
      PROVE  MeansBit(v, InputBits[v])
  <2>1. /\ DOMAIN LeafCount = DOMAIN query.preds
        /\ \A p \in DOMAIN query.preds : DOMAIN query.preds[p] = 1 .. LeafCount[p]
    BY PlanFacts
  <2>2. PICK p \in DOMAIN LeafCount : \E l \in 1 .. LeafCount[p] : v \in {Block(p, l), Offset(p, l)}
    BY DEF Computed
  <2>3. PICK l \in 1 .. LeafCount[p] : v \in {Block(p, l), Offset(p, l)}
    BY <2>2
  <2>4. p \in DOMAIN query.preds /\ l \in DOMAIN query.preds[p]
    BY <2>1
  <2> QED
    BY <1>3, <2>3, <2>4
<1> QED
  BY <1>4 DEF InputsMean, MeansBit

\* One dot product of a leaf.
LeafDot(s, p, slot, l) ==
  Dot(s, "onehot", Key("onehot", p, l), query.preds[p][l][1], slot, 1)

\* The recursion that adds up the leaves of a predicate.
LeafRecursion(s, p, i, F) ==
  [x \in SUBSET DOMAIN query.preds[p] |->
     IF x = {} THEN 0
     ELSE DotPair(s, "onehot", Key("onehot", p, CHOOSE y \in x : TRUE),
                  query.preds[p][CHOOSE y \in x : TRUE][1])[i][1] + F[x \ {CHOOSE y \in x : TRUE}]]

LeafSums(s, p, i) == CHOOSE F : F = LeafRecursion(s, p, i, F)

\* It is what the handlers add up.
LEMMA SumOfLeavesIs ==
  ASSUME NEW s, NEW p, NEW i \in 1 .. 2
  PROVE  SumOfLeaves(s, p)[i][1] = LeafSums(s, p, i)[DOMAIN query.preds[p]] % Word
<1> DEFINE dot(l) == DotPair(s, "onehot", Key("onehot", p, l), query.preds[p][l][1])
           sum(j, k) == MapThenSumSet(LAMBDA l : dot(l)[j][k], DOMAIN query.preds[p])
<1>1. 1 \in Columns
  BY DEF Columns
<1>2. SumOfLeaves(s, p) = [j \in 1 .. 2 |-> [k \in Columns |-> sum(j, k) % Word]]
  BY DEF SumOfLeaves
<1>3. sum(i, 1) = LeafSums(s, p, i)[DOMAIN query.preds[p]]
  BY DEF MapThenSumSet, MapThenFoldSet, LeafSums, LeafRecursion
<1> HIDE DEF sum
<1> QED
  BY <1>1, <1>2, <1>3

\* A dot product of each of m leaves is a number.
LeafNumbers(s, p, m, slot) ==
  DOMAIN query.preds[p] = 1 .. m /\ \A l \in 1 .. m : LeafDot(s, p, slot, l) \in Int

\* h adds them up, from the first leaf to the last.
LeafTotal(s, p, m, slot, h) ==
  /\ h[0] = 0 /\ \A l \in 1 .. m : h[l] = h[l - 1] + LeafDot(s, p, slot, l)
  /\ SumOfLeaves(s, p)[slot + 1][1] = h[m] % Word

\* The sum is that of a sequence.
LEMMA LeafSum ==
  ASSUME NEW s, NEW p, NEW m \in Nat, NEW slot \in 0 .. 1, LeafNumbers(s, p, m, slot)
  PROVE  \E h \in [0 .. m -> Int] : LeafTotal(s, p, m, slot, h)
<1> DEFINE i == slot + 1
<1>0. /\ DOMAIN query.preds[p] = 1 .. m /\ i \in 1 .. 2 /\ i - 1 = slot
      /\ \A l \in 1 .. m : LeafDot(s, p, i - 1, l) \in Int
  BY DEF LeafNumbers
<1> HIDE DEF i
<1> DEFINE f == [l \in 1 .. m |-> LeafDot(s, p, i - 1, l)]
           D == 1 .. m
           R(F) == LeafRecursion(s, p, i, F)
           F0 == LeafSums(s, p, i)
           t(l) == DotPair(s, "onehot", Key("onehot", p, l), query.preds[p][l][1])[i][1]
<1>1. f \in [1 .. m -> Int] /\ \A l \in 1 .. m : f[l] = LeafDot(s, p, i - 1, l)
  BY <1>0
<1>2. PICK g \in [SUBSET (1 .. m) -> Int], h \in [0 .. m -> Int] :
        /\ IsSum(g, f, m)
        /\ h[0] = 0 /\ (\A l \in 1 .. m : h[l] = h[l - 1] + f[l]) /\ g[1 .. m] = h[m]
  <2> HIDE DEF f
  <2> QED
    BY <1>1, SumDefined
<1>3. \A l \in 1 .. m : t(l) = f[l]
  <2> SUFFICES ASSUME NEW l \in 1 .. m PROVE t(l) = LeafDot(s, p, i - 1, l)
    BY <1>1
  <2>1. i = 1 \/ i = 2
    BY <1>0
  <2> QED
    BY <2>1, DotPairValues DEF LeafDot
<1>4. \A F : R(F) = [x \in SUBSET D |-> IF x = {} THEN 0 ELSE t(AnyOf(x)) + F[x \ {AnyOf(x)}]]
  BY <1>0 DEF LeafRecursion, AnyOf
<1>5. \A x \in SUBSET D : x # {} => AnyOf(x) \in D
  BY DEF AnyOf
<1> HIDE DEF R, t, f
<1>6. g = R(g)
  <2> DEFINE r == [x \in SUBSET D |-> IF x = {} THEN 0 ELSE t(AnyOf(x)) + g[x \ {AnyOf(x)}]]
  <2>1. \A x \in SUBSET D : g[x] = r[x]
    <3> SUFFICES ASSUME NEW x \in SUBSET D PROVE g[x] = r[x]
      OBVIOUS
    <3>1. g[x] = IF x = {} THEN 0 ELSE f[AnyOf(x)] + g[x \ {AnyOf(x)}]
      BY <1>2 DEF IsSum
    <3>2. x # {} => f[AnyOf(x)] = t(AnyOf(x))
      BY <1>3, <1>5
    <3>3. r[x] = IF x = {} THEN 0 ELSE t(AnyOf(x)) + g[x \ {AnyOf(x)}]
      OBVIOUS
    <3> HIDE DEF r
    <3> QED
      BY <3>1, <3>2, <3>3
  <2>2. g \in [SUBSET D -> Int] /\ DOMAIN r = SUBSET D /\ r = [x \in SUBSET D |-> r[x]]
    OBVIOUS
  <2> HIDE DEF r, D
  <2>3. g = r
    BY <2>1, <2>2
  <2> QED
    BY <1>4, <2>3 DEF r
<1>7. F0 = R(F0)
  BY <1>6 DEF LeafSums, R
<1> HIDE DEF F0
<1>8. IsSum(F0, f, m)
  <2> SUFFICES ASSUME NEW x \in SUBSET (1 .. m)
               PROVE  F0[x] = IF x = {} THEN 0 ELSE f[AnyOf(x)] + F0[x \ {AnyOf(x)}]
    BY DEF IsSum
  <2>1. R(F0)[x] = IF x = {} THEN 0 ELSE t(AnyOf(x)) + F0[x \ {AnyOf(x)}]
    BY <1>4
  <2>2. x # {} => f[AnyOf(x)] = t(AnyOf(x))
    BY <1>3, <1>5
  <2> QED
    BY <1>7, <2>1, <2>2
<1>9. F0[1 .. m] = h[m]
  BY <1>2, <1>8, SumUnique
<1>10. SumOfLeaves(s, p)[i][1] = F0[1 .. m] % Word
  <2>1. SumOfLeaves(s, p)[i][1] = F0[DOMAIN query.preds[p]] % Word
    BY <1>0, SumOfLeavesIs DEF F0
  <2> QED
    BY <1>0, <2>1
<1>11. \A l \in 1 .. m : h[l] = h[l - 1] + LeafDot(s, p, slot, l)
  BY <1>0, <1>1, <1>2
<1>12. SumOfLeaves(s, p)[slot + 1][1] = h[m] % Word
  BY <1>9, <1>10 DEF i
<1> QED
  BY <1>2, <1>11, <1>12 DEF LeafTotal

\* Numbers that are, in the group, bits of which at most one is set, add up to
\* whether one is.
AddsBits(m, b, d, h) ==
  /\ AtMostOne(b, m) /\ h[0] = 0
  /\ \A l \in 1 .. m : b[l] \in {0, 1} /\ d[l] \in Int /\ Same(d[l], b[l])
                          /\ h[l] = h[l - 1] + d[l]

\* They add up to whether one is set.
LEMMA BitsAddUp ==
  ASSUME NEW m \in Nat, NEW b, NEW d, NEW h \in [0 .. m -> Int], AddsBits(m, b, d, h)
  PROVE  Same(h[m], BitOf(\E l \in 1 .. m : b[l] = 1))
<1> DEFINE set(k) == \E l \in 1 .. k : b[l] = 1
           T == {k \in 0 .. m : Same(h[k], BitOf(set(k)))}
<1>0. /\ AtMostOne(b, m) /\ h[0] = 0
      /\ \A l \in 1 .. m : b[l] \in {0, 1} /\ d[l] \in Int /\ Same(d[l], b[l])
                              /\ h[l] = h[l - 1] + d[l]
  BY DEF AddsBits
<1>1. 0 \in T
  <2>1. ~set(0)
    OBVIOUS
  <2>2. Same(0, 0)
    BY SameRefl
  <2> QED
    BY <1>0, <2>1, <2>2 DEF BitOf
<1>2. ASSUME NEW k \in 0 .. m - 1, k \in T
      PROVE  k + 1 \in T
  <2> DEFINE j == k + 1
  <2>1. j \in 1 .. m /\ j - 1 = k /\ k \in 0 .. m /\ j \in 0 .. m
    OBVIOUS
  <2>2. 1 .. j = 1 .. k \cup {j} /\ 1 .. k \subseteq 1 .. m /\ \A l \in 1 .. k : l # j
    BY SMTT(40)
  <2> HIDE DEF j
  <2>3. b[j] \in {0, 1} /\ d[j] \in Int /\ Same(d[j], b[j]) /\ h[j] = h[k] + d[j]
    BY <1>0, <2>1
  <2>4. Same(h[k], BitOf(set(k))) /\ h[k] \in Int
    BY <1>2, <2>1
  <2>5. set(j) <=> set(k) \/ b[j] = 1
    BY <2>2
  <2>6. ~(set(k) /\ b[j] = 1)
    BY <1>0, <2>1, <2>2 DEF AtMostOne
  <2> HIDE DEF set
  <2>7. BitOf(set(j)) = BitOf(set(k)) + b[j] /\ BitOf(set(k)) \in Int
    BY <2>3, <2>5, <2>6 DEF BitOf
  <2> DEFINE x == BitOf(set(k))  y == b[j]  u == h[k]  v == d[j]
  <2>8. x \in Int /\ y \in Int /\ u \in Int /\ v \in Int /\ Same(u, x) /\ Same(v, y)
    BY <2>3, <2>4, <2>7
  <2> HIDE DEF x, y, u, v
  <2>9. Same(u + v, x + y)
    BY <2>8, SameAdd
  <2>10. Same(h[j], BitOf(set(j)))
    BY <2>3, <2>7, <2>9 DEF x, y, u, v
  <2> QED
    BY <2>1, <2>10 DEF j
<1> HIDE DEF T
<1>3. 0 .. m \subseteq T
  BY <1>1, <1>2, BoundedInduction
<1>4. m \in T
  BY <1>3
<1> QED
  BY <1>4 DEF T

\* The dot products of a leaf that is one condition.
LEMMA LeafDots ==
  ASSUME RandNumbers, PlanOK, Answerable(query), query.kind \notin {"bo", "bofss"},
         NEW p \in DOMAIN query.preds, NEW l \in DOMAIN query.preds[p]
  PROVE  /\ \A s \in Server : LeafDot(s, p, 0, l) \in Int /\ LeafDot(s, p, 1, l) \in Int
         /\ Same((LeafDot(0, p, 0, l) + LeafDot(0, p, 1, l))
                   + (LeafDot(1, p, 0, l) + LeafDot(1, p, 1, l))
                   + (LeafDot(2, p, 0, l) + LeafDot(2, p, 1, l)), query.preds[p][l][1])
<1>1. p \in Nat /\ l \in Nat
  <2>1. /\ LeafCount \in LeafCounts /\ DOMAIN LeafCount = DOMAIN query.preds
        /\ DOMAIN query.preds[p] = 1 .. LeafCount[p]
    BY PlanFacts
  <2>2. DOMAIN LeafCount = 1 .. Len(LeafCount)
    BY <2>1, AllLeaves
  <2> QED
    BY <2>1, <2>2
<1>2. query.preds[p][l][1] \in {0, 1}
  BY LeafBits
<1>3. PICK i \in Nat, j \in Nat : Key("onehot", p, l) = <<"onehot", i, j>>
  BY <1>1 DEF Key
<1> DEFINE c == Key("onehot", p, l)  bit == query.preds[p][l][1]
<1>4. /\ \A s \in Server : Dot(s, "onehot", c, bit, 0, 1) \in Int /\ Dot(s, "onehot", c, bit, 1, 1) \in Int
      /\ Same(DotSum("onehot", c, bit), bit)
  <2>1. "onehot" \in Names
    BY DEF Names
  <2> HIDE DEF c, bit
  <2>2. bit \in {0, 1} /\ c = <<"onehot", i, j>>
    BY <1>2, <1>3 DEF bit, c
  <2> QED
    BY <2>1, <2>2, DotsAdd
<1> QED
  BY <1>4 DEF LeafDot, DotSum

\* The sums of a predicate's leaves at one server, and what they add up to.
ServerTotal(s, p, m, h) ==
  /\ h[0] = 0
  /\ \A l \in 1 .. m : h[l] = h[l - 1] + (LeafDot(s, p, 0, l) + LeafDot(s, p, 1, l))
  /\ SumOfLeaves(s, p)[1][1] \in Int /\ SumOfLeaves(s, p)[2][1] \in Int
  /\ Same(SumOfLeaves(s, p)[1][1] + SumOfLeaves(s, p)[2][1], h[m])

\* There are such sums.
LEMMA LeafTotals ==
  ASSUME RandNumbers, PlanOK, Answerable(query), query.kind \notin {"bo", "bofss"},
         NEW p \in DOMAIN query.preds, NEW m \in Nat, DOMAIN query.preds[p] = 1 .. m,
         NEW s \in Server
  PROVE  \E h \in [0 .. m -> Int] : ServerTotal(s, p, m, h)
<1>1. \A l \in 1 .. m : LeafDot(s, p, 0, l) \in Int /\ LeafDot(s, p, 1, l) \in Int
  BY LeafDots
<1>2. LeafNumbers(s, p, m, 0) /\ LeafNumbers(s, p, m, 1) /\ 0 \in 0 .. 1 /\ 1 \in 0 .. 1
  BY <1>1 DEF LeafNumbers
<1>3. PICK g \in [0 .. m -> Int] : LeafTotal(s, p, m, 0, g)
  BY <1>2, LeafSum
<1>4. PICK f \in [0 .. m -> Int] : LeafTotal(s, p, m, 1, f)
  BY <1>2, LeafSum
<1>40. /\ g[0] = 0 /\ \A l \in 1 .. m : g[l] = g[l - 1] + LeafDot(s, p, 0, l)
       /\ f[0] = 0 /\ \A l \in 1 .. m : f[l] = f[l - 1] + LeafDot(s, p, 1, l)
       /\ SumOfLeaves(s, p)[1][1] = g[m] % Word /\ SumOfLeaves(s, p)[2][1] = f[m] % Word
  <2>1. 0 + 1 = 1 /\ 1 + 1 = 2
    OBVIOUS
  <2> QED
    BY <1>3, <1>4, <2>1 DEF LeafTotal
<1> DEFINE h == [l \in 0 .. m |-> g[l] + f[l]]
<1>5. h \in [0 .. m -> Int] /\ \A l \in 0 .. m : h[l] = g[l] + f[l]
  OBVIOUS
<1> HIDE DEF h
<1>6. h[0] = 0
  BY <1>40, <1>5
<1>7. ASSUME NEW l \in 1 .. m
      PROVE  h[l] = h[l - 1] + (LeafDot(s, p, 0, l) + LeafDot(s, p, 1, l))
  <2>1. l \in 0 .. m /\ l - 1 \in 0 .. m
    OBVIOUS
  <2> DEFINE a == LeafDot(s, p, 0, l)  b == LeafDot(s, p, 1, l)  x == g[l - 1]  y == f[l - 1]
  <2>2. h[l] = g[l] + f[l] /\ h[l - 1] = x + y /\ g[l] = x + a /\ f[l] = y + b
    BY <1>40, <1>5, <2>1
  <2>3. a \in Int /\ b \in Int /\ x \in Int /\ y \in Int
    BY <1>1, <2>1
  <2> HIDE DEF a, b, x, y
  <2>4. h[l] = h[l - 1] + (a + b)
    BY <2>2, <2>3
  <2> QED
    BY <2>4 DEF a, b
<1> DEFINE u == g[m]  v == f[m]
<1>8. u \in Int /\ v \in Int /\ h[m] = u + v
  BY <1>5
<1> HIDE DEF u, v
<1>9. /\ u % Word \in Int /\ Same(u % Word, u) /\ v % Word \in Int /\ Same(v % Word, v)
  BY <1>8, SameWord
<1>10. Same((u % Word) + (v % Word), u + v)
  <2> DEFINE uu == u % Word  vv == v % Word
  <2>1. uu \in Int /\ vv \in Int /\ Same(uu, u) /\ Same(vv, v)
    BY <1>9
  <2> HIDE DEF uu, vv
  <2>2. Same(uu + vv, u + v)
    BY <1>8, <2>1, SameAdd
  <2> QED
    BY <2>2 DEF uu, vv
<1>11. SumOfLeaves(s, p)[1][1] = u % Word /\ SumOfLeaves(s, p)[2][1] = v % Word
  BY <1>40 DEF u, v
<1>12. /\ SumOfLeaves(s, p)[1][1] \in Int /\ SumOfLeaves(s, p)[2][1] \in Int
       /\ Same(SumOfLeaves(s, p)[1][1] + SumOfLeaves(s, p)[2][1], h[m])
  BY <1>8, <1>9, <1>10, <1>11
<1> QED
  BY <1>5, <1>6, <1>7, <1>12 DEF ServerTotal

\* The sum of a predicate's leaves means whether the predicate holds.
LEMMA PredMeans ==
  ASSUME RandNumbers, PlanOK, Answerable(query), query.kind \notin {"bo", "bofss"},
         NEW p \in DOMAIN query.preds
  PROVE  MeansBit(Pred(p), PredBit(p))
<1> DEFINE m == LeafCount[p]
           b == [l \in 1 .. m |-> query.preds[p][l][1]]
           S(s, i) == SumOfLeaves(s, p)[i][1]
           D(s, l) == LeafDot(s, p, 0, l) + LeafDot(s, p, 1, l)
           d == [l \in 1 .. m |-> D(0, l) + D(1, l) + D(2, l)]
<1>1. /\ m \in Nat /\ DOMAIN query.preds[p] = 1 .. m /\ Server = {0, 1, 2}
      /\ DOMAIN LeafCount = DOMAIN query.preds
  <2>1. /\ LeafCount \in LeafCounts /\ DOMAIN LeafCount = DOMAIN query.preds
        /\ LeafCount[p] = Len(query.preds[p]) /\ DOMAIN query.preds[p] = 1 .. LeafCount[p]
    BY PlanFacts
  <2>2. DOMAIN LeafCount = 1 .. Len(LeafCount) /\ LeafCount \in Seq(Nat \ {0})
    BY <2>1, AllLeaves DEF LeafCounts
  <2>3. p \in 1 .. Len(LeafCount)
    BY <2>1, <2>2
  <2>4. LeafCount[p] \in Nat \ {0}
    BY <2>2, <2>3, ElementOfSeq
  <2> QED
    BY <2>1, <2>4, ServerFacts
<1> HIDE DEF m
<1>2. PICK h0 \in [0 .. m -> Int] : ServerTotal(0, p, m, h0)
  BY <1>1, LeafTotals
<1>3. PICK h1 \in [0 .. m -> Int] : ServerTotal(1, p, m, h1)
  BY <1>1, LeafTotals
<1>4. PICK h2 \in [0 .. m -> Int] : ServerTotal(2, p, m, h2)
  BY <1>1, LeafTotals
<1> DEFINE h == [l \in 0 .. m |-> h0[l] + h1[l] + h2[l]]
<1>5. h \in [0 .. m -> Int] /\ \A l \in 0 .. m : h[l] = h0[l] + h1[l] + h2[l]
  OBVIOUS
<1> HIDE DEF h
<1>6. h[0] = 0
  <2>1. h0[0] = 0 /\ h1[0] = 0 /\ h2[0] = 0
    BY <1>2, <1>3, <1>4 DEF ServerTotal
  <2>2. 0 \in 0 .. m
    BY <1>1
  <2> QED
    BY <1>5, <2>1, <2>2
<1>7. ASSUME NEW l \in 1 .. m
      PROVE  b[l] \in {0, 1} /\ d[l] \in Int /\ Same(d[l], b[l]) /\ h[l] = h[l - 1] + d[l]
  <2>1. l \in DOMAIN query.preds[p] /\ l \in 0 .. m /\ l - 1 \in 0 .. m
    BY <1>1
  <2>2. b[l] = query.preds[p][l][1] /\ b[l] \in {0, 1}
    BY <2>1, LeafBits
  <2>3. d[l] = D(0, l) + D(1, l) + D(2, l)
    OBVIOUS
  <2>4. D(0, l) \in Int /\ D(1, l) \in Int /\ D(2, l) \in Int /\ Same(d[l], b[l])
    <3>1. /\ \A s \in Server : LeafDot(s, p, 0, l) \in Int /\ LeafDot(s, p, 1, l) \in Int
          /\ Same(D(0, l) + D(1, l) + D(2, l), query.preds[p][l][1])
      BY <2>1, LeafDots
    <3>2. D(0, l) \in Int /\ D(1, l) \in Int /\ D(2, l) \in Int
      <4>1. \A s \in Server : D(s, l) \in Int
        BY <3>1
      <4> HIDE DEF D
      <4> QED
        BY <1>1, <4>1
    <3> HIDE DEF D, d, b
    <3> QED
      BY <2>2, <2>3, <3>1, <3>2
  <2> DEFINE x == D(0, l)  y == D(1, l)  z == D(2, l)
  <2>5. h0[l] = h0[l - 1] + x /\ h1[l] = h1[l - 1] + y /\ h2[l] = h2[l - 1] + z
    BY <1>2, <1>3, <1>4 DEF ServerTotal
  <2>50. h[l] = h0[l] + h1[l] + h2[l] /\ h[l - 1] = h0[l - 1] + h1[l - 1] + h2[l - 1]
    BY <1>5, <2>1
  <2>6. h0[l - 1] \in Int /\ h1[l - 1] \in Int /\ h2[l - 1] \in Int
    BY <2>1
  <2>7. x \in Int /\ y \in Int /\ z \in Int /\ d[l] = x + y + z
    BY <2>3, <2>4
  <2> HIDE DEF x, y, z, d, b
  <2>8. h[l] = h[l - 1] + d[l]
    <3> DEFINE i == h0[l - 1]  j == h1[l - 1]  k == h2[l - 1]
    <3>1. /\ i \in Int /\ j \in Int /\ k \in Int /\ h[l - 1] = i + j + k
          /\ h[l] = (i + x) + (j + y) + (k + z)
      BY <2>5, <2>50, <2>6
    <3> HIDE DEF i, j, k
    <3> QED
      BY <2>7, <3>1
  <2> QED
    BY <2>2, <2>4, <2>7, <2>8
<1>8. \A l \in 1 .. m : b[l] = 1 <=> Aggregate!LeafHolds(query.preds[p][l])
  <2> SUFFICES ASSUME NEW l \in 1 .. m
               PROVE  b[l] = 1 <=> Aggregate!LeafHolds(query.preds[p][l])
    OBVIOUS
  <2>1. query.preds[p][l][1] = BitOf(Aggregate!LeafHolds(query.preds[p][l]))
    BY <1>1, LeafBits
  <2>2. b[l] = query.preds[p][l][1]
    OBVIOUS
  <2> HIDE DEF b
  <2> QED
    BY <2>1, <2>2 DEF BitOf
<1>9. AtMostOne(b, m)
  <2>1. \A l, k \in 1 .. m : Aggregate!LeafHolds(query.preds[p][l])
                               /\ Aggregate!LeafHolds(query.preds[p][k]) => l = k
    BY <1>1 DEF Answerable
  <2> HIDE DEF b
  <2> QED
    BY <1>8, <2>1 DEF AtMostOne
<1>10. PredBit(p) = BitOf(\E l \in 1 .. m : b[l] = 1)
  <2>1. Aggregate!PredHolds(query.preds[p])
          <=> \E l \in 1 .. m : Aggregate!LeafHolds(query.preds[p][l])
    BY <1>1 DEF Aggregate!PredHolds
  <2> HIDE DEF b
  <2>2. Aggregate!PredHolds(query.preds[p]) <=> \E l \in 1 .. m : b[l] = 1
    BY <1>8, <2>1
  <2> QED
    BY <2>2 DEF PredBit, BitOf
<1> HIDE DEF b, d
<1>11. Same(h[m], PredBit(p))
  <2>1. AddsBits(m, b, d, h)
    BY <1>6, <1>7, <1>9 DEF AddsBits
  <2>2. Same(h[m], BitOf(\E l \in 1 .. m : b[l] = 1))
    BY <1>1, <1>5, <2>1, BitsAddUp
  <2> QED
    BY <1>10, <2>2
<1>12. /\ S(0, 1) \in Int /\ S(0, 2) \in Int /\ Same(S(0, 1) + S(0, 2), h0[m])
       /\ S(1, 1) \in Int /\ S(1, 2) \in Int /\ Same(S(1, 1) + S(1, 2), h1[m])
       /\ S(2, 1) \in Int /\ S(2, 2) \in Int /\ Same(S(2, 1) + S(2, 2), h2[m])
  BY <1>2, <1>3, <1>4 DEF ServerTotal
<1>13. m \in 0 .. m /\ PredBit(p) \in Int
  BY <1>1 DEF PredBit, BitOf
<1> DEFINE x == S(0, 1) + S(0, 2)  y == S(1, 1) + S(1, 2)  z == S(2, 1) + S(2, 2)
           u == h0[m]  v == h1[m]  w == h2[m]
<1>14. /\ x \in Int /\ y \in Int /\ z \in Int /\ u \in Int /\ v \in Int /\ w \in Int
       /\ Same(x, u) /\ Same(y, v) /\ Same(z, w) /\ h[m] = u + v + w
  <2>1. h0[m] \in Int /\ h1[m] \in Int /\ h2[m] \in Int /\ h[m] = h0[m] + h1[m] + h2[m]
    BY <1>5, <1>13
  <2>2. Same(x, u) /\ Same(y, v) /\ Same(z, w)
    BY <1>12
  <2>3. x \in Int /\ y \in Int /\ z \in Int
    <3> HIDE DEF S
    <3> QED
      BY <1>12
  <2>4. u \in Int /\ v \in Int /\ w \in Int /\ h[m] = u + v + w
    BY <2>1
  <2> QED
    BY <2>2, <2>3, <2>4
<1> HIDE DEF x, y, z, u, v, w
<1>15. Same(x + y + z, h[m]) /\ x + y + z \in Int /\ h[m] \in Int
  BY <1>14, SameThree
<1>16. Same(x + y + z, PredBit(p))
  BY <1>11, <1>13, <1>15, SameTrans
<1>17. \A s \in Server : Inputs(s)[Pred(p)] = SumOfLeaves(s, p)
  <2>1. Pred(p)[2] = p
    BY DEF Pred
  <2> QED
    BY <2>1 DEF Inputs
<1>18. \A s \in Server : Inputs(s)[Pred(p)][1][1] = S(s, 1) /\ Inputs(s)[Pred(p)][2][1] = S(s, 2)
  BY <1>17
<1> HIDE DEF S
<1> QED
  BY ZenonT(60), <1>1, <1>12, <1>16, <1>18 DEF MeansBit, x, y, z

\* So the inputs mean the query's conditions.
LEMMA InputsMeanBits ==
  ASSUME RandNumbers, PlanOK, Answerable(query)
  PROVE  InputsMean(InputBits)
<1>1. CASE query.kind \notin {"bo", "bofss"}
  <2>1. ASSUME NEW v \in Computed(query.kind, LeafCount)
        PROVE  MeansBit(v, InputBits[v])
    <3>1. PICK p \in DOMAIN query.preds : v = Pred(p)
      BY <1>1, PlanFacts DEF Computed
    <3>2. MeansBit(Pred(p), PredBit(p))
      BY <1>1, PredMeans
    <3> QED
      BY <1>1, <3>1, <3>2, InputBitsVB
  <2> QED
    BY <2>1 DEF InputsMean, MeansBit
<1> QED
  BY <1>1, InputsMeanBO

-----------------------------------------------------------------------------
(* The result.                                                             *)

\* Every request is one that the handlers answer exactly.
AllAnswerable == \A q \in Requests : Answerable(q)

\* What the client returns is what the predicates select.
LEMMA ExactFromInv ==
  ASSUME PrfNumbers, RandNumbers, AllAnswerable, AnswersInv
  PROVE  ExactResult
<1> SUFFICES ASSUME result # NoResult PROVE result = Aggregate!Exact(query)
  BY DEF ExactResult
<1> DEFINE sum == SumOf("agg", 1)  v == query.value  b == BitOf(Aggregate!Selected(query))
<1>1. (\A s \in Server : answer[s] # NoResult) /\ result = sum % Group
  BY DEF AnswersInv, ResultOK
<1>2. PlanOK
  BY DEF AnswersInv, BaseInv, Base
<1>3. Answerable(query)
  BY <1>2 DEF AllAnswerable, PlanOK
<1>4. v \in 0 .. Group - 1 /\ v \in Int
  BY <1>3, GroupAssumption DEF Answerable
<1>5. InputBits \in [Reg -> Int] /\ InputsMean(InputBits)
  BY <1>2, <1>3, InputBitsInt, InputsMeanBits
<1>6. PICK e : Values(e, InputBits)
  BY <1>2, <1>5, ValuesDefined
<1>7. e[Len(plan)][FilterReg(query.kind)] = b
  BY <1>2, <1>3, <1>6, FilterValue
<1>8. sum \in Int /\ Same(sum, v * b)
  <2>1. /\ sum \in Int
        /\ Same(sum, v * e[Len(plan)][FilterReg(query.kind)])
    BY <1>1, <1>4, <1>5, <1>6, AnswersAdd
  <2> HIDE DEF sum, v, b
  <2> QED
    BY <1>7, <2>1
<1>9. v * b = Aggregate!Exact(query) /\ v * b \in 0 .. Group - 1
  <2>1. 0 \in 0 .. Group - 1
    BY GroupAssumption
  <2>2. v * 1 = v /\ v * 0 = 0
    BY <1>4
  <2> QED
    BY <1>4, <2>1, <2>2 DEF Aggregate!Exact, BitOf
<1> HIDE DEF sum, v, b
<1>10. sum % Group = Aggregate!Exact(query)
  <2> DEFINE x == v * b
  <2>1. x \in 0 .. Group - 1 /\ Same(sum, x) /\ x = Aggregate!Exact(query)
    BY <1>8, <1>9
  <2> HIDE DEF x
  <2> QED
    BY <1>8, <2>1, SameExact
<1> QED
  BY <1>1, <1>10

\* The result of a query is exact in every state of every interleaving, for
\* every size of the table, every group, and every number of predicates and
\* leaves (AggQuery, AggFilterQuery and the server's handlers).
THEOREM AlwaysExact ==
  ASSUME PrfNumbers, RandNumbers, FourChunks, AllAnswerable
  PROVE  Spec => []ExactResult
<1>1. Init => AnswersInv
  BY AnswersInit
<1>2. AnswersInv /\ [Next]_vars => AnswersInv'
  BY AnswersStep
<1>3. AnswersInv => ExactResult
  BY ExactFromInv
<1> QED
  BY <1>1, <1>2, <1>3, PTL DEF Spec

\* No step changes the query, and only Gather changes the result.
LEMMA ResultSteps ==
  ASSUME [Next]_vars
  PROVE  query' = query /\ (result' # result => result = NoResult)
<1>1. ASSUME NEW s, Step(s)
      PROVE  query' = query /\ result' = result
  BY ZenonT(60), <1>1 DEF Step, Evaluate, FillZeros, SendReshare, FinishReshare, SendProduct,
     FinishProduct, Respond
<1>2. Gather => query' = query /\ result = NoResult
  BY DEF Gather
<1>3. UNCHANGED vars => query' = query /\ result' = result
  BY DEF vars
<1> QED
  BY ZenonT(60), <1>1, <1>2, <1>3 DEF Next, Returned

\* The servers and the client implement the abstract aggregate: the query's
\* result appears in one step, is the exact one, and stays.  (That it does
\* appear is liveness, which the exact run checks.)
THEOREM ImplementsAggregateSafety ==
  ASSUME PrfNumbers, RandNumbers, FourChunks, AllAnswerable
  PROVE  Spec => Aggregate!Init /\ [][Aggregate!Answer]_<<query, result>>
<1>1. Init => AnswersInv /\ Aggregate!Init
  BY AnswersInit DEF Init, Aggregate!Init
<1>2. AnswersInv /\ [Next]_vars => AnswersInv'
  BY AnswersStep
<1>3. AnswersInv => ExactResult
  BY ExactFromInv
<1>4. ExactResult' /\ [Next]_vars => [Aggregate!Answer]_<<query, result>>
  <2> SUFFICES ASSUME ExactResult', [Next]_vars PROVE [Aggregate!Answer]_<<query, result>>
    OBVIOUS
  <2>1. query' = query /\ (result' # result => result = NoResult)
    BY ResultSteps
  <2>2. result' # NoResult => result' = Aggregate!Exact(query)
    BY <2>1 DEF ExactResult, Aggregate!Exact, Aggregate!Selected, Aggregate!PredHolds,
                Aggregate!LeafHolds
  <2>3. CASE result' = result
    BY <2>1, <2>3
  <2>4. CASE result' # result
    BY <2>1, <2>2, <2>4 DEF Aggregate!Answer
  <2> QED
    BY <2>3, <2>4
<1> QED
  BY <1>1, <1>2, <1>3, <1>4, PTL DEF Spec

-----------------------------------------------------------------------------
(* Types.                                                                  *)

\* The words that the servers draw are words.
PrfWords == \A q \in Requests, s \in Server, n \in Nat : Prf(q.prfKey[s], n) \in Words

\* Values and the MAC key are numbers, only EvalFilter has a malicious mode,
\* and leaves have as many conditions as their handler expects.
RequestsFit ==
  \A q \in Requests :
    /\ q.value \in Int /\ q.alpha \in Int
    /\ q.alpha # 0 => q.kind = "filter"
    /\ \A p \in DOMAIN q.preds : \A l \in DOMAIN q.preds[p] :
         Len(q.preds[p][l]) = IF q.kind \in {"bo", "bofss"} THEN 2 ELSE 1

\* One component of a vector.
Share == [Columns -> Words]

\* What is reduced is a word.
LEMMA WordIn ==
  ASSUME NEW x \in Int
  PROVE  x % Word \in Words /\ x % Word \in Int
BY GroupAssumption DEF Words

\* Columns and components.
LEMMA ColumnKinds ==
  /\ Words \subseteq Int
  /\ \A k \in Columns : k \in {1, 2} /\ k \in Nat
  /\ 1 \in Columns
<1>1. Words \subseteq Int
  BY GroupAssumption DEF Words
<1> QED
  BY <1>1 DEF Columns

\* The components of a vector are numbers.
LEMMA ShareNumbers ==
  ASSUME NEW v \in Shares
  PROVE  /\ v[1] \in Share /\ v[2] \in Share
         /\ \A k \in Columns : v[1][k] \in Int /\ v[2][k] \in Int
<1>1. v[1] \in Share /\ v[2] \in Share
  BY DEF Shares, Share
<1>2. ASSUME NEW k \in Columns PROVE v[1][k] \in Words /\ v[2][k] \in Words
  BY <1>1 DEF Share
<1> QED
  BY <1>1, <1>2, ColumnKinds

\* Local products of numbers are numbers.
LEMMA ProductInt ==
  ASSUME NEW x, NEW y, x[1] \in Int, x[2] \in Int, y[1] \in Int, y[2] \in Int
  PROVE  LocalProduct(x, y) \in Int
BY DEF LocalProduct

\* Dealt shares are numbers.
LEMMA SplitInt ==
  ASSUME RandNumbers, PlanOK, NEW x \in Int, NEW a \in Names, NEW i \in Nat, NEW j \in 0 .. 2
  PROVE  Split(x, <<a, i>>, j) \in Int
<1> DEFINE t == <<a, i>>
<1>1. Split(x, t, 0) \in Int /\ Split(x, t, 1) \in Int /\ Split(x, t, 2) \in Int
  BY SplitSum
<1>2. j = 0 \/ j = 1 \/ j = 2
  OBVIOUS
<1> HIDE DEF t
<1>3. Split(x, t, j) \in Int
  BY <1>1, <1>2
<1> QED
  BY <1>3 DEF t

\* Those of the value and of the tables among them.
LEMMA DealtInt ==
  ASSUME RandNumbers, RequestsFit, PlanOK, NEW s \in Server, NEW slot \in 0 .. 1
  PROVE  /\ ValueShare(s, slot) \in Int
         /\ \A part \in Names, b \in {1, 2} : TableShare(part, b, s, slot) \in Int
<1>1. (s + slot) % 3 \in 0 .. 2 /\ query.value \in Int /\ "value" \in Names
  BY ServerFacts DEF RequestsFit, PlanOK, Names
<1>2. ValueShare(s, slot) \in Int
  BY <1>1, SplitInt DEF ValueShare
<1>3. ASSUME NEW part \in Names, NEW b \in {1, 2}
      PROVE  TableShare(part, b, s, slot) \in Int
  BY <1>1, SplitInt DEF TableShare
<1> QED
  BY <1>2, <1>3

\* The tag of a word of the MACs' keys has one number more.
LEMMA ConcatOne ==
  ASSUME NEW a, NEW b, NEW c, NEW d, NEW e
  PROVE  <<a, b, c, d>> \o <<e>> = <<a, b, c, d, e>>
<1> DEFINE S == {a, b, c, d, e}  t == <<a, b, c, d>>  z == <<e>>  u == <<a, b, c, d, e>>
           r == t \o z
<1>1. t \in Seq(S) /\ z \in Seq(S) /\ Len(t) = 4 /\ Len(z) = 1 /\ u \in Seq(S) /\ Len(u) = 5
  OBVIOUS
<1>2. /\ u[1] = t[1] /\ u[2] = t[2] /\ u[3] = t[3] /\ u[4] = t[4] /\ u[5] = z[1]
  OBVIOUS
<1> HIDE DEF S, t, u, z
<1>3. r \in Seq(S) /\ Len(r) = 5 /\ (\A i \in 1 .. 4 : r[i] = t[i]) /\ r[5] = z[1]
  <2>1. /\ r \in Seq(S) /\ Len(r) = Len(t) + Len(z)
        /\ \A i \in 1 .. Len(t) + Len(z) : r[i] = IF i <= Len(t) THEN t[i] ELSE z[i - Len(t)]
    BY <1>1, ConcatProperties
  <2> HIDE DEF r
  <2> QED
    BY <1>1, <2>1
<1> HIDE DEF r
<1>4. \A i \in 1 .. 5 : i = 1 \/ i = 2 \/ i = 3 \/ i = 4 \/ i = 5
  OBVIOUS
<1>5. \A i \in 1 .. Len(r) : r[i] = u[i]
  BY <1>2, <1>3, <1>4
<1>6. r = u
  BY <1>1, <1>3, <1>5, SeqEqual
<1> QED
  BY <1>6 DEF r, t, z, u

\* So are both halves of a query vector.
LEMMA HalfInt ==
  ASSUME RandNumbers, RequestsFit, PlanOK, NEW a \in Names, NEW p \in Nat, NEW l \in Nat,
         NEW b \in {1, 2}, NEW bit \in Int, NEW j \in Server, NEW slot, NEW k \in Columns
  PROVE  Half(<<a, p, l>>, bit, b, j, slot, k) \in Int
<1> DEFINE c == <<a, p, l>>
           modulus == IF UsesKeys THEN Group ELSE Word
           q == QueryEntry(bit, b, k)
           z == [i \in 1 .. k - 1 |-> k]
           seed == PairSeed(j)
           r == IF UsesKeys THEN Rand(seed, Append(c, b) \o z) % Group
                ELSE Rand(query.seed, c \o <<b, j>>)
<1>1. query \in Requests /\ Server = {0, 1, 2} /\ b \in Nat /\ j \in Nat /\ k \in {1, 2}
  BY ServerFacts, ColumnKinds DEF PlanOK
<1>2. q \in Int
  BY <1>1 DEF QueryEntry, RequestsFit
<1>3. c \o <<b, j>> = <<a, p, l, b, j>> /\ Append(c, b) = <<a, p, l, b>>
  BY AppendThree, ConcatTwo
<1>4. Append(c, b) \o z = <<a, p, l, b>> \/ Append(c, b) \o z = <<a, p, l, b, 2>>
  <2> DEFINE t == <<a, p, l, b>>
  <2>1. CASE k = 1
    <3> DEFINE S == {a, p, l, b}
    <3>1. z = <<>>
      BY <2>1
    <3>2. t \in Seq(S)
      OBVIOUS
    <3> HIDE DEF S, t
    <3>3. t \o <<>> = t
      BY <3>2, ConcatEmptySeq
    <3> HIDE DEF c, z
    <3> QED
      BY <1>3, <3>1, <3>3 DEF t
  <2>2. CASE k = 2
    <3>1. z = <<2>>
      BY <2>2
    <3>2. t \o <<2>> = <<a, p, l, b, 2>>
      BY ConcatOne
    <3> HIDE DEF c, z, t
    <3> QED
      BY <1>3, <3>1, <3>2 DEF t
  <2> QED
    BY <1>1, <2>1, <2>2
<1>5. seed \in {query.seed} \cup {query.clock[n] : n \in 0 .. 2}
  BY <1>1 DEF PairSeed
<1>6. Rand(seed, <<a, p, l, b>>) \in Int /\ Rand(seed, <<a, p, l, b, 2>>) \in Int
      /\ Rand(query.seed, <<a, p, l, b, j>>) \in Int
  BY <1>1, <1>5 DEF RandNumbers
<1> DEFINE tag == Append(c, b) \o z
<1> HIDE DEF c, z, seed, q
<1>7. r \in Int
  <2>1. CASE UsesKeys
    <3>1. Rand(seed, tag) \in Int
      BY <1>4, <1>6
    <3> HIDE DEF tag
    <3>2. Rand(seed, tag) % Group \in Int
      BY <3>1, GroupAssumption
    <3> QED
      BY <2>1, <3>2 DEF tag
  <2>2. CASE ~UsesKeys
    BY <1>3, <1>6, <2>2
  <2> QED
    BY <2>1, <2>2
<1>8. Half(c, bit, b, j, slot, k) = IF slot = RandomSlot(j) THEN r ELSE (q - r) % modulus
  BY DEF Half, z, seed, q
<1> HIDE DEF r
<1> QED
  BY <1>2, <1>7, <1>8, GroupAssumption DEF c

\* And dot products are words.
LEMMA DotWord ==
  ASSUME RandNumbers, RequestsFit, PlanOK, NEW part \in Names, NEW a \in Names, NEW p \in Nat,
         NEW l \in Nat, NEW bit \in Int, NEW s \in Server, NEW slot \in 0 .. 1, NEW k \in Columns
  PROVE  Dot(s, part, <<a, p, l>>, bit, slot, k) \in Words
<1> DEFINE c == <<a, p, l>>
           j == PairAt(s, slot)
           h(b) == Half(c, bit, b, j, slot, k)
           t(b) == TableShare(part, b, s, slot)
           x == h(1) * t(1) + h(2) * t(2)
<1>1. j \in Server
  BY ServerFacts DEF PairAt, Next3
<1>2. h(1) \in Int /\ h(2) \in Int
  BY <1>1, HalfInt
<1>3. t(1) \in Int /\ t(2) \in Int
  BY DealtInt
<1> HIDE DEF c, j, h, t
<1>4. x \in Int
  BY <1>2, <1>3
<1>5. Dot(s, part, c, bit, slot, k) = x % Word
  BY DEF Dot, h, t, j
<1> HIDE DEF x
<1> QED
  BY <1>4, <1>5, WordIn DEF c

\* So the dot products of a condition are a vector.
LEMMA DotPairTyped ==
  ASSUME RandNumbers, RequestsFit, PlanOK, NEW part \in Names, NEW a \in Names, NEW p \in Nat,
         NEW l \in Nat, NEW bit \in Int, NEW s \in Server
  PROVE  DotPair(s, part, <<a, p, l>>, bit) \in Shares
<1> DEFINE c == <<a, p, l>>
<1>1. ASSUME NEW i \in 1 .. 2, NEW k \in Columns
      PROVE  Dot(s, part, c, bit, i - 1, k) \in Words
  <2>1. i - 1 \in 0 .. 1
    OBVIOUS
  <2> QED
    BY <2>1, DotWord
<1> HIDE DEF c
<1>2. DotPair(s, part, c, bit) \in Shares
  BY <1>1 DEF DotPair, Shares
<1> QED
  BY <1>2 DEF c

\* One component and column of the leaves of a predicate.
LeafTerm(s, p, i, k, l) ==
  DotPair(s, "onehot", Key("onehot", p, l), query.preds[p][l][1])[i][k]

\* The recursion of MapThenSumSet over the leaves, and its value at all of them.
LeafStep(s, p, i, k, F) ==
  [x \in SUBSET DOMAIN query.preds[p] |->
     IF x = {} THEN 0
     ELSE LeafTerm(s, p, i, k, CHOOSE y \in x : TRUE) + F[x \ {CHOOSE y \in x : TRUE}]]

LeafAll(s, p, i, k) == (CHOOSE F : F = LeafStep(s, p, i, k, F))[DOMAIN query.preds[p]]

\* What the handlers reduce is a number.
LEMMA LeavesAdd ==
  ASSUME NEW s, NEW p, NEW i, NEW k, NEW n \in Nat, DOMAIN query.preds[p] = 1 .. n,
         \A l \in 1 .. n : LeafTerm(s, p, i, k, l) \in Int
  PROVE  LeafAll(s, p, i, k) \in Int
<1> DEFINE f == [l \in 1 .. n |-> LeafTerm(s, p, i, k, l)]
           R(F) == LeafStep(s, p, i, k, F)
           F0 == CHOOSE F : F = R(F)
<1>1. f \in [1 .. n -> Int]
  OBVIOUS
<1>2. ASSUME NEW F PROVE R(F) = AddStep(f, n, F)
  <2> DEFINE t(l) == LeafTerm(s, p, i, k, l)
             A(x) == IF x = {} THEN 0 ELSE t(AnyOf(x)) + F[x \ {AnyOf(x)}]
             B(x) == IF x = {} THEN 0 ELSE f[AnyOf(x)] + F[x \ {AnyOf(x)}]
  <2>1. \A l \in 1 .. n : f[l] = t(l)
    OBVIOUS
  <2>2. \A x \in SUBSET (1 .. n) : x # {} => AnyOf(x) \in 1 .. n
    BY DEF AnyOf
  <2> HIDE DEF f, t
  <2>3. \A x \in SUBSET (1 .. n) : A(x) = B(x)
    BY <2>1, <2>2
  <2>4. R(F) = [x \in SUBSET (1 .. n) |-> A(x)]
    BY DEF LeafStep, AnyOf, t
  <2>5. AddStep(f, n, F) = [x \in SUBSET (1 .. n) |-> B(x)]
    BY DEF AddStep
  <2> HIDE DEF A, B, R
  <2> QED
    BY <2>3, <2>4, <2>5
<1> HIDE DEF f, R
<1>3. PICK g : g = AddStep(f, n, g)
  BY <1>1, SumExists
<1>4. g = R(g)
  BY <1>2, <1>3
<1>5. F0 = R(F0)
  BY <1>4
<1> HIDE DEF F0
<1>6. F0 = AddStep(f, n, F0)
  BY <1>2, <1>5
<1>7. F0[1 .. n] \in Int
  BY <1>1, <1>6, SumNumber
<1> QED
  BY <1>7 DEF LeafAll, F0, R

\* Conditions are truth values.
LEMMA ConditionInt ==
  ASSUME RequestsFit, PlanOK, NEW p \in DOMAIN query.preds, NEW l \in DOMAIN query.preds[p]
  PROVE  LET leaf == query.preds[p][l] IN
         /\ leaf[1] \in Int
         /\ query.kind \in {"bo", "bofss"} => leaf[2] \in Int
<1> DEFINE S == Seq({0, 1})  leaf == query.preds[p][l]
<1>1. query.preds \in Seq(Seq(S)) /\ query \in Requests
  BY RequestAssumption DEF PlanOK
<1>2. query.preds[p] \in Seq(S)
  <2>1. p \in 1 .. Len(query.preds)
    BY <1>1, LenProperties
  <2> HIDE DEF S
  <2> QED
    BY <1>1, <2>1, ElementOfSeq
<1>3. leaf \in S
  <2>1. l \in 1 .. Len(query.preds[p])
    BY <1>2, LenProperties
  <2> HIDE DEF S
  <2> QED
    BY <1>2, <2>1, ElementOfSeq
<1>4. Len(leaf) = IF query.kind \in {"bo", "bofss"} THEN 2 ELSE 1
  BY <1>1 DEF RequestsFit
<1>5. \A i \in 1 .. Len(leaf) : leaf[i] \in {0, 1}
  BY <1>3, ElementOfSeq
<1> HIDE DEF leaf
<1> QED
  BY <1>4, <1>5 DEF leaf

\* The sum of a predicate's leaves.
LEMMA SumOfLeavesTyped ==
  ASSUME RandNumbers, RequestsFit, PlanOK, NEW s \in Server, NEW p \in DOMAIN query.preds
  PROVE  SumOfLeaves(s, p) \in Shares
<1>1. /\ LeafCount \in LeafCounts /\ DOMAIN LeafCount = DOMAIN query.preds
      /\ DOMAIN query.preds[p] = 1 .. LeafCount[p]
  BY PlanFacts
<1>2. p \in Nat /\ LeafCount[p] \in Nat
  BY <1>1, AllLeaves, ElementOfSeq DEF LeafCounts
<1>3. \A l \in 1 .. LeafCount[p] : query.preds[p][l][1] \in Int
  <2> SUFFICES ASSUME NEW l \in 1 .. LeafCount[p] PROVE query.preds[p][l][1] \in Int
    OBVIOUS
  <2> QED
    BY <1>1, ConditionInt
<1>4. ASSUME NEW l \in 1 .. LeafCount[p], NEW i \in 1 .. 2, NEW k \in Columns
      PROVE  LeafTerm(s, p, i, k, l) \in Int
  <2> DEFINE bit == query.preds[p][l][1]  x == DotPair(s, "onehot", Key("onehot", p, l), bit)
  <2>1. bit \in Int /\ "onehot" \in Names /\ l \in Nat /\ 1 \in Nat
    BY <1>2, <1>3 DEF Names
  <2> HIDE DEF bit
  <2>2. x \in Shares
    BY <1>2, <2>1, DotPairTyped DEF Key
  <2> HIDE DEF x
  <2>3. x[i][k] \in Int
    <3>1. i = 1 \/ i = 2
      OBVIOUS
    <3> QED
      BY <2>2, <3>1, ShareNumbers
  <2> QED
    BY <2>3 DEF LeafTerm, x, bit
<1>5. ASSUME NEW i \in 1 .. 2, NEW k \in Columns
      PROVE  LeafAll(s, p, i, k) % Word \in Words
  BY <1>1, <1>2, <1>4, LeavesAdd, WordIn
<1>6. SumOfLeaves(s, p) = [i \in 1 .. 2 |-> [k \in Columns |-> LeafAll(s, p, i, k) % Word]]
  BY DEF SumOfLeaves, MapThenSumSet, MapThenFoldSet, LeafAll, LeafStep, LeafTerm
<1> QED
  BY <1>5, <1>6 DEF Shares

\* The dot products are vectors.
LEMMA InputsTyped ==
  ASSUME RandNumbers, RequestsFit, PlanOK, NEW s \in Server, NEW v \in DOMAIN Inputs(s)
  PROVE  Inputs(s)[v] \in Shares
<1>1. /\ LeafCount \in LeafCounts /\ DOMAIN LeafCount = DOMAIN query.preds
      /\ \A p \in DOMAIN query.preds : DOMAIN query.preds[p] = 1 .. LeafCount[p]
  BY PlanFacts
<1>2. DOMAIN query.preds \subseteq Nat
  BY <1>1, AllLeaves
<1>3. CASE query.kind \in {"bo", "bofss"}
  <2>1. DOMAIN Inputs(s) = UNION {{Block(at[1], at[2]), Offset(at[1], at[2])} : at \in Leaves}
    BY <1>3 DEF Inputs
  <2>2. PICK at \in Leaves : v \in {Block(at[1], at[2]), Offset(at[1], at[2])}
    BY <2>1
  <2>3. PICK p \in DOMAIN query.preds : at \in {p} \X DOMAIN query.preds[p]
    BY <2>2 DEF Leaves
  <2>4. PICK l \in DOMAIN query.preds[p] : at[1] = p /\ at[2] = l
    BY <2>3
  <2>5. p \in Nat /\ l \in Nat /\ v \in {Block(p, l), Offset(p, l)}
    <3>1. p \in Nat /\ l \in 1 .. LeafCount[p]
      BY <1>1, <1>2
    <3>2. l \in Nat
      BY <3>1
    <3>3. v \in {Block(p, l), Offset(p, l)}
      BY <2>2, <2>4
    <3> QED
      BY <3>1, <3>2, <3>3
  <2>6. query.preds[p][l][1] \in Int /\ query.preds[p][l][2] \in Int
    BY <1>3, ConditionInt
  <2>7. "block" \in Names /\ "offset" \in Names
    BY DEF Names
  <2>8. DotPair(s, "block", Block(p, l), query.preds[p][l][1]) \in Shares
    BY <2>5, <2>6, <2>7, DotPairTyped DEF Block
  <2>9. DotPair(s, "offset", Offset(p, l), query.preds[p][l][2]) \in Shares
    BY <2>5, <2>6, <2>7, DotPairTyped DEF Offset
  <2> QED
    BY <1>3, <2>5, <2>8, <2>9, BlockInput
<1>4. CASE query.kind \notin {"bo", "bofss"}
  <2>1. Inputs(s) = [w \in {Pred(p) : p \in DOMAIN query.preds} |-> SumOfLeaves(s, w[2])]
    BY <1>4 DEF Inputs
  <2>2. PICK p \in DOMAIN query.preds : v = Pred(p)
    BY <2>1
  <2>3. v[2] = p
    BY <2>2 DEF Pred
  <2>4. Inputs(s)[v] = SumOfLeaves(s, p)
    BY <2>1, <2>2, <2>3
  <2> QED
    BY <2>4, SumOfLeavesTyped
<1> QED
  BY <1>3, <1>4

\* A combination finds its mask, and in malicious mode its coefficients, among
\* those of the last Fill; an exchange that was begun finds its coefficients.
FilledOK(s) ==
  \A f \in 1 .. Len(plan) : plan[pc[s]].op # "reshare" /\ LastFill(plan, f, pc[s]) =>
    /\ Filling(plan[f]) \subseteq DOMAIN zero[s]
    /\ Malicious => Filling(plan[f]) \subseteq DOMAIN coeff[s]

CoeffOK(s) ==
  Malicious /\ Mid(s) /\ plan[pc[s]].op = "reshare" =>
    DOMAIN plan[pc[s]].regs \subseteq DOMAIN coeff[s]

\* What is sent for an exchange.
MessageOK(in, m) ==
  /\ in.op = "reshare" => \A i \in DOMAIN in.regs : m[i] \in Share
  /\ in.op \in {"and", "or"} => m[1] \in Share

\* What server s sent so far.
MessagesOK(s) ==
  \A n \in 1 .. Len(plan) :
    plan[n].op \in Exchanges /\ ExIn(plan, n) <= published[s] =>
      MessageOK(plan[n], outbox[s][ExIn(plan, n)])

\* The vectors of server s; in the middle of a product, it has copied an operand.
VectorsOK(s) ==
  /\ \A v \in DOMAIN mem[s] : mem[s][v] \in Shares
  /\ operand[s] \in Shares \cup {<<>>}
  /\ Mid(s) /\ plan[pc[s]].op \in {"and", "or"} => operand[s] \in Shares

\* Its masks and coefficients.
MasksOK(s) ==
  /\ \A row \in DOMAIN zero[s] : zero[s][row] \in Words
  /\ \A i \in DOMAIN coeff[s] : coeff[s][i] \in Words \X Words
  /\ FilledOK(s) /\ CoeffOK(s)

\* Its sums of the check, and its answer.
SumsOK(s) ==
  /\ check[s] \in Words \X Words
  /\ answer[s] # NoResult => answer[s] \in [agg : Share, check : Words \X Words]

\* All of them.
TypedAt(s) == VectorsOK(s) /\ MasksOK(s) /\ MessagesOK(s) /\ SumsOK(s)

\* TypeOK with what every step needs to preserve it.
TypeInv ==
  /\ BaseInv
  /\ DOMAIN coeff = Server /\ DOMAIN check = Server /\ DOMAIN answer = Server
  /\ \A s \in Server : TypedAt(s)
  /\ result \in (0 .. Group - 1) \cup {NoResult}

LEMMA TypeFromInv == TypeInv => TypeOK
<1> SUFFICES ASSUME TypeInv PROVE TypeOK
  OBVIOUS
<1>1. ASSUME NEW s \in Server
      PROVE  /\ pc[s] \in 0 .. Len(plan) + 1 /\ counter[s] \in Nat /\ Len(outbox[s]) = published[s]
  BY DEF TypeInv, BaseInv, Base, PaceOK, DomainsOK
<1> QED
  BY <1>1 DEF TypeInv, TypedAt, VectorsOK, MasksOK, SumsOK, TypeOK, Share

\* The invariant holds initially.
LEMMA TypeInit == Init => TypeInv
<1> SUFFICES ASSUME Init PROVE TypeInv
  OBVIOUS
<1>1. BaseInv
  BY BaseInvInit
<1>2. DOMAIN coeff = Server /\ DOMAIN check = Server /\ DOMAIN answer = Server /\ result = NoResult
  BY DEF Init
<1>3. Len(plan) \in Nat
  BY <1>1, PlanFacts DEF BaseInv, Base
<1>4. ASSUME NEW s \in Server
      PROVE  TypedAt(s)
  <2>1. /\ pc[s] = 0 /\ mem[s] = <<>> /\ operand[s] = <<>> /\ zero[s] = <<>> /\ coeff[s] = <<>>
        /\ check[s] = <<0, 0>> /\ answer[s] = NoResult /\ published[s] = 0 /\ finished[s] = 0
    BY DEF Init, Ring!Init, Server
  <2>2. VectorsOK(s)
    BY <2>1 DEF VectorsOK, Mid
  <2>3. MasksOK(s)
    <3>1. \A f : ~LastFill(plan, f, 0)
      BY DEF LastFill
    <3> QED
      BY <2>1, <3>1 DEF MasksOK, FilledOK, CoeffOK, Mid
  <2>4. SumsOK(s)
    <3>1. 0 \in Words
      BY GroupAssumption DEF Words
    <3> QED
      BY <2>1, <3>1 DEF SumsOK
  <2>5. MessagesOK(s)
    <3> SUFFICES ASSUME NEW n \in 1 .. Len(plan), plan[n].op \in Exchanges, ExIn(plan, n) <= 0
                 PROVE  FALSE
      BY <2>1 DEF MessagesOK
    <3>1. ExIn(plan, n) = ExIn(plan, n - 1) + 1 /\ ExIn(plan, n - 1) \in Nat
      BY <1>3, ExStep, n \in Nat \ {0}
    <3> QED
      BY <3>1
  <2> QED
    BY <2>2, <2>3, <2>4, <2>5 DEF TypedAt
<1> QED
  BY <1>1, <1>2, <1>4 DEF TypeInv

\* What the servers draw is a number of the generator.
LEMMA MaskWord ==
  ASSUME PrfWords, PlanOK, DomainsOK, NEW s \in Server, NEW i \in Nat
  PROVE  /\ ZeroShare(s, i) \in Words /\ ZeroShare(s, i) \in Int
         /\ RandCoeff(s, i) \in Words \X Words
<1> DEFINE n == counter[s] + i
<1>1. n \in Nat /\ Prev(s) \in Server /\ query \in Requests
  <2>1. counter[s] \in Nat
    BY DEF DomainsOK
  <2> QED
    BY <2>1, ServerFacts DEF PlanOK
<1>2. Prf(query.prfKey[s], n) \in Words /\ Prf(query.prfKey[Prev(s)], n) \in Words
  BY <1>1 DEF PrfWords
<1> DEFINE x == Prf(query.prfKey[Prev(s)], n)  y == Prf(query.prfKey[s], n)
<1>3. ZeroShare(s, i) = (x - y) % Word /\ RandCoeff(s, i) = <<y, x>>
  BY DEF ZeroShare, RandCoeff
<1> HIDE DEF x, y
<1>4. x \in Words /\ y \in Words /\ x \in Int /\ y \in Int
  BY <1>2, ColumnKinds DEF x, y
<1>5. x - y \in Int
  BY <1>4
<1> DEFINE d == x - y
<1> HIDE DEF d
<1>6. d % Word \in Words /\ d % Word \in Int
  BY <1>5, WordIn DEF d
<1> QED
  BY <1>3, <1>4, <1>6 DEF d

\* What a resharing sends is one.
LEMMA OwnShare ==
  ASSUME PrfWords, PlanOK, DomainsOK, NEW s \in Server, NEW v \in Shares, NEW n \in Nat
  PROVE  [k \in Columns |-> (v[1][k] + v[2][k] + ZeroShare(s, n)) % Word] \in Share
<1> DEFINE f(k) == v[1][k] + v[2][k] + ZeroShare(s, n)
<1>1. ASSUME NEW k \in Columns PROVE f(k) \in Int
  <2>1. v[1][k] \in Int /\ v[2][k] \in Int /\ ZeroShare(s, n) \in Int
    BY ShareNumbers, MaskWord
  <2> QED
    BY <2>1
<1> HIDE DEF f
<1>2. [k \in Columns |-> f(k) % Word] \in Share
  BY <1>1, WordIn DEF Share
<1> QED
  BY <1>2 DEF f

\* The words of a column are numbers.
LEMMA ColumnNumbers ==
  ASSUME NEW v \in Shares, NEW k \in Columns
  PROVE  Column(v, k)[1] \in Int /\ Column(v, k)[2] \in Int
BY ShareNumbers DEF Column

\* So is what a combination sends, with a mask that is a word.
LEMMA ProductShare ==
  ASSUME NEW x \in Shares, NEW y \in Shares, NEW z \in Words
  PROVE  [k \in Columns |->
            (LocalProduct(Column(x, k), Column(y, 1)) + IF k = 1 THEN z ELSE 0) % Word] \in Share
<1> DEFINE p(k) == LocalProduct(Column(x, k), Column(y, 1))
           f(k) == p(k) + IF k = 1 THEN z ELSE 0
<1>1. ASSUME NEW k \in Columns PROVE p(k) \in Int
  BY ColumnNumbers, ColumnKinds, ProductInt
<1>2. z \in Int
  BY ColumnKinds
<1> HIDE DEF p
<1>3. \A k \in Columns : f(k) \in Int
  BY <1>1, <1>2
<1> HIDE DEF f
<1>4. [k \in Columns |-> f(k) % Word] \in Share
  BY <1>3, WordIn DEF Share
<1> QED
  BY <1>4 DEF f, p

\* The result of a combination is a vector.
LEMMA CompletedShares ==
  ASSUME NEW op, NEW p \in Shares, NEW x \in Shares, NEW y \in Shares
  PROVE  Completed(op, p, x, y) \in Shares
<1>1. ASSUME NEW i \in 1 .. 2, NEW k \in Columns
      PROVE  (p[i][k] + OrTerm(op, x[i][k], y[i][k])) % Word \in Words
  <2>1. i = 1 \/ i = 2
    OBVIOUS
  <2>2. p[i][k] \in Int /\ x[i][k] \in Int /\ y[i][k] \in Int
    BY <2>1, ShareNumbers
  <2> DEFINE t == OrTerm(op, x[i][k], y[i][k])
  <2>3. t \in Int
    BY <2>2 DEF OrTerm
  <2> HIDE DEF t
  <2>4. p[i][k] + t \in Int
    BY <2>2, <2>3
  <2> QED
    BY <2>4, WordIn DEF t
<1> QED
  BY <1>1 DEF Completed, Shares

\* A pair of shares is a vector.
LEMMA PairShares ==
  ASSUME NEW a \in Share, NEW b \in Share
  PROVE  <<a, b>> \in Shares
BY DEF Shares, Share

\* What a vector adds to the sums of the check is a number.
LEMMA CheckTermInt ==
  ASSUME NEW v \in Shares, Malicious, NEW c \in Words \X Words, NEW k \in 1 .. 2
  PROVE  CheckTerm(v, c)[k] \in Int
<1>1. k \in Columns /\ c[1] \in Int /\ c[2] \in Int
  BY ColumnKinds DEF Columns
<1>2. CheckTerm(v, c)[k] = LocalProduct(Column(v, k), c)
  BY DEF CheckTerm
<1> QED
  BY <1>1, <1>2, ColumnNumbers, ProductInt

\* The sums of the check remain words.
LEMMA CheckWords ==
  ASSUME NEW old \in Words \X Words, NEW f \in [1 .. 2 -> Int]
  PROVE  [k \in 1 .. 2 |-> (old[k] + f[k]) % Word] \in Words \X Words
<1>1. old[1] \in Int /\ old[2] \in Int
  BY ColumnKinds
<1>2. \A k \in 1 .. 2 : old[k] + f[k] \in Int
  <2> SUFFICES ASSUME NEW k \in 1 .. 2 PROVE old[k] + f[k] \in Int
    OBVIOUS
  <2>1. k = 1 \/ k = 2
    OBVIOUS
  <2>2. old[k] \in Int /\ f[k] \in Int
    BY <1>1, <2>1
  <2> QED
    BY <2>2
<1>3. \A k \in 1 .. 2 : (old[k] + f[k]) % Word \in Words
  BY <1>2, WordIn
<1> DEFINE g == [k \in 1 .. 2 |-> (old[k] + f[k]) % Word]
<1>4. g[1] \in Words /\ g[2] \in Words
  BY <1>3
<1>5. g = <<g[1], g[2]>>
  OBVIOUS
<1> HIDE DEF g
<1>6. g \in Words \X Words
  BY <1>4, <1>5
<1> QED
  BY <1>6 DEF g

\* Columns, and what a message is, depend on the request only.
LEMMA SameTypes ==
  ASSUME query' = query
  PROVE  /\ Malicious' = Malicious /\ Columns' = Columns /\ Share' = Share /\ Shares' = Shares
         /\ \A in, m : MessageOK(in, m)' = MessageOK(in, m)
<1>1. Malicious' = Malicious /\ Columns' = Columns
  BY DEF Malicious, Columns
<1>2. Share' = Share /\ Shares' = Shares
  BY <1>1 DEF Share, Shares, Words
<1>3. \A in, m : MessageOK(in, m)' = MessageOK(in, m)
  BY <1>2 DEF MessageOK
<1> QED
  BY <1>1, <1>2, <1>3

\* No two exchanges have a number.
LEMMA ExOnce ==
  ASSUME NEW seq, NEW m \in Nat \ {0}, NEW n \in Nat \ {0},
         seq[m].op \in Exchanges, seq[n].op \in Exchanges, ExIn(seq, m) = ExIn(seq, n)
  PROVE  m = n
<1>1. CASE m < n
  <2>1. n \in m + 1 .. n /\ m <= n /\ m \in Nat /\ n \in Nat
    BY <1>1
  <2>2. ExIn(seq, m) < ExIn(seq, n) /\ ExIn(seq, n) \in Nat
    BY <2>1, ExGrows
  <2> QED
    BY <2>2
<1>2. CASE n < m
  <2>1. m \in n + 1 .. m /\ n <= m /\ m \in Nat /\ n \in Nat
    BY <1>2
  <2>2. ExIn(seq, n) < ExIn(seq, m) /\ ExIn(seq, m) \in Nat
    BY <2>1, ExGrows
  <2> QED
    BY <2>2
<1> QED
  BY <1>1, <1>2

\* A message that is sent is typed.
LEMMA MessagesSent ==
  ASSUME Base, NEW s \in Server, NEW msg, Sends(s, msg), MessagesOK(s),
         MessageOK(plan[pc[s]], msg)
  PROVE  MessagesOK(s)'
<1> DEFINE p == published[s]
<1>1. /\ query' = query /\ plan' = plan /\ published'[s] = p + 1
      /\ outbox'[s] = Append(outbox[s], msg)
      /\ pc[s] \in 1 .. Len(plan) /\ plan[pc[s]].op \in Exchanges /\ AtRest(s)
  BY DEF Sends, Quiet
<1>2. /\ pc[s] \in Nat \ {0} /\ Len(plan) \in Nat /\ p \in Nat /\ ExIn(plan, pc[s]) = p + 1
  BY <1>1, ExHere DEF AtRest
<1>3. /\ \A i \in 1 .. p : outbox'[s][i] = outbox[s][i]
      /\ outbox'[s][p + 1] = msg
  <2>1. AnySeq(outbox[s]) /\ Len(outbox[s]) = p
    BY DEF Base, PaceOK
  <2> QED
    BY <1>1, <2>1, AppendAny
<1> SUFFICES ASSUME NEW n \in 1 .. Len(plan), plan[n].op \in Exchanges, ExIn(plan, n) <= p + 1
             PROVE  MessageOK(plan[n], outbox'[s][ExIn(plan, n)])
  <2>1. \A n : MessageOK(plan[n], outbox[s][ExIn(plan, n)])'
               = MessageOK(plan[n], outbox'[s][ExIn(plan, n)])
    BY <1>1, SameTypes DEF MessageOK, ExIn
  <2>2. \A n : ExIn(plan, n)' = ExIn(plan, n)
    BY <1>1 DEF ExIn
  <2> QED
    BY <1>1, <2>1, <2>2 DEF MessagesOK
<1>4. n \in Nat \ {0} /\ ExIn(plan, n) \in Nat /\ ExIn(plan, n) >= 1
  <2>1. n \in Nat \ {0}
    OBVIOUS
  <2>2. ExIn(plan, n - 1) \in Nat /\ ExIn(plan, n) = ExIn(plan, n - 1) + 1
    BY <2>1, ExStep
  <2> QED
    BY <2>1, <2>2
<1> HIDE DEF p
<1>5. CASE ExIn(plan, n) <= p
  <2>1. MessageOK(plan[n], outbox[s][ExIn(plan, n)])
    BY <1>5 DEF MessagesOK, p
  <2>2. ExIn(plan, n) \in 1 .. p
    BY <1>2, <1>4, <1>5
  <2> QED
    BY <1>3, <2>1, <2>2
<1>6. CASE ~(ExIn(plan, n) <= p)
  <2>1. ExIn(plan, n) = p + 1
    BY <1>2, <1>4, <1>6
  <2>2. n = pc[s]
    BY <1>1, <1>2, <1>4, <2>1, ExOnce
  <2> QED
    BY <1>3, <2>1, <2>2
<1> QED
  BY <1>5, <1>6

\* Those that were sent remain.
LEMMA MessagesKept ==
  ASSUME NEW t \in Server, MessagesOK(t), query' = query, plan' = plan,
         published'[t] = published[t], outbox'[t] = outbox[t]
  PROVE  MessagesOK(t)'
<1>1. \A n : MessageOK(plan[n], outbox[t][ExIn(plan, n)])'
             = MessageOK(plan[n], outbox[t][ExIn(plan, n)])
  BY SameTypes DEF MessageOK, ExIn
<1>2. \A n : ExIn(plan, n)' = ExIn(plan, n)
  BY DEF ExIn
<1> QED
  BY <1>1, <1>2 DEF MessagesOK

\* What a server receives is a message of the exchange that it finishes.
LEMMA ReceivedTyped ==
  ASSUME Base, NEW s \in Server, Finishes(s), MessagesOK(Prev(s))
  PROVE  MessageOK(plan[pc[s]], Received(s))
<1>1. /\ pc[s] \in 1 .. Len(plan) /\ plan[pc[s]].op \in Exchanges
      /\ finished[s] < published[Prev(s)] /\ Received(s) = outbox[Prev(s)][finished[s] + 1]
  BY DEF Finishes
<1>2. /\ ExIn(plan, pc[s]) = finished[s] + 1 /\ finished[s] \in Nat
      /\ published[Prev(s)] \in Nat
  BY <1>1, ExHere
<1>3. ExIn(plan, pc[s]) <= published[Prev(s)]
  BY <1>1, <1>2
<1> QED
  BY <1>1, <1>2, <1>3 DEF MessagesOK

\* Server t keeps its coefficients, the sums of the check and its answer.
KeepsSums(t) == check'[t] = check[t] /\ answer'[t] = answer[t]
KeepsRest(t) == coeff'[t] = coeff[t] /\ KeepsSums(t)

\* A server that does not move keeps its types.
LEMMA OthersTyped ==
  ASSUME BaseInv, NEW s \in Server, Moves(s), NEW t \in Server \ {s}, TypedAt(t), KeepsRest(t)
  PROVE  TypedAt(t)'
<1>1. /\ pc'[t] = pc[t] /\ published'[t] = published[t] /\ finished'[t] = finished[t]
      /\ outbox'[t] = outbox[t] /\ mem'[t] = mem[t] /\ operand'[t] = operand[t]
      /\ zero'[t] = zero[t] /\ coeff'[t] = coeff[t] /\ check'[t] = check[t]
      /\ answer'[t] = answer[t] /\ query' = query /\ plan' = plan
  BY OthersBase, BaseMoves DEF KeepsRest, KeepsSums
<1>2. Mid(t)' = Mid(t) /\ Malicious' = Malicious /\ Share' = Share /\ Shares' = Shares
  BY <1>1, SameTypes DEF Mid
<1>3. MessagesOK(t)'
  BY <1>1, MessagesKept DEF TypedAt
<1>4. VectorsOK(t)' /\ SumsOK(t)'
  BY <1>1, <1>2 DEF TypedAt, VectorsOK, SumsOK, Words
<1>5. MasksOK(t)'
  BY <1>1, <1>2 DEF TypedAt, MasksOK, FilledOK, CoeffOK, LastFill, Filling, Words
<1> QED
  BY <1>3, <1>4, <1>5 DEF TypedAt

\* Every server has coefficients, sums of the check and an answer.
RestDomains == DOMAIN coeff = Server /\ DOMAIN check = Server /\ DOMAIN answer = Server

\* What a step of server s must show for TypeInv.
TypedStep(s) == TypedAt(s)' /\ RestDomains' /\ \A t \in Server \ {s} : KeepsRest(t)

\* Where server s is, for the steps below.
LEMMA TypeFacts ==
  ASSUME TypeInv, NEW s \in Server
  PROVE  /\ Base /\ PlanOK /\ DomainsOK /\ PaceOK(s) /\ RestDomains /\ Len(plan) \in Nat
         /\ pc[s] \in Nat /\ published[s] \in Nat /\ finished[s] \in Nat
         /\ VectorsOK(s) /\ MasksOK(s) /\ MessagesOK(s) /\ SumsOK(s)
         /\ pc[s] # 0 => Computed(query.kind, LeafCount) \cup WrittenIn(plan, pc[s])
                           \subseteq DOMAIN mem[s]
<1>1. Base /\ RegsOK(s) /\ RestDomains /\ TypedAt(s)
  BY DEF TypeInv, BaseInv, RestDomains
<1>2. PlanOK /\ DomainsOK /\ PaceOK(s)
  BY <1>1 DEF Base
<1>3. pc[s] \in Nat /\ published[s] \in Nat /\ finished[s] \in Nat
  BY <1>2 DEF DomainsOK
<1> QED
  BY <1>1, <1>2, <1>3, PlanFacts DEF TypedAt, RegsOK

\* Masks and coefficients that server s does not draw again.
LEMMA MasksKept ==
  ASSUME NEW s \in Server, MasksOK(s), query' = query, plan' = plan,
         zero'[s] = zero[s], coeff'[s] = coeff[s],
         ~Mid(s)' \/ plan[pc'[s]].op # "reshare",
         \A f \in 1 .. Len(plan) :
           LastFill(plan, f, pc'[s]) => plan[pc[s]].op # "reshare" /\ LastFill(plan, f, pc[s])
  PROVE  MasksOK(s)'
<1>1. Malicious' = Malicious
  BY SameTypes
<1>2. ASSUME NEW f \in 1 .. Len(plan), LastFill(plan, f, pc'[s])
      PROVE  /\ Filling(plan[f]) \subseteq DOMAIN zero[s]
             /\ Malicious => Filling(plan[f]) \subseteq DOMAIN coeff[s]
  BY <1>2 DEF MasksOK, FilledOK
<1>3. FilledOK(s)'
  BY <1>1, <1>2 DEF FilledOK, LastFill, Filling
<1>4. CoeffOK(s)'
  BY DEF CoeffOK, Mid
<1> QED
  BY <1>3, <1>4 DEF MasksOK, Words

\* Vectors after a step that does not leave server s in the middle of a product.
LEMMA VectorsStep ==
  ASSUME NEW s \in Server, query' = query, plan' = plan,
         \A v \in DOMAIN mem'[s] : mem'[s][v] \in Shares,
         operand'[s] \in Shares \cup {<<>>},
         Mid(s)' /\ plan[pc'[s]].op \in {"and", "or"} => operand'[s] \in Shares
  PROVE  VectorsOK(s)'
<1>1. Shares' = Shares
  BY SameTypes
<1> QED
  BY <1>1 DEF VectorsOK, Mid

\* The sums of the check and the answer, where a step leaves them alone.
LEMMA SumsKept ==
  ASSUME NEW s \in Server, SumsOK(s), query' = query, KeepsSums(s)
  PROVE  SumsOK(s)'
<1>1. Share' = Share
  BY SameTypes
<1> QED
  BY <1>1 DEF SumsOK, KeepsSums, Words

\* Evaluate.
LEMMA EvaluateTyped ==
  ASSUME RandNumbers, RequestsFit, TypeInv, NEW s \in Server, Evaluate(s)
  PROVE  TypedStep(s)
<1>1. /\ Base /\ PlanOK /\ DomainsOK /\ PaceOK(s) /\ RestDomains
      /\ VectorsOK(s) /\ MasksOK(s) /\ MessagesOK(s) /\ SumsOK(s)
  BY TypeFacts
<1>2. Passes(s) /\ Evaluates(s)
  BY <1>1, EvaluateDoes
<1>3. /\ query' = query /\ plan' = plan /\ pc[s] = 0 /\ pc'[s] = 1 /\ mem'[s] = Inputs(s)
      /\ operand'[s] = operand[s] /\ zero'[s] = zero[s]
      /\ published'[s] = published[s] /\ finished'[s] = finished[s] /\ outbox'[s] = outbox[s]
  BY <1>2 DEF Passes, Quiet, Evaluates, KeepsMasks
<1>4. coeff' = coeff /\ check' = check /\ answer' = answer
  BY DEF Evaluate, masks
<1>5. ~Mid(s)'
  <2>1. published[s] = finished[s] /\ finished[s] \in Nat
    BY <1>1, <1>3 DEF PaceOK, AtRest, DomainsOK
  <2> QED
    BY <1>3, <2>1 DEF Mid
<1>6. VectorsOK(s)'
  <2>1. \A v \in DOMAIN mem'[s] : mem'[s][v] \in Shares
    BY <1>1, <1>3, InputsTyped
  <2> QED
    BY <1>1, <1>3, <1>5, <2>1, VectorsStep DEF VectorsOK
<1>7. MasksOK(s)'
  <2>1. \A f \in 1 .. Len(plan) : ~LastFill(plan, f, pc'[s])
    BY <1>3 DEF LastFill
  <2> QED
    BY <1>1, <1>3, <1>4, <1>5, <2>1, MasksKept
<1>8. MessagesOK(s)' /\ SumsOK(s)'
  BY <1>1, <1>3, <1>4, MessagesKept, SumsKept DEF KeepsSums
<1> QED
  BY <1>1, <1>4, <1>6, <1>7, <1>8 DEF TypedStep, TypedAt, RestDomains, KeepsRest, KeepsSums

\* The index of a coefficient.
LEMMA CoeffIndexNat ==
  ASSUME FourChunks, RequestsFit, PlanOK, Malicious, NEW row \in Nat, NEW rows \in Nat
  PROVE  CoeffIndex(row, rows) \in Nat
<1> DEFINE half == ChunkSize \div 2
<1>1. query.kind = "filter" /\ Window % 4 = 0 /\ Window \in Nat \ {0} /\ query \in Requests
  BY SizeAssumption DEF PlanOK, Malicious, RequestsFit, FourChunks
<1>2. VectorLen = 2 * Window
  <2>1. Columns = 1 .. 2
    BY DEF Columns
  <2>2. 1 .. 2 = {1} \cup {2} /\ 2 \notin {1}
    OBVIOUS
  <2>3. IsFiniteSet({1}) /\ Cardinality({1}) = 1
    BY FS_Singleton
  <2>4. Cardinality({1} \cup {2}) = Cardinality({1}) + 1
    BY <2>2, <2>3, FS_AddElement
  <2> QED
    BY <2>1, <2>2, <2>3, <2>4 DEF VectorLen, MacFactor
<1>3. ChunkSize \in Nat /\ half \in Nat \ {0} /\ VectorLen \in Nat
  <2>1. Window >= 4
    BY <1>1
  <2>2. VectorLen \in Nat /\ VectorLen >= 8
    BY <1>1, <1>2, <2>1
  <2>3. ChunkSize = VectorLen \div 4
    BY DEF ChunkSize, NumChunks
  <2>4. ChunkSize \in Nat /\ ChunkSize >= 2
    BY <2>2, <2>3
  <2> QED
    BY <2>2, <2>4
<1>4. query.row \in Nat
  BY Sizes, SizeAssumption
<1> DEFINE a == row * VectorLen  b == (query.row \div half) * ChunkSize  c == query.row % half
           d == rows * VectorLen
<1>5. CoeffIndex(row, rows) = a + b + c + d
  BY DEF CoeffIndex
<1> HIDE DEF half
<1>6. a \in Nat /\ b \in Nat /\ c \in Nat /\ d \in Nat
  <2>0. \A x, y \in Nat : x * y \in Nat
    OBVIOUS
  <2>1. query.row \div half \in Nat /\ query.row % half \in Nat
    BY <1>3, <1>4
  <2> QED
    BY <1>3, <2>0, <2>1
<1> HIDE DEF a, b, c, d
<1> QED
  BY <1>5, <1>6

\* What FillZeros draws.
LEMMA FillDraws ==
  ASSUME PrfWords, FourChunks, RequestsFit, Base, NEW s \in Server, FillZeros(s),
         DOMAIN coeff = Server
  PROVE  LET in == plan[pc[s]] IN
         /\ in.op = "fill" /\ DOMAIN zero'[s] = Filling(in)
         /\ \A row \in Filling(in) : zero'[s][row] \in Words
         /\ \A i \in DOMAIN coeff'[s] : coeff'[s][i] \in Words \X Words
         /\ Malicious => Filling(in) = DOMAIN coeff'[s]
<1> DEFINE in == plan[pc[s]]
           drawn(row) == RandCoeff(s, CoeffIndex(row, in.rows))
           mask(row) == ZeroShare(s, row * VectorLen + query.row)
<1>1. /\ PlanOK /\ DomainsOK /\ Running(s) /\ Instr(s).op = "fill" /\ pc[s] \in Nat
  BY DEF Base, DomainsOK, FillZeros
<1>2. Instr(s) = in /\ in.op = "fill" /\ in \in InstrSet
  BY <1>1, InstrFacts
<1>3. in.first \in Nat /\ in.rows \in Nat
  BY <1>2, InstrKinds
<1>4. \A row \in Filling(in) : row \in Nat
  BY <1>3 DEF Filling
<1>5. /\ IF Filled THEN zero' = [zero EXCEPT ![s] = [row \in Filling(in) |-> mask(row)]]
         ELSE \E w \in Words : zero' = [zero EXCEPT ![s] = [row \in Filling(in) |-> w]]
      /\ coeff' = [coeff EXCEPT ![s] =
                     IF Malicious THEN [row \in Filling(in) |-> drawn(row)] ELSE <<>>]
  BY <1>2 DEF FillZeros, Filling
<1>6. \A row \in Filling(in) : mask(row) \in Words
  <2> SUFFICES ASSUME NEW row \in Filling(in) PROVE mask(row) \in Words
    OBVIOUS
  <2>1. row * VectorLen + query.row \in Nat
    BY <1>1, <1>4, Sizes
  <2> QED
    BY <1>1, <2>1, MaskWord
<1>7. ASSUME Malicious
      PROVE  \A row \in Filling(in) : drawn(row) \in Words \X Words
  <2> SUFFICES ASSUME NEW row \in Filling(in) PROVE drawn(row) \in Words \X Words
    OBVIOUS
  <2>1. CoeffIndex(row, in.rows) \in Nat
    BY <1>1, <1>3, <1>4, <1>7, CoeffIndexNat
  <2> QED
    BY <1>1, <2>1, MaskWord
<1> HIDE DEF drawn, mask, in
<1>8. DOMAIN zero'[s] = Filling(in) /\ \A row \in Filling(in) : zero'[s][row] \in Words
  <2>1. DOMAIN zero = Server
    BY <1>1 DEF DomainsOK
  <2>2. CASE Filled
    <3>1. zero'[s] = [row \in Filling(in) |-> mask(row)]
      BY <1>5, <2>1, <2>2
    <3> QED
      BY <1>6, <3>1
  <2>3. CASE ~Filled
    <3>1. PICK w \in Words : zero' = [zero EXCEPT ![s] = [row \in Filling(in) |-> w]]
      BY <1>5, <2>3
    <3>2. zero'[s] = [row \in Filling(in) |-> w]
      BY <2>1, <3>1
    <3> QED
      BY <3>2
  <2> QED
    BY <2>2, <2>3
<1>9. coeff'[s] = IF Malicious THEN [row \in Filling(in) |-> drawn(row)] ELSE <<>>
  BY <1>5
<1> QED
  BY <1>2, <1>7, <1>8, <1>9 DEF in

\* After a Fill, the last one is that.
LEMMA FillLast ==
  ASSUME NEW seq, NEW n \in Nat \ {0}, seq[n].op = "fill", NEW f, LastFill(seq, f, n + 1)
  PROVE  f = n
<1>1. f \in 1 .. n /\ \A g \in f + 1 .. n : seq[g].op \in {"and", "or"}
  BY DEF LastFill
<1>2. f < n => n \in f + 1 .. n
  BY <1>1
<1> QED
  BY <1>1, <1>2

\* FillZeros.
LEMMA FillZerosTyped ==
  ASSUME PrfWords, FourChunks, RequestsFit, TypeInv, NEW s \in Server, FillZeros(s)
  PROVE  TypedStep(s)
<1> DEFINE n == pc[s]
<1>1. /\ Base /\ PlanOK /\ DomainsOK /\ PaceOK(s) /\ RestDomains /\ n \in Nat
      /\ VectorsOK(s) /\ MasksOK(s) /\ MessagesOK(s) /\ SumsOK(s) /\ finished[s] \in Nat
  BY TypeFacts
<1>2. Passes(s) /\ Fills(s)
  BY <1>1, FillZerosDoes
<1>3. /\ query' = query /\ plan' = plan /\ n \in 1 .. Len(plan) /\ pc'[s] = n + 1
      /\ plan[n].op = "fill" /\ mem'[s] = mem[s] /\ operand'[s] = operand[s]
      /\ published'[s] = published[s] /\ finished'[s] = finished[s] /\ outbox'[s] = outbox[s]
  BY <1>2 DEF Passes, Quiet, Fills, KeepsMem
<1>4. /\ \A t \in Server \ {s} : coeff'[t] = coeff[t]
      /\ DOMAIN coeff' = Server /\ check' = check /\ answer' = answer
  BY <1>1 DEF FillZeros, RestDomains
<1>5. ~Mid(s)'
  <2>1. published[s] = finished[s]
    BY <1>1, <1>3 DEF PaceOK, AtRest, Exchanges
  <2> QED
    BY <1>1, <1>3, <2>1 DEF Mid
<1>6. VectorsOK(s)'
  BY <1>1, <1>3, <1>5, VectorsStep DEF VectorsOK
<1>7. MasksOK(s)'
  <2>1. /\ DOMAIN zero'[s] = Filling(plan[n])
        /\ \A row \in Filling(plan[n]) : zero'[s][row] \in Words
        /\ \A i \in DOMAIN coeff'[s] : coeff'[s][i] \in Words \X Words
        /\ Malicious => Filling(plan[n]) = DOMAIN coeff'[s]
    BY <1>1, FillDraws DEF RestDomains
  <2>2. \A f \in 1 .. Len(plan) : LastFill(plan, f, n + 1) => f = n
    BY <1>1, <1>3, FillLast
  <2>3. Malicious' = Malicious
    BY <1>3, SameTypes
  <2>4. FilledOK(s)'
    BY <1>3, <2>1, <2>2, <2>3 DEF FilledOK, LastFill, Filling
  <2>5. CoeffOK(s)'
    BY <1>5 DEF CoeffOK
  <2> QED
    BY <2>1, <2>4, <2>5 DEF MasksOK, Words
<1>8. MessagesOK(s)' /\ SumsOK(s)'
  BY <1>1, <1>3, <1>4, MessagesKept, SumsKept DEF KeepsSums
<1> QED
  BY <1>1, <1>4, <1>6, <1>7, <1>8 DEF TypedStep, TypedAt, RestDomains, KeepsRest, KeepsSums

\* What SendReshare sends and draws.
LEMMA ReshareDraws ==
  ASSUME PrfWords, RequestsFit, TypeInv, NEW s \in Server, SendReshare(s)
  PROVE  LET regs == plan[pc[s]].regs IN
         \E msg :
           /\ Sends(s, msg) /\ ReshareSent(s, msg) /\ \A i \in DOMAIN regs : msg[i] \in Share
           /\ \A i \in DOMAIN coeff'[s] : coeff'[s][i] \in Words \X Words
           /\ Malicious => DOMAIN regs = DOMAIN coeff'[s]
<1> DEFINE in == Instr(s)
           regs == in.regs
           mask(i) == (i - 1) * Len(regs) + VectorLen
           own(i) == [k \in Columns |->
                        (mem[s][regs[i]][1][k] + mem[s][regs[i]][2][k] + ZeroShare(s, mask(i))) % Word]
           m == [i \in DOMAIN regs |-> own(i)]
           index(i) == Len(regs) * VectorLen + (i - 1) * Len(regs) + VectorLen
<1>1. /\ Base /\ PlanOK /\ DomainsOK /\ RestDomains /\ pc[s] \in Nat /\ VectorsOK(s)
      /\ pc[s] # 0 => Computed(query.kind, LeafCount) \subseteq DOMAIN mem[s]
  BY TypeFacts
<1>2. Running(s) /\ Instr(s).op = "reshare"
  BY ZenonT(60) DEF SendReshare
<1>3. /\ in = plan[pc[s]] /\ in.op = "reshare" /\ in \in InstrSet /\ pc[s] \in 1 .. Len(plan)
  BY ZenonT(60), <1>1, <1>2, InstrFacts
<1>4. PICK msg : Sends(s, msg) /\ ReshareSent(s, msg)
  BY ZenonT(60), <1>1, SendReshareDoes
<1>5. /\ outbox' = [outbox EXCEPT ![s] = Append(@, m)]
      /\ coeff' = [coeff EXCEPT ![s] =
                     IF Malicious THEN [i \in DOMAIN regs |-> RandCoeff(s, index(i))] ELSE <<>>]
  BY ZenonT(60) DEF SendReshare
<1>6. regs \in Seq(Reg) /\ Range(regs) \subseteq DOMAIN mem[s]
  <2>1. in.regs \in Seq(Reg)
    BY <1>3, InstrKinds
  <2>2. Range(plan[pc[s]].regs) \subseteq Computed(query.kind, LeafCount)
    BY <1>1, <1>3, OperandFacts
  <2> QED
    BY <1>1, <1>3, <2>1, <2>2
<1> HIDE DEF in
<1>7. Len(regs) \in Nat /\ DOMAIN regs = 1 .. Len(regs) /\ VectorLen \in Nat
  BY <1>1, <1>6, LenProperties, Sizes
<1>8. ASSUME NEW i \in DOMAIN regs
      PROVE  mask(i) \in Nat /\ index(i) \in Nat /\ regs[i] \in DOMAIN mem[s]
  <2>0. \A x, y, z \in Nat : x * y + z \in Nat /\ x * y \in Nat /\ x + y \in Nat
    OBVIOUS
  <2>1. i - 1 \in Nat
    BY <1>7, <1>8
  <2>2. regs[i] \in Range(regs)
    BY <1>8 DEF Range
  <2> DEFINE a == (i - 1) * Len(regs)  b == Len(regs) * VectorLen
  <2>3. a \in Nat /\ b \in Nat
    BY <1>7, <2>0, <2>1
  <2> HIDE DEF a, b
  <2>4. a + VectorLen \in Nat /\ b + a + VectorLen \in Nat
    BY <1>7, <2>3
  <2> QED
    BY <1>6, <2>2, <2>4 DEF a, b
<1>9. \A i \in DOMAIN regs : own(i) \in Share
  <2> SUFFICES ASSUME NEW i \in DOMAIN regs PROVE own(i) \in Share
    OBVIOUS
  <2>1. mem[s][regs[i]] \in Shares /\ mask(i) \in Nat
    BY <1>1, <1>8 DEF VectorsOK
  <2> HIDE DEF mask, regs
  <2> QED
    BY <1>1, <2>1, OwnShare
<1>10. \A i \in DOMAIN regs : RandCoeff(s, index(i)) \in Words \X Words
  <2> SUFFICES ASSUME NEW i \in DOMAIN regs PROVE RandCoeff(s, index(i)) \in Words \X Words
    OBVIOUS
  <2>1. index(i) \in Nat
    BY <1>8
  <2> HIDE DEF index, regs
  <2> QED
    BY <1>1, <2>1, MaskWord
<1>11. msg = m
  <2>1. AnySeq(outbox[s]) /\ DOMAIN outbox = Server /\ Len(outbox[s]) = published[s]
    BY <1>1 DEF Base, PaceOK, DomainsOK
  <2> HIDE DEF m
  <2>2. outbox'[s] = Append(outbox[s], m) /\ outbox'[s] = Append(outbox[s], msg)
    BY <1>4, <1>5, <2>1 DEF Sends
  <2>3. /\ Append(outbox[s], m)[Len(outbox[s]) + 1] = m
        /\ Append(outbox[s], msg)[Len(outbox[s]) + 1] = msg
    BY <2>1, AppendAny
  <2> QED
    BY <2>2, <2>3
<1> HIDE DEF regs, own, index
<1>12. coeff'[s] = IF Malicious THEN [i \in DOMAIN regs |-> RandCoeff(s, index(i))] ELSE <<>>
  BY <1>1, <1>5 DEF RestDomains
<1>13. /\ \A i \in DOMAIN regs : msg[i] \in Share
       /\ \A i \in DOMAIN coeff'[s] : coeff'[s][i] \in Words \X Words
       /\ Malicious => DOMAIN regs = DOMAIN coeff'[s]
  BY <1>9, <1>10, <1>11, <1>12
<1> QED
  BY <1>3, <1>4, <1>13 DEF regs

\* SendReshare.
LEMMA SendReshareTyped ==
  ASSUME PrfWords, RequestsFit, TypeInv, NEW s \in Server, SendReshare(s)
  PROVE  TypedStep(s)
<1> DEFINE n == pc[s]  regs == plan[n].regs
<1>1. /\ Base /\ PlanOK /\ DomainsOK /\ PaceOK(s) /\ RestDomains /\ n \in Nat
      /\ VectorsOK(s) /\ MasksOK(s) /\ MessagesOK(s) /\ SumsOK(s) /\ finished[s] \in Nat
  BY TypeFacts
<1>2. PICK msg :
        /\ Sends(s, msg) /\ ReshareSent(s, msg) /\ \A i \in DOMAIN regs : msg[i] \in Share
        /\ \A i \in DOMAIN coeff'[s] : coeff'[s][i] \in Words \X Words
        /\ Malicious => DOMAIN regs = DOMAIN coeff'[s]
  BY ReshareDraws
<1>3. /\ query' = query /\ plan' = plan /\ pc'[s] = n /\ plan[n].op = "reshare"
      /\ operand'[s] = operand[s] /\ DOMAIN mem'[s] = DOMAIN mem[s] /\ zero'[s] = zero[s]
      /\ \A v \in DOMAIN mem[s] :
           mem'[s][v] = IF v \in Range(regs) THEN <<mem[s][v][1], msg[IndexOf(regs, v)]>>
                        ELSE mem[s][v]
  BY <1>2 DEF Sends, Quiet, ReshareSent
<1>4. /\ \A t \in Server \ {s} : coeff'[t] = coeff[t]
      /\ DOMAIN coeff' = Server /\ check' = check /\ answer' = answer
  <2>1. \E c : coeff' = [coeff EXCEPT ![s] = c]
    BY ZenonT(60) DEF SendReshare
  <2>2. check' = check /\ answer' = answer
    BY ZenonT(60) DEF SendReshare
  <2> QED
    BY <1>1, <2>1, <2>2 DEF RestDomains
<1>5. VectorsOK(s)'
  <2>1. ASSUME NEW v \in DOMAIN mem'[s] PROVE mem'[s][v] \in Shares
    <3>1. mem[s][v] \in Shares
      BY <1>1, <1>3 DEF VectorsOK
    <3>2. CASE v \in Range(regs)
      <4>1. msg[IndexOf(regs, v)] \in Share /\ mem[s][v][1] \in Share
        BY <1>2, <3>1, <3>2, IndexFact, ShareNumbers
      <4>2. mem'[s][v] = <<mem[s][v][1], msg[IndexOf(regs, v)]>>
        BY <1>3, <3>2
      <4> QED
        BY <4>1, <4>2, PairShares
    <3>3. CASE v \notin Range(regs)
      BY <1>3, <3>1, <3>3
    <3> QED
      BY <3>2, <3>3
  <2>2. operand'[s] \in Shares \cup {<<>>}
    BY <1>1, <1>3 DEF VectorsOK
  <2>3. plan[pc'[s]].op \notin {"and", "or"}
    BY <1>3
  <2> QED
    BY <1>3, <2>1, <2>2, <2>3, VectorsStep
<1>6. MasksOK(s)'
  <2>1. \A row \in DOMAIN zero'[s] : zero'[s][row] \in Words
    BY <1>1, <1>3 DEF MasksOK
  <2>2. FilledOK(s)'
    BY <1>3 DEF FilledOK
  <2>3. Malicious' = Malicious
    BY <1>3, SameTypes
  <2>4. CoeffOK(s)'
    BY <1>2, <1>3, <2>3 DEF CoeffOK
  <2> QED
    BY <1>2, <2>1, <2>2, <2>4 DEF MasksOK, Words
<1>7. MessagesOK(s)'
  <2>1. MessageOK(plan[pc[s]], msg)
    BY <1>2, <1>3 DEF MessageOK
  <2> QED
    BY <1>1, <1>2, <2>1, MessagesSent
<1>8. SumsOK(s)'
  BY <1>1, <1>3, <1>4, SumsKept DEF KeepsSums
<1> QED
  BY <1>1, <1>4, <1>5, <1>6, <1>7, <1>8 DEF TypedStep, TypedAt, RestDomains, KeepsRest, KeepsSums

\* Vector v after a resharing is finished.
NewVector(s, v) == <<Received(s)[IndexOf(plan[pc[s]].regs, v)], mem[s][v][2]>>

\* What the i-th vector of a resharing adds to sum k of the check.
ReshareTerm(s, k, i) == CheckTerm(NewVector(s, plan[pc[s]].regs[i]), coeff[s][i])[k]

\* The recursion of MapThenSumSet over them, and its value at all of them.
TermStep(s, k, F) ==
  [x \in SUBSET DOMAIN plan[pc[s]].regs |->
     IF x = {} THEN 0
     ELSE ReshareTerm(s, k, CHOOSE y \in x : TRUE) + F[x \ {CHOOSE y \in x : TRUE}]]

ReshareTerms(s, k) ==
  (CHOOSE F : F = TermStep(s, k, F))[DOMAIN plan[pc[s]].regs]

\* All of them add a number.
LEMMA TermsAdd ==
  ASSUME NEW s, NEW k, NEW n \in Nat, DOMAIN plan[pc[s]].regs = 1 .. n,
         \A i \in 1 .. n : ReshareTerm(s, k, i) \in Int
  PROVE  ReshareTerms(s, k) \in Int
<1> DEFINE f == [i \in 1 .. n |-> ReshareTerm(s, k, i)]
           R(F) == TermStep(s, k, F)
           F0 == CHOOSE F : F = R(F)
<1>1. f \in [1 .. n -> Int]
  OBVIOUS
<1>2. ASSUME NEW F PROVE R(F) = AddStep(f, n, F)
  <2> DEFINE t(i) == ReshareTerm(s, k, i)
             A(x) == IF x = {} THEN 0 ELSE t(AnyOf(x)) + F[x \ {AnyOf(x)}]
             B(x) == IF x = {} THEN 0 ELSE f[AnyOf(x)] + F[x \ {AnyOf(x)}]
  <2>1. \A i \in 1 .. n : f[i] = t(i)
    OBVIOUS
  <2>2. \A x \in SUBSET (1 .. n) : x # {} => AnyOf(x) \in 1 .. n
    BY DEF AnyOf
  <2> HIDE DEF f, t
  <2>3. \A x \in SUBSET (1 .. n) : A(x) = B(x)
    BY <2>1, <2>2
  <2>4. R(F) = [x \in SUBSET (1 .. n) |-> A(x)]
    BY DEF TermStep, AnyOf, t
  <2>5. AddStep(f, n, F) = [x \in SUBSET (1 .. n) |-> B(x)]
    BY DEF AddStep
  <2> HIDE DEF A, B, R
  <2> QED
    BY <2>3, <2>4, <2>5
<1> HIDE DEF f, R
<1>3. PICK g : g = AddStep(f, n, g)
  BY <1>1, SumExists
<1>4. g = R(g)
  BY <1>2, <1>3
<1>5. F0 = R(F0)
  BY <1>4
<1> HIDE DEF F0
<1>6. F0 = AddStep(f, n, F0)
  BY <1>2, <1>5
<1>7. F0[1 .. n] \in Int
  BY <1>1, <1>6, SumNumber
<1> QED
  BY <1>7 DEF ReshareTerms, F0, R

\* What FinishReshare receives are vectors.
LEMMA ReshareReceives ==
  ASSUME RequestsFit, TypeInv, NEW s \in Server, FinishReshare(s)
  PROVE  LET regs == plan[pc[s]].regs IN
         /\ Finishes(s) /\ ReshareFinished(s) /\ plan[pc[s]].op = "reshare" /\ Mid(s)
         /\ regs \in Seq(Reg) /\ Range(regs) \subseteq DOMAIN mem[s]
         /\ \A v \in Range(regs) : NewVector(s, v) \in Shares
<1> DEFINE regs == plan[pc[s]].regs
<1>1. /\ Base /\ PlanOK /\ VectorsOK(s) /\ pc[s] \in Nat
      /\ pc[s] # 0 => Computed(query.kind, LeafCount) \subseteq DOMAIN mem[s]
  BY TypeFacts
<1>2. MessagesOK(Prev(s))
  BY ServerFacts, TypeFacts
<1>3. Finishes(s) /\ ReshareFinished(s)
  BY <1>1, FinishReshareDoes
<1>4. plan[pc[s]].op = "reshare" /\ Mid(s) /\ pc[s] \in 1 .. Len(plan)
  BY <1>3 DEF Finishes, ReshareFinished
<1>5. \A i \in DOMAIN regs : Received(s)[i] \in Share
  BY <1>1, <1>2, <1>3, <1>4, ReceivedTyped DEF MessageOK
<1>6. regs \in Seq(Reg)
  <2>1. plan[pc[s]] \in InstrSet
    BY <1>1, <1>4, PlanFacts, ElementOfSeq
  <2> QED
    BY <1>4, <2>1, InstrKinds
<1>7. Range(regs) \subseteq DOMAIN mem[s]
  <2>1. Range(plan[pc[s]].regs) \subseteq Computed(query.kind, LeafCount)
    BY <1>1, <1>4, OperandFacts
  <2> QED
    BY <1>1, <1>4, <2>1
<1>8. ASSUME NEW v \in Range(regs) PROVE NewVector(s, v) \in Shares
  <2>1. Received(s)[IndexOf(regs, v)] \in Share
    BY <1>5, IndexFact
  <2>2. mem[s][v][2] \in Share
    BY <1>1, <1>7, ShareNumbers DEF VectorsOK
  <2> QED
    BY <2>1, <2>2, PairShares DEF NewVector
<1> QED
  BY <1>3, <1>4, <1>6, <1>7, <1>8

\* The check after a resharing.
LEMMA ReshareCheck ==
  ASSUME RequestsFit, TypeInv, NEW s \in Server, FinishReshare(s)
  PROVE  /\ check'[s] \in Words \X Words /\ DOMAIN check' = Server
         /\ \A t \in Server \ {s} : check'[t] = check[t]
<1> DEFINE regs == plan[pc[s]].regs
<1>1. /\ PlanOK /\ DOMAIN check = Server /\ SumsOK(s) /\ MasksOK(s) /\ pc[s] \in Nat
  BY TypeFacts DEF RestDomains
<1>2. /\ plan[pc[s]].op = "reshare" /\ Mid(s) /\ regs \in Seq(Reg)
      /\ \A v \in Range(regs) : NewVector(s, v) \in Shares
  BY ReshareReceives
<1>3. Instr(s) = plan[pc[s]]
  BY DEF Instr
<1>4. check' = IF Malicious
               THEN [check EXCEPT ![s] = [k \in 1 .. 2 |-> (@[k] + ReshareTerms(s, k)) % Word]]
               ELSE check
  BY DEF FinishReshare, Instr, ReshareTerms, TermStep, ReshareTerm, NewVector, IndexOf,
                          MapThenSumSet, MapThenFoldSet
<1>5. CASE ~Malicious
  BY <1>1, <1>4, <1>5 DEF SumsOK
<1>6. CASE Malicious
  <2>1. DOMAIN regs = 1 .. Len(regs) /\ Len(regs) \in Nat
    BY <1>2, LenProperties
  <2>2. DOMAIN regs \subseteq DOMAIN coeff[s]
    BY <1>1, <1>2, <1>6 DEF MasksOK, CoeffOK
  <2>3. ASSUME NEW k \in 1 .. 2, NEW i \in 1 .. Len(regs)
        PROVE  ReshareTerm(s, k, i) \in Int
    <3>1. coeff[s][i] \in Words \X Words
      BY <1>1, <2>1, <2>2 DEF MasksOK
    <3>2. NewVector(s, regs[i]) \in Shares
      BY <1>2, <2>1 DEF Range
    <3> QED
      BY <1>6, <3>1, <3>2, CheckTermInt DEF ReshareTerm
  <2>4. ASSUME NEW k \in 1 .. 2 PROVE ReshareTerms(s, k) \in Int
    BY <2>1, <2>3, TermsAdd
  <2> DEFINE f == [k \in 1 .. 2 |-> ReshareTerms(s, k)]
             old == check[s]
             new == [k \in 1 .. 2 |-> (old[k] + ReshareTerms(s, k)) % Word]
  <2>5. f \in [1 .. 2 -> Int]
    BY <2>4
  <2>6. new = [k \in 1 .. 2 |-> (old[k] + f[k]) % Word]
    OBVIOUS
  <2>7. old \in Words \X Words
    BY <1>1 DEF SumsOK
  <2>8. check' = [check EXCEPT ![s] = new]
    BY <1>4, <1>6
  <2> HIDE DEF f, old, new
  <2>9. new \in Words \X Words
    BY <2>5, <2>6, <2>7, CheckWords
  <2> QED
    BY <1>1, <2>8, <2>9
<1> QED
  BY <1>5, <1>6

\* FinishReshare.
LEMMA FinishReshareTyped ==
  ASSUME RequestsFit, TypeInv, NEW s \in Server, FinishReshare(s)
  PROVE  TypedStep(s)
<1> DEFINE n == pc[s]  regs == plan[n].regs
<1>1. /\ Base /\ PlanOK /\ DomainsOK /\ RestDomains /\ n \in Nat /\ published[s] \in Nat
      /\ VectorsOK(s) /\ MasksOK(s) /\ MessagesOK(s) /\ SumsOK(s) /\ finished[s] \in Nat
  BY TypeFacts
<1>2. /\ Finishes(s) /\ ReshareFinished(s) /\ plan[n].op = "reshare" /\ Mid(s)
      /\ Range(regs) \subseteq DOMAIN mem[s] /\ \A v \in Range(regs) : NewVector(s, v) \in Shares
  BY ReshareReceives
<1>3. /\ query' = query /\ plan' = plan /\ pc'[s] = n + 1 /\ n \in 1 .. Len(plan)
      /\ published'[s] = published[s] /\ finished'[s] = finished[s] + 1
      /\ outbox'[s] = outbox[s] /\ operand'[s] = operand[s] /\ DOMAIN mem'[s] = DOMAIN mem[s]
      /\ zero'[s] = zero[s]
      /\ \A v \in DOMAIN mem[s] :
           mem'[s][v] = IF v \in Range(regs) THEN NewVector(s, v) ELSE mem[s][v]
  BY <1>2 DEF Finishes, Quiet, ReshareFinished, KeepsMasks, NewVector
<1>4. coeff' = coeff /\ answer' = answer
  BY ZenonT(60) DEF FinishReshare, masks
<1>5. /\ check'[s] \in Words \X Words /\ DOMAIN check' = Server
      /\ \A t \in Server \ {s} : check'[t] = check[t]
  BY ReshareCheck
<1>6. ~Mid(s)'
  BY <1>1, <1>2, <1>3 DEF Mid
<1>7. VectorsOK(s)'
  <2>1. \A v \in DOMAIN mem'[s] : mem'[s][v] \in Shares
    BY <1>1, <1>2, <1>3 DEF VectorsOK
  <2> QED
    BY <1>1, <1>3, <1>6, <2>1, VectorsStep DEF VectorsOK
<1>8. MasksOK(s)'
  <2>1. ASSUME NEW f, LastFill(plan, f, n + 1) PROVE FALSE
    <3>1. /\ f \in 1 .. n /\ plan[f].op = "fill"
          /\ \A g \in f + 1 .. n : plan[g].op \in {"and", "or"}
      BY <1>1, <2>1 DEF LastFill
    <3>2. f # n
      BY <1>2, <3>1
    <3>3. n \in f + 1 .. n
      BY <1>1, <3>1, <3>2
    <3> QED
      BY <1>2, <3>1, <3>3
  <2> QED
    BY <1>1, <1>3, <1>4, <1>6, <2>1, MasksKept
<1>9. MessagesOK(s)'
  BY <1>1, <1>3, MessagesKept
<1>10. SumsOK(s)'
  <2>1. Share' = Share
    BY <1>3, SameTypes
  <2> QED
    BY <1>1, <1>4, <1>5, <2>1 DEF SumsOK, Words
<1> QED
  BY <1>1, <1>4, <1>5, <1>7, <1>8, <1>9, <1>10
     DEF TypedStep, TypedAt, RestDomains, KeepsRest, KeepsSums

\* The operands of a combination are vectors and, unless its exchange has begun,
\* its mask is a word; in malicious mode its coefficients are words.
LEMMA CombinationTyped ==
  ASSUME TypeInv, NEW s \in Server, pc[s] \in 1 .. Len(plan), plan[pc[s]].op \in {"and", "or"}
  PROVE  LET in == plan[pc[s]] IN
         /\ mem[s][in.x] \in Shares /\ mem[s][in.y] \in Shares
         /\ zero[s][in.row] \in Words
         /\ Malicious => coeff[s][in.row] \in Words \X Words
<1> DEFINE n == pc[s]  in == plan[n]
<1>1. /\ Base /\ PlanOK /\ n \in Nat /\ VectorsOK(s) /\ MasksOK(s) /\ Len(plan) \in Nat
      /\ n # 0 => WrittenIn(plan, n) \subseteq DOMAIN mem[s]
  BY TypeFacts
<1>2. in.x \in WrittenIn(plan, n) /\ in.y \in WrittenIn(plan, n)
  BY <1>1, OperandFacts
<1>3. mem[s][in.x] \in Shares /\ mem[s][in.y] \in Shares
  BY <1>1, <1>2 DEF VectorsOK
<1>4. InstrOK(plan, n, {}, Computed(query.kind, LeafCount))
  BY <1>1, PlanFacts DEF Piece
<1>5. PICK f \in 1 .. n - 1 : LastFill(plan, f, n) /\ in.row \in Filling(plan[f])
  BY <1>4 DEF InstrOK, Masked, Filling
<1>6. f \in 1 .. Len(plan)
  BY <1>1
<1>7. in.row \in DOMAIN zero[s] /\ (Malicious => in.row \in DOMAIN coeff[s])
  BY <1>1, <1>5, <1>6 DEF MasksOK, FilledOK
<1> QED
  BY <1>1, <1>3, <1>7 DEF MasksOK

\* SendProduct.
LEMMA SendProductTyped ==
  ASSUME RequestsFit, TypeInv, NEW s \in Server, SendProduct(s)
  PROVE  TypedStep(s)
<1> DEFINE n == pc[s]
           in == plan[n]
           x == mem[s][in.x]
           y == mem[s][in.y]
           z == zero[s][in.row]
           own == [k \in Columns |->
                     (LocalProduct(Column(x, k), Column(y, 1)) + IF k = 1 THEN z ELSE 0) % Word]
           old == IF in.dst \in DOMAIN mem[s] THEN mem[s][in.dst][1] ELSE [k \in Columns |-> 0]
           m == <<own>>
<1>1. /\ Base /\ PlanOK /\ DomainsOK /\ RestDomains /\ n \in Nat /\ published[s] \in Nat
      /\ VectorsOK(s) /\ MasksOK(s) /\ MessagesOK(s) /\ SumsOK(s)
  BY TypeFacts
<1>2. Running(s) /\ Instr(s).op \in {"and", "or"}
  BY DEF SendProduct
<1>3. Instr(s) = in /\ in.op \in {"and", "or"} /\ n \in 1 .. Len(plan)
  BY SMTT(40), <1>1, <1>2, InstrFacts
<1>4. /\ operand' = [operand EXCEPT ![s] = x]
      /\ mem' = [mem EXCEPT ![s] = [v \in DOMAIN mem[s] \cup {in.dst} |->
                                      IF v = in.dst THEN <<old, own>> ELSE mem[s][v]]]
      /\ outbox' = [outbox EXCEPT ![s] = Append(@, m)]
      /\ UNCHANGED <<query, plan, pc, zero, coeff, check, answer>>
      /\ Ring!Publish(s)
  BY <1>1, <1>3 DEF SendProduct, masks, DomainsOK
<1>5. x \in Shares /\ y \in Shares /\ z \in Words
  BY <1>3, CombinationTyped
<1>6. own \in Share
  <2> HIDE DEF x, y, z
  <2> QED
    BY <1>5, ProductShare
<1>7. old \in Share
  <2>1. CASE in.dst \in DOMAIN mem[s]
    BY <1>1, <2>1, ShareNumbers DEF VectorsOK
  <2>2. CASE in.dst \notin DOMAIN mem[s]
    <3>1. 0 \in Words
      BY GroupAssumption DEF Words
    <3> QED
      BY <2>2, <3>1 DEF Share
  <2> QED
    BY <2>1, <2>2
<1>8. m[1] = own
  OBVIOUS
<1> HIDE DEF m, own, old, x, y, z
<1>9. Sends(s, m)
  BY <1>2, <1>4, <1>1, PublishSends DEF Exchanges
<1> HIDE DEF in
<1>10. VectorsOK(s)'
  <2>1. mem'[s] = [v \in DOMAIN mem[s] \cup {in.dst} |->
                     IF v = in.dst THEN <<old, own>> ELSE mem[s][v]]
    BY <1>1, <1>4 DEF DomainsOK
  <2>2. <<old, own>> \in Shares
    BY <1>6, <1>7, PairShares
  <2>3. \A v \in DOMAIN mem'[s] : mem'[s][v] \in Shares
    BY <1>1, <2>1, <2>2 DEF VectorsOK
  <2>4. operand'[s] \in Shares
    BY <1>1, <1>4, <1>5 DEF DomainsOK
  <2> QED
    BY <1>4, <2>3, <2>4, VectorsStep
<1>11. MasksOK(s)'
  <2>1. plan[pc'[s]].op # "reshare"
    BY <1>3, <1>4 DEF in
  <2> QED
    BY <1>1, <1>4, <2>1, MasksKept
<1>12. MessagesOK(s)'
  <2>1. MessageOK(plan[pc[s]], m)
    BY <1>3, <1>6, <1>8 DEF MessageOK, in
  <2> QED
    BY <1>1, <1>9, <2>1, MessagesSent
<1>13. SumsOK(s)'
  BY <1>1, <1>4, SumsKept DEF KeepsSums
<1> QED
  BY <1>1, <1>4, <1>10, <1>11, <1>12, <1>13
     DEF TypedStep, TypedAt, RestDomains, KeepsRest, KeepsSums

\* Server s is in the middle of the exchange that it finishes.
LEMMA FinishMid ==
  ASSUME TypeInv, NEW s \in Server, FinishProduct(s)
  PROVE  /\ Mid(s) /\ pc[s] \in 1 .. Len(plan) /\ Instr(s) = plan[pc[s]]
         /\ plan[pc[s]].op \in {"and", "or"} /\ plan[pc[s]].dst \in DOMAIN mem[s]
<1>1. /\ Running(s) /\ Instr(s).op \in {"and", "or"} /\ Ring!Finish(s)
      /\ PaceOK(s) /\ PlanOK /\ pc[s] \in Nat /\ finished[s] \in Nat /\ published[s] \in Nat
  BY TypeFacts DEF FinishProduct
<1>2. finished[s] < published[s]
  BY <1>1 DEF Ring!Finish
<1>3. Mid(s) /\ Instr(s) = plan[pc[s]] /\ pc[s] \in 1 .. Len(plan)
  BY <1>1, <1>2, InstrFacts DEF PaceOK, AtRest
<1>4. RegsOK(s)
  BY DEF TypeInv, BaseInv
<1> QED
  BY <1>1, <1>3, <1>4 DEF RegsOK

\* FinishProduct.
LEMMA FinishProductTyped ==
  ASSUME RequestsFit, TypeInv, NEW s \in Server, FinishProduct(s)
  PROVE  TypedStep(s)
<1> DEFINE n == pc[s]
           in == plan[n]
           product == <<Received(s)[1], mem[s][in.dst][2]>>
<1>1. /\ Base /\ PlanOK /\ DomainsOK /\ RestDomains /\ n \in Nat /\ published[s] \in Nat
      /\ VectorsOK(s) /\ MasksOK(s) /\ MessagesOK(s) /\ SumsOK(s) /\ finished[s] \in Nat
  BY TypeFacts
<1>2. /\ Mid(s) /\ n \in 1 .. Len(plan) /\ Instr(s) = in /\ in.op \in {"and", "or"}
      /\ in.dst \in DOMAIN mem[s]
  BY FinishMid
<1>3. Finishes(s) /\ ProductFinished(s)
  BY <1>1, <1>2, FinishProductDoes
<1>4. /\ query' = query /\ plan' = plan /\ pc'[s] = n + 1
      /\ published'[s] = published[s] /\ finished'[s] = finished[s] + 1
      /\ outbox'[s] = outbox[s] /\ operand'[s] = operand[s] /\ DOMAIN mem'[s] = DOMAIN mem[s]
      /\ zero'[s] = zero[s]
      /\ \A v \in DOMAIN mem[s] :
           mem'[s][v] = IF v = in.dst THEN Completed(in.op, product, operand[s], mem[s][in.y])
                        ELSE mem[s][v]
  BY <1>3 DEF Finishes, Quiet, ProductFinished, KeepsMasks
<1>5. /\ coeff' = coeff /\ answer' = answer
      /\ check' = IF Malicious
                  THEN [check EXCEPT ![s] = [k \in 1 .. 2 |->
                          (check[s][k] + CheckTerm(product, coeff[s][in.row])[k]) % Word]]
                  ELSE check
  BY <1>1, <1>2 DEF FinishProduct, masks, RestDomains
<1>6. /\ mem[s][in.y] \in Shares /\ operand[s] \in Shares
      /\ Malicious => coeff[s][in.row] \in Words \X Words
  BY <1>1, <1>2, CombinationTyped DEF VectorsOK
<1>7. product \in Shares
  <2>1. MessagesOK(Prev(s))
    BY ServerFacts, TypeFacts
  <2>2. Received(s)[1] \in Share
    BY <1>1, <1>2, <1>3, <2>1, ReceivedTyped DEF MessageOK
  <2>3. mem[s][in.dst][2] \in Share
    BY <1>1, <1>2, ShareNumbers DEF VectorsOK
  <2> QED
    BY <2>2, <2>3, PairShares
<1> HIDE DEF product
<1>8. ~Mid(s)'
  BY <1>1, <1>2, <1>4 DEF Mid
<1>9. VectorsOK(s)'
  <2>1. Completed(in.op, product, operand[s], mem[s][in.y]) \in Shares
    BY <1>6, <1>7, CompletedShares
  <2>2. \A v \in DOMAIN mem'[s] : mem'[s][v] \in Shares
    BY <1>1, <1>4, <2>1 DEF VectorsOK
  <2> QED
    BY <1>1, <1>4, <1>8, <2>2, VectorsStep DEF VectorsOK
<1>10. MasksOK(s)'
  <2>1. \A f \in 1 .. Len(plan) :
          LastFill(plan, f, n + 1) => plan[n].op # "reshare" /\ LastFill(plan, f, n)
    BY <1>1, <1>2, LastFillKept
  <2> QED
    BY <1>1, <1>4, <1>5, <1>8, <2>1, MasksKept
<1>11. MessagesOK(s)'
  BY <1>1, <1>4, MessagesKept
<1>12. /\ check'[s] \in Words \X Words /\ DOMAIN check' = Server
       /\ \A t \in Server \ {s} : check'[t] = check[t]
  <2>1. CASE ~Malicious
    BY <1>1, <1>5, <2>1 DEF SumsOK, RestDomains
  <2>2. CASE Malicious
    <3> DEFINE c == coeff[s][in.row]
               f == [k \in 1 .. 2 |-> CheckTerm(product, c)[k]]
               old == check[s]
               new == [k \in 1 .. 2 |-> (old[k] + CheckTerm(product, c)[k]) % Word]
    <3>1. f \in [1 .. 2 -> Int]
      BY <1>6, <1>7, <2>2, CheckTermInt
    <3>2. new = [k \in 1 .. 2 |-> (old[k] + f[k]) % Word]
      OBVIOUS
    <3>3. old \in Words \X Words
      BY <1>1 DEF SumsOK
    <3>4. check' = [check EXCEPT ![s] = new]
      BY <1>5, <2>2
    <3> HIDE DEF f, old, new
    <3>5. new \in Words \X Words
      BY <3>1, <3>2, <3>3, CheckWords
    <3> QED
      BY <1>1, <3>4, <3>5 DEF RestDomains
  <2> QED
    BY <2>1, <2>2
<1>13. SumsOK(s)'
  <2>1. Share' = Share
    BY <1>4, SameTypes
  <2> QED
    BY <1>1, <1>5, <1>12, <2>1 DEF SumsOK, Words
<1> QED
  BY <1>1, <1>5, <1>9, <1>10, <1>11, <1>12, <1>13
     DEF TypedStep, TypedAt, RestDomains, KeepsRest, KeepsSums

\* Respond.
LEMMA RespondTyped ==
  ASSUME RandNumbers, RequestsFit, TypeInv, NEW s \in Server, Respond(s)
  PROVE  TypedStep(s)
<1> DEFINE v == <<ValueShare(s, 0), ValueShare(s, 1)>>
           filter == mem[s][FilterReg(query.kind)]
           agg == [k \in Columns |-> LocalProduct(v, Column(filter, k)) % Word]
           new == [agg |-> agg, check |-> check[s]]
<1>1. /\ Base /\ PlanOK /\ RestDomains /\ pc[s] \in Nat /\ Len(plan) \in Nat
      /\ VectorsOK(s) /\ MasksOK(s) /\ MessagesOK(s) /\ SumsOK(s)
      /\ pc[s] # 0 => WrittenIn(plan, pc[s]) \subseteq DOMAIN mem[s]
  BY TypeFacts
<1>2. /\ pc[s] = Len(plan) + 1 /\ answer' = [answer EXCEPT ![s] = new]
      /\ UNCHANGED <<query, plan, pc, mem, operand, zero, coeff, counter, check, outbox,
                     published, finished, used>>
  BY DEF Respond, masks, ring
<1>3. filter \in Shares
  <2>1. FilterReg(query.kind) \in WrittenIn(plan, Len(plan) + 1)
    BY <1>1, FilterWritten
  <2>2. pc[s] # 0
    BY <1>1, <1>2
  <2> QED
    BY <1>1, <1>2, <2>1, <2>2 DEF VectorsOK
<1>4. v[1] \in Int /\ v[2] \in Int
  BY <1>1, DealtInt
<1> HIDE DEF v, filter
<1>5. agg \in Share
  <2>1. \A k \in Columns : LocalProduct(v, Column(filter, k)) \in Int
    BY <1>3, <1>4, ColumnNumbers, ProductInt
  <2>2. \A k \in Columns : LocalProduct(v, Column(filter, k)) % Word \in Words
    BY <2>1, WordIn
  <2> QED
    BY <2>2 DEF Share
<1> HIDE DEF agg
<1>6. new \in [agg : Share, check : Words \X Words]
  BY <1>1, <1>5 DEF SumsOK
<1> HIDE DEF new
<1>7. Share' = Share /\ Shares' = Shares
  BY <1>2, SameTypes
<1>8. VectorsOK(s)' /\ MessagesOK(s)'
  BY <1>1, <1>2, <1>7, MessagesKept DEF VectorsOK, Mid
<1>9. MasksOK(s)'
  BY <1>1, <1>2 DEF MasksOK, FilledOK, CoeffOK, Mid, Malicious, Words
<1>10. SumsOK(s)'
  <2>1. answer'[s] = new
    BY <1>1, <1>2 DEF RestDomains
  <2> QED
    BY <1>1, <1>2, <1>6, <1>7, <2>1 DEF SumsOK, Words
<1>11. RestDomains' /\ \A t \in Server \ {s} : KeepsRest(t)
  BY <1>1, <1>2 DEF RestDomains, KeepsRest, KeepsSums
<1> QED
  BY <1>8, <1>9, <1>10, <1>11 DEF TypedStep, TypedAt

\* A server that rests, but for its answer.
LEMMA RestTyped ==
  ASSUME NEW t \in Server, TypedAt(t), Rests, KeepsRest(t)
  PROVE  TypedAt(t)'
<1>1. /\ query' = query /\ plan' = plan /\ pc' = pc /\ mem' = mem /\ operand' = operand
      /\ zero' = zero /\ outbox' = outbox /\ published' = published /\ finished' = finished
      /\ coeff'[t] = coeff[t] /\ check'[t] = check[t] /\ answer'[t] = answer[t]
  BY DEF Rests, KeepsRest, KeepsSums
<1>2. Mid(t)' = Mid(t) /\ Malicious' = Malicious /\ Share' = Share /\ Shares' = Shares
  BY <1>1, SameTypes DEF Mid
<1>3. MessagesOK(t)'
  BY <1>1, MessagesKept DEF TypedAt
<1>4. VectorsOK(t)' /\ SumsOK(t)'
  BY <1>1, <1>2 DEF TypedAt, VectorsOK, SumsOK, Words
<1>5. MasksOK(t)'
  BY <1>1, <1>2 DEF TypedAt, MasksOK, FilledOK, CoeffOK, LastFill, Filling, Words
<1> QED
  BY <1>3, <1>4, <1>5 DEF TypedAt

\* What the hypotheses on the inputs are.
InputsOK == PrfWords /\ RandNumbers /\ RequestsFit /\ FourChunks

\* A step of a server.
LEMMA ServerTyped ==
  ASSUME InputsOK, TypeInv, NEW s \in Server, Step(s)
  PROVE  TypeInv'
<1>1. TypedStep(s)
  BY EvaluateTyped, FillZerosTyped, SendReshareTyped, FinishReshareTyped, SendProductTyped,
     FinishProductTyped, RespondTyped DEF Step, InputsOK
<1>2. BaseInv
  BY DEF TypeInv
<1>3. result' = result
  BY ZenonT(60) DEF Step, Evaluate, FillZeros, SendReshare, FinishReshare, SendProduct,
     FinishProduct, Respond
<1>4. Moves(s) \/ Rests
  <2>1. Base
    BY <1>2 DEF BaseInv
  <2>2. CASE Evaluate(s)
    BY <2>1, <2>2, EvaluateDoes DEF Moves
  <2>3. CASE FillZeros(s)
    BY <2>1, <2>3, FillZerosDoes DEF Moves
  <2>4. CASE SendReshare(s)
    BY <2>1, <2>4, SendReshareDoes DEF Moves
  <2>5. CASE FinishReshare(s)
    BY <2>1, <2>5, FinishReshareDoes DEF Moves
  <2>6. CASE SendProduct(s)
    BY <2>1, <2>6, SendProductDoes DEF Moves
  <2>7. CASE FinishProduct(s)
    BY <2>1, <2>7, FinishMid, FinishProductDoes DEF Moves
  <2>8. CASE Respond(s)
    BY <2>8 DEF Respond, Rests, masks, ring
  <2> QED
    BY <2>2, <2>3, <2>4, <2>5, <2>6, <2>7, <2>8 DEF Step
<1>5. BaseInv'
  BY <1>2, <1>4, BaseMoves, BaseRests
<1>6. ASSUME NEW t \in Server \ {s} PROVE TypedAt(t)'
  <2>1. TypedAt(t) /\ KeepsRest(t)
    BY <1>1 DEF TypeInv, TypedStep
  <2> QED
    BY <1>2, <1>4, <2>1, OthersTyped, RestTyped
<1> QED
  BY <1>1, <1>3, <1>5, <1>6 DEF TypeInv, TypedStep, RestDomains

\* The sum that Gather reduces is a number.
LEMMA GatherTyped ==
  ASSUME TypeInv, Gather
  PROVE  result' \in 0 .. Group - 1
<1>1. /\ \A s \in Server : answer[s] # NoResult /\ SumsOK(s)
      /\ result' = SumOf("agg", 1) % Group
  BY TypeFacts DEF Gather
<1>2. ASSUME NEW s \in Server PROVE answer[s].agg[1] \in Int
  <2>1. answer[s] \in [agg : Share, check : Words \X Words]
    BY <1>1 DEF SumsOK
  <2>2. answer[s].agg \in Share
    BY <2>1
  <2> QED
    BY <2>2, ColumnKinds DEF Share
<1> DEFINE a(s) == answer[s].agg[1]
<1>3. a(0) \in Int /\ a(1) \in Int /\ a(2) \in Int
  BY <1>2, ServerFacts
<1>4. SumOf("agg", 1) = (a(0) + a(1) + a(2)) % Word
  BY DEF SumOf
<1> HIDE DEF a
<1>5. SumOf("agg", 1) \in Int
  BY <1>3, <1>4, GroupAssumption
<1> QED
  BY <1>1, <1>5, GroupAssumption

\* The invariant is one.
LEMMA TypeStep ==
  ASSUME InputsOK, TypeInv, [Next]_vars
  PROVE  TypeInv'
<1>1. BaseInv /\ RestDomains /\ \A t \in Server : TypedAt(t)
  BY DEF TypeInv, RestDomains
<1>2. ASSUME Rests, UNCHANGED <<coeff, check, answer>>,
             result' \in (0 .. Group - 1) \cup {NoResult}
      PROVE  TypeInv'
  <2>1. \A t \in Server : TypedAt(t)'
    BY <1>1, <1>2, RestTyped DEF KeepsRest, KeepsSums
  <2> QED
    BY <1>1, <1>2, <2>1, BaseRests DEF TypeInv, RestDomains
<1>3. CASE UNCHANGED vars
  BY <1>2, <1>3 DEF vars, Rests, masks, ring, TypeInv
<1>4. CASE Gather
  <2>1. Rests /\ UNCHANGED <<coeff, check, answer>>
    BY <1>4 DEF Gather, Rests, masks, ring
  <2> QED
    BY <1>2, <1>4, <2>1, GatherTyped
<1>5. CASE \E s \in Server : Step(s)
  BY <1>5, ServerTyped
<1> QED
  BY <1>3, <1>4, <1>5 DEF Next, Returned

\* Everything that the servers store, send and answer has its type, in every
\* state: in particular a combination finds the mask and the coefficients that
\* an earlier Fill drew, and a resharing those that its own send drew
\* (Multiply, RSSReshare, AddToBatchMACCheck).
THEOREM AlwaysTyped ==
  ASSUME PrfWords, RandNumbers, RequestsFit, FourChunks
  PROVE  Spec => []TypeOK
<1>1. Init => TypeInv
  BY TypeInit
<1>2. TypeInv /\ [Next]_vars => TypeInv'
  BY TypeStep DEF InputsOK
<1>3. TypeInv => TypeOK
  BY TypeFromInv
<1> QED
  BY <1>1, <1>2, <1>3, PTL DEF Spec

=============================================================================
