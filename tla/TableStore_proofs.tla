-------------------------- MODULE TableStore_proofs --------------------------
(***************************************************************************)
(* Proofs about TableStore: types, and that lost calls do no more damage   *)
(* than DamageContained admits, for tables and batches of any size, any    *)
(* number of operations and any losses.                                    *)
(***************************************************************************)
EXTENDS TableStoreInv, RecursionFacts, SequenceTheorems, TLAPS

-----------------------------------------------------------------------------
(* Tables, batches and calls.                                              *)

Tables    == [rows : [Row -> RowSet], ptr : Nat]
UpdateSet == [loc : Row \union {APPEND_LOC}, shares : RowSet]

\* The shares of a split are shares that a table can hold.
LEMMA SharesType ==
  ASSUME NEW split \in Splits, NEW s \in Server
  PROVE  Shares(split, s) \in RowSet
BY DEF Shares, RowSet, ShareSet, Server

\* A table is something.
LEMMA TableThere ==
  ASSUME NEW t \in Tables
  PROVE  t # Absent
<1>1. "ptr" \in DOMAIN t
  BY DEF Tables
<1>2. DOMAIN <<>> = {}
  OBVIOUS
<1> QED
  BY <1>1, <1>2, Zenon DEF Absent

\* A new table holds shares of 0 and nothing was appended to it.
LEMMA FreshType ==
  ASSUME NEW s \in Server
  PROVE  Fresh(s) \in Tables /\ Fresh(s).ptr = 0
BY SharesType DEF Fresh, Tables, Splits

\* What an update does to a table: it writes one row, or none behind the end
\* of the table, and an append moves the pointer.
LEMMA UpdateEffect ==
  ASSUME NEW t \in Tables, NEW u \in UpdateSet
  PROVE  /\ Update(t, u) \in Tables
         /\ Update(t, u).ptr = IF u.loc = APPEND_LOC THEN t.ptr + 1 ELSE t.ptr
         /\ \A r \in Row : Update(t, u).rows[r] =
              IF r = Location(t, u.loc) THEN u.shares ELSE t.rows[r]
<1> DEFINE loc == Location(t, u.loc)
           rows == IF InRange(loc) THEN Written(t.rows, loc, u.shares) ELSE t.rows
<1>1. loc \in Nat
  BY DEF Location, Tables, UpdateSet, Row, APPEND_LOC
<1>2. InRange(loc) <=> loc \in Row
  BY <1>1, SizeAssumption DEF InRange, Row
<1>3. /\ t.rows \in [Row -> RowSet] /\ t.ptr \in Nat
      /\ u.shares \in RowSet
  BY DEF Tables, UpdateSet
<1>4. CASE InRange(loc)
  <2>1. rows = [x \in {loc} \union Row |-> IF x = loc THEN u.shares ELSE t.rows[x]]
    BY <1>3, <1>4 DEF Written
  <2>2. {loc} \union Row = Row
    BY <1>2, <1>4
  <2>3. rows = [x \in Row |-> IF x = loc THEN u.shares ELSE t.rows[x]]
    BY <2>1, <2>2
  <2> HIDE DEF rows, loc
  <2>4. /\ rows \in [Row -> RowSet]
        /\ \A r \in Row : rows[r] = IF r = loc THEN u.shares ELSE t.rows[r]
    BY <2>3, <1>3
  <2> QED
    BY <2>4, <1>3 DEF Update, Tables, rows, loc
<1>5. CASE ~ InRange(loc)
  BY <1>2, <1>3, <1>5 DEF Update, Tables
<1> QED
  BY <1>4, <1>5

\* The tables h[0] to h[m] while the updates of a batch are made.
Updates(h, m, t, batch) ==
  /\ h[0] = t /\ h[m] = UpdateAll(t, batch)
  /\ \A i \in 1 .. m : h[i] = Update(h[i - 1], batch[i])

\* A batch is the iteration of its updates.
LEMMA UpdateAllSteps ==
  ASSUME NEW T, NEW t \in T, NEW m \in Nat, NEW batch, DOMAIN batch = 1 .. m,
         \A x \in T, i \in 1 .. m : Update(x, batch[i]) \in T
  PROVE  \E h \in [0 .. m -> T] : Updates(h, m, t, batch)
<1> DEFINE G == [i \in 1 .. m |-> [x \in T |-> Update(x, batch[i])]]
           Step(g) == [s \in SUBSET (1 .. m) |->
                         IF s = {} THEN t ELSE Update(g[s \ {Max(s)}], batch[Max(s)])]
           F == CHOOSE g : g = Step(g)
<1>1. UpdateAll(t, batch) = F[1 .. m]
  BY DEF UpdateAll, FoldLeft, MapThenFoldSet
<1>2. G \in [1 .. m -> [T -> T]]
  OBVIOUS
<1>3. PICK f \in [SUBSET (1 .. m) -> T] : IsFold(f, m, t, G)
  <2> HIDE DEF G
  <2> QED
    BY <1>2, FoldDefined
<1>4. f = Step(f)
  <2>1. ASSUME NEW s \in SUBSET (1 .. m), s # {}
        PROVE  f[s] = Update(f[s \ {Max(s)}], batch[Max(s)])
    <3>1. Max(s) \in 1 .. m
      BY <2>1, MaxFact
    <3>2. f[s \ {Max(s)}] \in T
      OBVIOUS
    <3>3. f[s] = G[Max(s)][f[s \ {Max(s)}]]
      BY <1>3, <2>1 DEF IsFold
    <3> QED
      BY <3>1, <3>2, <3>3
  <2>2. f[{}] = t
    <3>1. {} \in SUBSET (1 .. m)
      OBVIOUS
    <3> QED
      BY <1>3, <3>1 DEF IsFold
  <2>3. \A s \in SUBSET (1 .. m) :
          f[s] = IF s = {} THEN t ELSE Update(f[s \ {Max(s)}], batch[Max(s)])
    BY <2>1, <2>2
  <2> QED
    BY <2>3
<1>5. F = Step(F)
  <2> HIDE DEF Step
  <2> QED
    BY <1>4
<1> DEFINE h == [i \in 0 .. m |-> F[1 .. i]]
<1> HIDE DEF F
<1>6. F[{}] = t
  BY <1>5
<1>7. h[0] = t
  BY <1>6, 1 .. 0 = {}
<1>8. ASSUME NEW i \in 1 .. m
      PROVE  h[i] = Update(h[i - 1], batch[i])
  <2>1. Max(1 .. i) = i /\ (1 .. i) \ {Max(1 .. i)} = 1 .. i - 1
    BY MaxOfSegment
  <2>2. 1 .. i \in SUBSET (1 .. m) /\ 1 .. i # {}
    <3>1. \A x \in 1 .. i : x \in 1 .. m
      OBVIOUS
    <3>2. i \in 1 .. i
      OBVIOUS
    <3> QED
      BY <3>1, <3>2
  <2> DEFINE seg == 1 .. i
  <2>3. F[seg] = Update(F[seg \ {Max(seg)}], batch[Max(seg)])
    <3> HIDE DEF seg
    <3>1. seg \in SUBSET (1 .. m) /\ seg # {}
      BY <2>2 DEF seg
    <3> QED
      BY <1>5, <3>1
  <2>4. h[i] = F[seg]
    OBVIOUS
  <2>5. h[i - 1] = F[1 .. i - 1]
    <3>1. i - 1 \in 0 .. m
      OBVIOUS
    <3> QED
      BY <3>1
  <2> HIDE DEF h
  <2> QED
    BY <2>1, <2>3, <2>4, <2>5
<1>9. 0 .. m \subseteq {i \in 0 .. m : h[i] \in T}
  <2> DEFINE S == {i \in 0 .. m : h[i] \in T}
  <2>1. 0 \in S
    BY <1>7
  <2>2. \A i \in 0 .. m - 1 : i \in S => i + 1 \in S
    <3> SUFFICES ASSUME NEW i \in 0 .. m - 1, i \in S
                 PROVE  i + 1 \in S
      OBVIOUS
    <3>1. i + 1 \in 1 .. m /\ (i + 1) - 1 = i /\ h[i] \in T
      OBVIOUS
    <3> HIDE DEF h
    <3>2. h[i + 1] = Update(h[i], batch[i + 1])
      BY <1>8, <3>1
    <3> QED
      BY <3>1, <3>2
  <2> HIDE DEF S
  <2>3. 0 .. m \subseteq S
    BY <2>1, <2>2, BoundedInduction
  <2> QED
    BY <2>3 DEF S
<1>10. h \in [0 .. m -> T]
  BY <1>9
<1>11. h[m] = UpdateAll(t, batch)
  BY <1>1
<1> QED
  BY <1>7, <1>8, <1>10, <1>11 DEF Updates

\* A batch of one update.
LEMMA UpdateOne ==
  ASSUME NEW t \in Tables, NEW u \in UpdateSet
  PROVE  UpdateAll(t, <<u>>) = Update(t, u)
<1> DEFINE batch == <<u>>
<1>1. DOMAIN batch = 1 .. 1 /\ batch[1] = u
  OBVIOUS
<1>2. \A x \in Tables, i \in 1 .. 1 : Update(x, batch[i]) \in Tables
  BY <1>1, UpdateEffect
<1> HIDE DEF batch
<1>3. PICK h \in [0 .. 1 -> Tables] : Updates(h, 1, t, batch)
  BY <1>1, <1>2, UpdateAllSteps
<1>4. h[1] = Update(h[0], batch[1])
  BY <1>3 DEF Updates
<1> QED
  BY <1>1, <1>3, <1>4 DEF batch, Updates

\* The batch of a load writes its rows and nothing else.
LEMMA UpdateRows ==
  ASSUME NEW t \in Tables, NEW s \in Server, NEW n \in 1 .. MaxOps,
         NEW f \in Nat, NEW m \in Nat, f + m <= Window
  PROVE  LET batch == [k \in 1 .. m |->
                         LET r == f + k - 1 IN UpdateOf(<<n, r>>, r, s)]
             new   == UpdateAll(t, batch)
         IN  /\ new \in Tables
             /\ new.ptr = t.ptr
             /\ \A r \in Row : new.rows[r] =
                  IF f <= r /\ r < f + m THEN Shares(<<n, r>>, s) ELSE t.rows[r]
<1> DEFINE batch == [k \in 1 .. m |-> LET r == f + k - 1 IN UpdateOf(<<n, r>>, r, s)]
<1>1. ASSUME NEW k \in 1 .. m
      PROVE  /\ batch[k] \in UpdateSet
             /\ batch[k].loc = f + k - 1 /\ batch[k].loc \in Row
             /\ batch[k].shares = Shares(<<n, f + k - 1>>, s)
  <2>1. f + k - 1 \in Row
    BY SizeAssumption DEF Row
  <2>2. <<n, f + k - 1>> \in Splits
    BY <2>1 DEF Splits
  <2>3. batch[k] = [loc |-> f + k - 1, shares |-> Shares(<<n, f + k - 1>>, s)]
    BY DEF UpdateOf
  <2> QED
    BY <2>1, <2>2, <2>3, SharesType DEF UpdateSet
<1>2. DOMAIN batch = 1 .. m
  OBVIOUS
<1> HIDE DEF batch
<1>3. \A x \in Tables, i \in 1 .. m : Update(x, batch[i]) \in Tables
  BY <1>1, UpdateEffect
<1>4. PICK h \in [0 .. m -> Tables] : Updates(h, m, t, batch)
  BY <1>2, <1>3, UpdateAllSteps
<1> DEFINE Done == {i \in 0 .. m :
             /\ h[i].ptr = t.ptr
             /\ \A r \in Row : h[i].rows[r] =
                  IF f <= r /\ r < f + i THEN Shares(<<n, r>>, s) ELSE t.rows[r]}
<1>5. 0 \in Done
  BY <1>4, SizeAssumption DEF Row, Updates
<1>6. ASSUME NEW i \in 0 .. m - 1, i \in Done
      PROVE  i + 1 \in Done
  <2>1. i + 1 \in 1 .. m /\ (i + 1) - 1 = i /\ h[i] \in Tables
    OBVIOUS
  <2>2. h[i + 1] = Update(h[i], batch[i + 1])
    BY <1>4, <2>1 DEF Updates
  <2>3. /\ batch[i + 1] \in UpdateSet
        /\ batch[i + 1].loc = f + i /\ f + i \in Row
        /\ batch[i + 1].shares = Shares(<<n, f + i>>, s)
    BY <1>1, <2>1
  <2>4. Location(h[i], batch[i + 1].loc) = f + i /\ f + i # APPEND_LOC
    BY <2>3 DEF Location, Row, APPEND_LOC
  <2>5. /\ h[i + 1].ptr = h[i].ptr
        /\ \A r \in Row : h[i + 1].rows[r] =
             IF r = f + i THEN Shares(<<n, f + i>>, s) ELSE h[i].rows[r]
    BY <2>1, <2>2, <2>3, <2>4, UpdateEffect
  <2>6. ASSUME NEW r \in Row
        PROVE  h[i + 1].rows[r] =
                 IF f <= r /\ r < f + (i + 1) THEN Shares(<<n, r>>, s) ELSE t.rows[r]
    <3>1. r \in Int
      BY SizeAssumption DEF Row
    <3>2. CASE r = f + i
      BY SMTT(30), <3>2, <2>5
    <3>3. CASE r # f + i
      BY <3>1, <3>3, <2>5, <1>6
    <3> QED
      BY <3>2, <3>3
  <2> QED
    BY <2>1, <2>5, <2>6, <1>6
<1> HIDE DEF Done
<1>7. m \in Done
  <2>1. 0 .. m \subseteq Done
    BY <1>5, <1>6, BoundedInduction
  <2> QED
    BY <2>1
<1>8. h[m] \in Tables
  BY <1>4
<1> QED
  BY <1>4, <1>7, <1>8 DEF Done, batch, Updates

\* A sequence that is a function of its positions, and what is left of it
\* when its first element is gone.
LEMMA TailOf ==
  ASSUME NEW n \in Nat \ {0}, NEW c, c = [i \in 1 .. n |-> c[i]]
  PROVE  /\ c # <<>>
         /\ Head(c) = c[1]
         /\ Tail(c) = [i \in 1 .. n - 1 |-> c[i + 1]]
<1> DEFINE S == {c[i] : i \in 1 .. n}
<1>1. c \in Seq(S) /\ Len(c) = n
  OBVIOUS
<1>2. c # <<>>
  BY <1>1
<1> QED
  BY <1>1, <1>2, HeadTailProperties

-----------------------------------------------------------------------------
(* The calls of a load.                                                    *)

\* Division with a remainder.
LEMMA Quotient ==
  ASSUME NEW a \in Nat, NEW c \in Nat \ {0}
  PROVE  /\ a \div c \in Nat
         /\ (a \div c) * c <= a
         /\ a < (a \div c + 1) * c
OBVIOUS

\* The factor of a smaller product is smaller.
LEMMA SmallerFactor ==
  ASSUME NEW a \in Int, NEW b \in Int, NEW c \in Nat \ {0}, a * c < b * c
  PROVE  a < b
OBVIOUS

\* A product with a factor that is not larger is not larger.
LEMMA LargerProduct ==
  ASSUME NEW a \in Int, NEW b \in Int, NEW c \in Nat \ {0}, a <= b
  PROVE  a * c <= b * c
OBVIOUS

\* The batches cover the rows, and only those of AddValList one batch more
\* than needed.
LEMMA BatchesFact ==
  /\ Batches \in Nat \ {0}
  /\ Window <= Batches * Chunk
  /\ kind # "val" => (Batches - 1) * Chunk < Window
<1>1. CASE kind = "val"
  <2>1. Batches = Window \div Chunk + 1
    BY <1>1 DEF Batches
  <2>2. /\ Window \div Chunk \in Nat
        /\ Window < (Window \div Chunk + 1) * Chunk
    BY SizeAssumption, Quotient
  <2> QED
    BY <1>1, <2>1, <2>2, SizeAssumption
<1>2. CASE kind # "val"
  <2> DEFINE a == Window + Chunk - 1
             q == a \div Chunk
  <2>1. Batches = q
    BY <1>2 DEF Batches
  <2>2. a \in Nat
    BY SizeAssumption
  <2> HIDE DEF a
  <2>3. q \in Nat /\ q * Chunk <= a /\ a < (q + 1) * Chunk
    BY <2>2, SizeAssumption, Quotient
  <2> HIDE DEF q
  <2>4. /\ (q + 1) * Chunk = q * Chunk + Chunk
        /\ (q - 1) * Chunk = q * Chunk - Chunk
        /\ q * Chunk \in Int
    BY <2>3, SizeAssumption
  <2>5. (q - 1) * Chunk < Window /\ Window <= q * Chunk
    BY <2>3, <2>4, SizeAssumption DEF a
  <2>6. q # 0
    BY <2>5, SizeAssumption
  <2> QED
    BY <2>1, <2>3, <2>5, <2>6
<1> QED
  BY <1>1, <1>2

\* The rows that a batch carries are rows.
LEMMA CarriedFact ==
  ASSUME NEW b \in 1 .. Batches
  PROVE  /\ CarriedFrom(b) \in Nat /\ CarriedTo(b) \in Nat
         /\ CarriedFrom(b) <= CarriedTo(b) /\ CarriedTo(b) <= Window
<1>1. Batches \in Nat /\ b \in Nat \ {0}
  BY BatchesFact
<1>2. /\ b * Chunk \in Nat /\ (b - 1) * Chunk \in Nat
      /\ (b - 1) * Chunk <= b * Chunk
  BY <1>1, SizeAssumption
<1>3. CASE kind = "val"
  BY <1>2, <1>3, SizeAssumption DEF CarriedFrom, CarriedTo
<1>4. CASE kind # "val"
  <2>1. (b - 1) * Chunk <= (Batches - 1) * Chunk
    BY <1>1, SizeAssumption, LargerProduct, b - 1 <= Batches - 1
  <2>2. (b - 1) * Chunk <= Window
    BY <1>1, <1>4, <2>1, BatchesFact, SizeAssumption, (Batches - 1) * Chunk \in Int
  <2> QED
    BY <1>2, <1>4, <2>2, SizeAssumption DEF CarriedFrom, CarriedTo
<1> QED
  BY <1>3, <1>4

\* Every row is in a batch, and the last batch of a value list has all rows.
LEMMA RowCarried ==
  ASSUME NEW r \in Row
  PROVE  /\ \E b \in 1 .. Batches : CarriedFrom(b) <= r /\ r < CarriedTo(b)
         /\ kind = "val" => CarriedFrom(Batches) <= r /\ r < CarriedTo(Batches)
<1>1. r \in Nat /\ r < Window
  BY SizeAssumption DEF Row
<1>2. ASSUME kind = "val"
      PROVE  CarriedFrom(Batches) <= r /\ r < CarriedTo(Batches)
  BY <1>1, <1>2, BatchesFact, SizeAssumption DEF CarriedFrom, CarriedTo
<1>3. CASE kind = "val"
  BY <1>2, <1>3, BatchesFact
<1>4. CASE kind # "val"
  <2> DEFINE q == r \div Chunk
  <2>1. q \in Nat /\ q * Chunk <= r /\ r < (q + 1) * Chunk
    BY <1>1, SizeAssumption, Quotient
  <2> HIDE DEF q
  <2>2. q * Chunk < Batches * Chunk
    BY <1>1, <2>1, BatchesFact, SizeAssumption,
       q * Chunk \in Int, Batches * Chunk \in Int
  <2>3. q < Batches
    BY <2>1, <2>2, BatchesFact, SizeAssumption, SmallerFactor
  <2>4. q + 1 \in 1 .. Batches /\ (q + 1) - 1 = q
    BY <2>1, <2>3, BatchesFact
  <2>5. CarriedFrom(q + 1) <= r /\ r < CarriedTo(q + 1)
    BY <1>1, <1>4, <2>1, <2>4 DEF CarriedFrom, CarriedTo
  <2> QED
    BY <1>4, <2>4, <2>5
<1> QED
  BY <1>2, <1>3, <1>4

\* The call that comes after d calls of a load: its receiver and its phase.
LEMMA LoadCallFact ==
  ASSUME NEW d \in 0 .. LoadLength - 1
  PROVE  /\ d % 3 \in Server /\ d \div 3 \in 0 .. Batches
         /\ d = 3 * (d \div 3) + (d % 3)
         /\ LoadCall(ops, d + 1).to = d % 3
         /\ LoadCall(ops, d + 1).phase = d \div 3
<1>1. Batches \in Nat /\ d \in Nat /\ d < 3 * (Batches + 1) /\ (d + 1) - 1 = d
  BY BatchesFact DEF LoadLength
<1>2. /\ d % 3 \in 0 .. 2 /\ d \div 3 \in Nat
      /\ d = 3 * (d \div 3) + (d % 3)
  BY <1>1
<1>3. d \div 3 <= Batches
  BY <1>1
<1>4. /\ LoadCall(ops, d + 1).to = d % 3
      /\ LoadCall(ops, d + 1).phase = d \div 3
  BY <1>1 DEF LoadCall
<1> QED
  BY <1>1, <1>2, <1>3, <1>4 DEF Server

\* The batch of such a call.
LEMMA LoadBatchFact ==
  ASSUME NEW d \in 0 .. LoadLength - 1, NEW b \in 1 .. Batches, d \div 3 = b
  PROVE  LoadCall(ops, d + 1).batch =
           [k \in 1 .. CarriedTo(b) - CarriedFrom(b) |->
              LET r == CarriedFrom(b) + k - 1 IN UpdateOf(<<ops, r>>, r, d % 3)]
<1>1. Batches \in Nat /\ d \in Nat /\ (d + 1) - 1 = d /\ b # 0
  BY BatchesFact DEF LoadLength
<1> QED
  BY <1>1 DEF LoadCall

\* What the client still has to do in a load.
LEMMA InLoadFact ==
  ASSUME NEW d \in 0 .. LoadLength - 1, InLoad(d)
  PROVE  /\ DOMAIN calls = 1 .. LoadLength - d
         /\ \A i \in DOMAIN calls : calls[i] = LoadCall(ops, d + i)
         /\ LoadLength - d \in Nat \ {0}
         /\ calls = [i \in 1 .. LoadLength - d |-> calls[i]]
         /\ ~ Idle
         /\ Called = LoadCall(ops, d + 1)
<1>1. LoadLength \in Nat /\ d \in Nat /\ LoadLength - d \in Nat \ {0}
  BY BatchesFact DEF LoadLength
<1>2. /\ DOMAIN calls = 1 .. LoadLength - d
      /\ \A i \in DOMAIN calls : calls[i] = LoadCall(ops, d + i)
      /\ calls = [i \in 1 .. LoadLength - d |-> calls[i]]
  BY DEF InLoad, LoadRest
<1>3. ~ Idle /\ Called = calls[1]
  BY <1>1, <1>2, TailOf DEF Idle, Called
<1>4. 1 \in DOMAIN calls
  BY <1>1, <1>2
<1> QED
  BY <1>1, <1>2, <1>3, <1>4

\* What the client still has to do in an update.
LEMMA InRunFact ==
  ASSUME NEW d \in 0 .. 2, NEW loc, InRun(loc, d)
  PROVE  /\ DOMAIN calls = 1 .. 3 - d
         /\ \A i \in DOMAIN calls :
              calls[i] = [to |-> d + i - 1, phase |-> -1,
                          batch |-> <<UpdateOf(<<ops, 0>>, loc, d + i - 1)>>]
         /\ calls = [i \in 1 .. 3 - d |-> calls[i]]
         /\ ~ Idle
         /\ Called = [to |-> d, phase |-> -1, batch |-> <<UpdateOf(<<ops, 0>>, loc, d)>>]
<1>1. /\ DOMAIN calls = 1 .. 3 - d
      /\ \A i \in DOMAIN calls : calls[i] = RunCalls(ops, loc)[d + i]
      /\ calls = [i \in 1 .. 3 - d |-> calls[i]]
  BY DEF InRun, RunRest
<1>2. \A i \in DOMAIN calls : d + i \in 1 .. 3
  BY <1>1
<1>3. \A i \in DOMAIN calls :
        calls[i] = [to |-> d + i - 1, phase |-> -1,
                    batch |-> <<UpdateOf(<<ops, 0>>, loc, d + i - 1)>>]
  <2>1. \A j \in 1 .. 3 : RunCalls(ops, loc)[j] =
          [to |-> j - 1, phase |-> -1, batch |-> <<UpdateOf(<<ops, 0>>, loc, j - 1)>>]
    BY DEF RunCalls
  <2> QED
    BY <1>1, <1>2, <2>1
<1>4. ~ Idle /\ Called = calls[1]
  BY <1>1, TailOf, 3 - d \in Nat \ {0} DEF Idle, Called
<1>5. 1 \in DOMAIN calls /\ d + 1 - 1 = d
  BY <1>1
<1> QED
  BY <1>1, <1>3, <1>4, <1>5

\* Unless the client is idle, it is in a load or in an update.
LEMMA Busy ==
  ASSUME CallsOK, ~ Idle
  PROVE  /\ ops > 0
         /\ \/ \E d \in 0 .. LoadLength - 1 : InLoad(d)
            \/ \E d \in 0 .. 2, loc \in Row \union {APPEND_LOC} : InRun(loc, d)
BY DEF CallsOK

\* The calls are a sequence.
LEMMA CallsSequence ==
  ASSUME CallsOK, ~ Idle
  PROVE  \E n \in Nat \ {0} : calls = [i \in 1 .. n |-> calls[i]]
<1>1. CASE \E d \in 0 .. LoadLength - 1 : InLoad(d)
  BY <1>1, InLoadFact
<1>2. CASE \E d \in 0 .. 2, loc \in Row \union {APPEND_LOC} : InRun(loc, d)
  <2>1. \A d \in 0 .. 2 : 3 - d \in Nat \ {0}
    OBVIOUS
  <2> QED
    BY <1>2, <2>1, InRunFact
<1> QED
  BY <1>1, <1>2, Busy

\* What is due after the first call is gone, whatever became of it.
LEMMA DueAfter ==
  ASSUME CallsOK, ~ Idle, calls' = Tail(calls), NEW s, NEW loc
  PROVE  /\ CreateDue(s)' => CreateDue(s)
         /\ CreateDue(s) => CreateDue(s)' \/ (Called.to = s /\ Called.phase = 0)
         /\ WriteDue(s, loc)' => WriteDue(s, loc)
         /\ WriteDue(s, loc) =>
              \/ WriteDue(s, loc)'
              \/ /\ Called.to = s /\ Called.phase # 0
                 /\ \E k \in DOMAIN Called.batch : Called.batch[k].loc = loc
<1>1. PICK n \in Nat \ {0} : calls = [i \in 1 .. n |-> calls[i]]
  BY CallsSequence
<1>2. Called = calls[1] /\ calls' = [i \in 1 .. n - 1 |-> calls[i + 1]]
  BY <1>1, TailOf DEF Called
<1>3. DOMAIN calls = 1 .. n /\ DOMAIN calls' = 1 .. n - 1
  BY <1>1, <1>2
<1>4. /\ \A i \in DOMAIN calls' : i + 1 \in DOMAIN calls /\ calls'[i] = calls[i + 1]
      /\ \A i \in DOMAIN calls :
           i = 1 \/ (i - 1 \in DOMAIN calls' /\ calls'[i - 1] = calls[i])
  BY <1>2, <1>3
<1> HIDE DEF Called
<1>5. CreateDue(s)' => CreateDue(s)
  BY <1>4 DEF CreateDue
<1>6. WriteDue(s, loc)' => WriteDue(s, loc)
  BY <1>4 DEF WriteDue
<1>7. ASSUME CreateDue(s), ~ CreateDue(s)'
      PROVE  Called.to = s /\ Called.phase = 0
  <2>1. PICK i \in DOMAIN calls : calls[i].to = s /\ calls[i].phase = 0
    BY <1>7 DEF CreateDue
  <2>2. i = 1
    BY <1>4, <1>7, <2>1 DEF CreateDue
  <2> QED
    BY <1>2, <2>1, <2>2
<1>8. ASSUME WriteDue(s, loc), ~ WriteDue(s, loc)'
      PROVE  /\ Called.to = s /\ Called.phase # 0
             /\ \E k \in DOMAIN Called.batch : Called.batch[k].loc = loc
  <2>1. PICK i \in DOMAIN calls :
          /\ calls[i].to = s /\ calls[i].phase # 0
          /\ \E k \in DOMAIN calls[i].batch : calls[i].batch[k].loc = loc
    BY <1>8 DEF WriteDue
  <2>2. i = 1
    <3>1. CASE i - 1 \in DOMAIN calls' /\ calls'[i - 1] = calls[i]
      <4> DEFINE j == i - 1
      <4>1. j \in DOMAIN calls' /\ calls'[j] = calls[i]
        BY <3>1
      <4> HIDE DEF j
      <4>2. WriteDue(s, loc)'
        BY <4>1, <2>1 DEF WriteDue
      <4> QED
        BY <4>2, <1>8
    <3> QED
      BY <1>4, <3>1
  <2> QED
    BY <1>2, <2>1, <2>2
<1> QED
  BY <1>5, <1>6, <1>7, <1>8

\* A load appends nothing.
LEMMA NoAppendInLoad ==
  ASSUME NEW d \in 0 .. LoadLength - 1, InLoad(d), NEW s
  PROVE  ~ WriteDue(s, APPEND_LOC)
<1> SUFFICES ASSUME NEW i \in DOMAIN calls, calls[i].phase # 0,
                    NEW k \in DOMAIN calls[i].batch, calls[i].batch[k].loc = APPEND_LOC
             PROVE  FALSE
  BY DEF WriteDue
<1> DEFINE e == d + i - 1
           b == e \div 3
<1>1. LoadLength \in Nat
  BY BatchesFact DEF LoadLength
<1>2. e \in 0 .. LoadLength - 1 /\ e + 1 = d + i
  BY <1>1, InLoadFact
<1>3. calls[i] = LoadCall(ops, e + 1)
  BY <1>2, InLoadFact
<1> HIDE DEF e
<1>4. b \in 1 .. Batches
  BY <1>2, <1>3, LoadCallFact, BatchesFact
<1> HIDE DEF b
<1>5. calls[i].batch =
        [j \in 1 .. CarriedTo(b) - CarriedFrom(b) |->
           LET r == CarriedFrom(b) + j - 1 IN UpdateOf(<<ops, r>>, r, e % 3)]
  BY <1>2, <1>3, <1>4, LoadBatchFact DEF b
<1>6. /\ CarriedFrom(b) \in Nat /\ CarriedTo(b) \in Nat
  BY <1>4, CarriedFact
<1>7. /\ k \in 1 .. CarriedTo(b) - CarriedFrom(b)
      /\ calls[i].batch[k].loc = CarriedFrom(b) + k - 1
  BY <1>5, <1>6 DEF UpdateOf
<1> QED
  BY <1>6, <1>7 DEF APPEND_LOC

\* The calls of a load that are not made yet, found by phase and receiver.
LEMMA DueInLoad ==
  ASSUME NEW d \in 0 .. LoadLength - 1, InLoad(d),
         NEW b \in 1 .. Batches, NEW s \in Server, d <= 3 * b + s,
         NEW r \in Row, CarriedFrom(b) <= r, r < CarriedTo(b)
  PROVE  LET i == 3 * b + s + 1 - d
         IN  /\ i \in DOMAIN calls
             /\ calls[i].to = s /\ calls[i].phase # 0
             /\ \E k \in DOMAIN calls[i].batch : calls[i].batch[k].loc = r
<1> DEFINE e == 3 * b + s
           i == e + 1 - d
<1>1. /\ LoadLength = 3 * (Batches + 1) /\ Batches \in Nat
      /\ b \in Nat \ {0} /\ s \in 0 .. 2 /\ r \in Nat
  BY BatchesFact, SizeAssumption DEF LoadLength, Server, Row
<1>2. e \in 0 .. LoadLength - 1
  BY <1>1
<1>3. e \div 3 = b /\ e % 3 = s
  BY <1>1
<1>4. i \in 1 .. LoadLength - d /\ d + i = e + 1
  BY <1>1, <1>2
<1> HIDE DEF e, i
<1>5. i \in DOMAIN calls /\ calls[i] = LoadCall(ops, e + 1)
  BY <1>4, InLoadFact
<1>6. calls[i].to = s /\ calls[i].phase = b
  BY <1>2, <1>3, <1>5, LoadCallFact
<1>7. calls[i].batch =
        [j \in 1 .. CarriedTo(b) - CarriedFrom(b) |->
           LET q == CarriedFrom(b) + j - 1 IN UpdateOf(<<ops, q>>, q, s)]
  BY <1>2, <1>3, <1>5, LoadBatchFact
<1>8. /\ CarriedFrom(b) \in Nat /\ CarriedTo(b) \in Nat
  BY CarriedFact
<1> DEFINE k == r - CarriedFrom(b) + 1
<1>9. k \in 1 .. CarriedTo(b) - CarriedFrom(b) /\ CarriedFrom(b) + k - 1 = r
  BY <1>1, <1>8
<1> HIDE DEF k
<1>10. k \in DOMAIN calls[i].batch /\ calls[i].batch[k].loc = r
  BY <1>7, <1>9 DEF UpdateOf
<1> QED
  BY <1>1, <1>5, <1>6, <1>10 DEF e, i

\* Before its batches, a server is due every row.
LEMMA RowsDue ==
  ASSUME NEW d \in 0 .. LoadLength - 1, InLoad(d), d <= 2,
         NEW s \in Server, NEW r \in Row
  PROVE  WriteDue(s, r)
<1>1. PICK b \in 1 .. Batches : CarriedFrom(b) <= r /\ r < CarriedTo(b)
  BY RowCarried
<1>2. d <= 3 * b + s
  BY BatchesFact DEF Server
<1> QED
  BY <1>1, <1>2, DueInLoad DEF WriteDue

\* Before the last phase of the load of a value list, every server is due
\* every row in a call that is not the next one.
LEMMA RowsDueAgain ==
  ASSUME NEW d \in 0 .. LoadLength - 1, InLoad(d), CallsOK, kind = "val",
         d \div 3 < Batches, calls' = Tail(calls), NEW s \in Server, NEW r \in Row
  PROVE  WriteDue(s, r)'
<1>1. PICK n \in Nat \ {0} : calls = [i \in 1 .. n |-> calls[i]]
  BY CallsSequence, InLoadFact
<1>2. /\ DOMAIN calls = 1 .. n
      /\ calls' = [i \in 1 .. n - 1 |-> calls[i + 1]]
  BY <1>1, TailOf
<1> DEFINE i == 3 * Batches + s + 1 - d
<1>3. /\ Batches \in Nat \ {0} /\ d \in Nat /\ s \in 0 .. 2
  BY BatchesFact DEF Server, LoadLength
<1>4. d < 3 * Batches
  BY <1>3
<1>5. d <= 3 * Batches + s /\ i - 1 \in Nat \ {0} /\ i \in Nat
  BY <1>3, <1>4
<1>6. /\ i \in DOMAIN calls
      /\ calls[i].to = s /\ calls[i].phase # 0
      /\ \E k \in DOMAIN calls[i].batch : calls[i].batch[k].loc = r
  <2>1. CarriedFrom(Batches) <= r /\ r < CarriedTo(Batches)
    BY RowCarried
  <2> QED
    BY <1>3, <1>5, <2>1, DueInLoad, Batches \in 1 .. Batches
<1> DEFINE j == i - 1
<1>7. j \in DOMAIN calls' /\ calls'[j] = calls[i]
  <2> HIDE DEF i
  <2>1. i \in 1 .. n /\ j \in 1 .. n - 1 /\ j + 1 = i
    BY <1>2, <1>5, <1>6
  <2> QED
    BY <1>2, <2>1
<1> HIDE DEF i, j
<1> QED
  BY <1>6, <1>7 DEF WriteDue

\* The calls that are left after a call are the end of the same operation.
LEMMA CallsAdvance ==
  ASSUME TypeOK, CallsOK, ~ Idle, Replied
  PROVE  CallsOK'
<1>1. /\ ops > 0 /\ ops' = ops /\ kind' = kind /\ want' = want
      /\ calls' = Tail(calls)
  BY Busy DEF Replied
<1>2. LoadLength' = LoadLength /\ LoadLength \in Nat
  BY <1>1, BatchesFact DEF LoadLength, Batches
<1>3. CASE \E d \in 0 .. LoadLength - 1 : InLoad(d)
  <2>1. PICK d \in 0 .. LoadLength - 1 : InLoad(d)
    BY <1>3
  <2> DEFINE n == LoadLength - d
  <2>2. /\ n \in Nat \ {0} /\ DOMAIN calls = 1 .. n
        /\ calls = [i \in 1 .. n |-> calls[i]]
        /\ \A i \in 1 .. n : calls[i] = LoadCall(ops, d + i)
    BY <2>1, InLoadFact
  <2> HIDE DEF n
  <2>3. calls' = [i \in 1 .. n - 1 |-> calls[i + 1]]
    BY <1>1, <2>2, TailOf
  <2>4. CASE n = 1
    <3>1. calls' = <<>>
      BY <2>3, <2>4
    <3> QED
      BY <3>1 DEF CallsOK, Idle
  <2>5. CASE n # 1
    <3> DEFINE e == d + 1
    <3>1. e \in 0 .. LoadLength - 1 /\ LoadLength - e = n - 1
      BY <1>2, <2>2, <2>5 DEF n
    <3>2. \A i \in 1 .. n - 1 : calls[i + 1] = LoadCall(ops, e + i)
      <4> SUFFICES ASSUME NEW i \in 1 .. n - 1
                   PROVE  calls[i + 1] = LoadCall(ops, e + i)
        OBVIOUS
      <4>1. i + 1 \in 1 .. n /\ d + (i + 1) = e + i
        BY <2>2
      <4> QED
        BY <2>2, <4>1
    <3>3. calls' = [i \in 1 .. LoadLength - e |-> LoadCall(ops, e + i)]
      BY <2>3, <3>1, <3>2
    <3>4. \A j : LoadCall(ops, j)' = LoadCall(ops, j)
      BY <1>1 DEF LoadCall, CarriedFrom, CarriedTo
    <3> HIDE DEF e
    <3>5. calls' = LoadRest(e)'
      BY <1>2, <3>3, <3>4 DEF LoadRest
    <3>6. InLoad(e)'
      BY <1>1, <2>1, <3>5 DEF InLoad
    <3> QED
      BY <1>1, <1>2, <3>1, <3>6 DEF CallsOK
  <2> QED
    BY <2>4, <2>5
<1>4. CASE \E d \in 0 .. 2, loc \in Row \union {APPEND_LOC} : InRun(loc, d)
  <2>1. PICK d \in 0 .. 2, loc \in Row \union {APPEND_LOC} : InRun(loc, d)
    BY <1>4
  <2>2. /\ DOMAIN calls = 1 .. 3 - d
        /\ calls = [i \in 1 .. 3 - d |-> calls[i]]
        /\ \A i \in 1 .. 3 - d : calls[i] = RunCalls(ops, loc)[d + i]
    BY <2>1 DEF InRun, RunRest
  <2>3. calls' = [i \in 1 .. (3 - d) - 1 |-> calls[i + 1]]
    BY <1>1, <2>2, TailOf, 3 - d \in Nat \ {0}
  <2>4. CASE d = 2
    <3>1. calls' = <<>>
      BY <2>3, <2>4
    <3> QED
      BY <3>1 DEF CallsOK, Idle
  <2>5. CASE d # 2
    <3> DEFINE e == d + 1
    <3>1. e \in 0 .. 2 /\ 3 - e = (3 - d) - 1
      BY <2>5
    <3>2. \A i \in 1 .. 3 - e : calls[i + 1] = RunCalls(ops, loc)[e + i]
      <4> SUFFICES ASSUME NEW i \in 1 .. 3 - e
                   PROVE  calls[i + 1] = RunCalls(ops, loc)[e + i]
        OBVIOUS
      <4>1. i + 1 \in 1 .. 3 - d /\ d + (i + 1) = e + i
        OBVIOUS
      <4> QED
        BY <2>2, <4>1
    <3>3. calls' = [i \in 1 .. 3 - e |-> RunCalls(ops, loc)[e + i]]
      BY <2>3, <3>1, <3>2
    <3> HIDE DEF e
    <3>4. calls' = RunRest(loc, e)'
      BY <1>1, <3>3 DEF RunRest, RunCalls
    <3>5. InRun(loc, e)'
      BY <1>1, <2>1, <3>4 DEF InRun
    <3> QED
      BY <1>1, <3>1, <3>5 DEF CallsOK
  <2> QED
    BY <2>4, <2>5
<1> QED
  BY <1>3, <1>4, Busy

-----------------------------------------------------------------------------
(* The steps.                                                              *)

\* What the type invariant says of one table.
LEMMA TableType ==
  ASSUME TypeOK, NEW s \in Server, table[s] # Absent
  PROVE  table[s] \in Tables /\ table[s].ptr \in 0 .. MaxOps
BY SizeAssumption DEF TypeOK, Tables

\* A batch at a server: it writes the shares of what the client wants, if the
\* write pointers agree, and moves the pointer by the appends that were due.
LEMMA StoreEffect ==
  ASSUME TypeOK, CallsOK, ~ Idle, Replied, Called.phase # 0,
         NEW t \in Tables, NEW s, s = Called.to
  PROVE  LET new == UpdateAll(t, Called.batch)
         IN  /\ s \in Server
             /\ new \in Tables
             /\ new.ptr = t.ptr + AppendsDue(s) - AppendsDue(s)'
             /\ t.ptr = want.ptr - AppendsDue(s) =>
                  \A r \in Row :
                    \/ new.rows[r] = Shares(want.rows[r], s)
                    \/ /\ new.rows[r] = t.rows[r]
                       /\ WriteDue(s, r) => WriteDue(s, r)'
                       /\ ~ (WriteDue(s, APPEND_LOC) /\ r = want.ptr - 1)
<1> DEFINE new == UpdateAll(t, Called.batch)
<1>1. /\ calls' = Tail(calls) /\ ops \in 1 .. MaxOps
      /\ want.ptr \in Nat
  BY Busy, SizeAssumption DEF Replied, TypeOK
<1>2. CASE \E d \in 0 .. LoadLength - 1 : InLoad(d)
  <2>1. PICK d \in 0 .. LoadLength - 1 : InLoad(d)
    BY <1>2
  <2> DEFINE b == d \div 3
             f == CarriedFrom(b)
             m == CarriedTo(b) - CarriedFrom(b)
  <2>2. /\ Called = LoadCall(ops, d + 1)
        /\ s = d % 3 /\ s \in Server /\ b \in 1 .. Batches
    <3>1. Called = LoadCall(ops, d + 1)
      BY <2>1, InLoadFact
    <3>2. /\ d % 3 \in Server /\ b \in 0 .. Batches
          /\ Called.to = d % 3 /\ Called.phase = b
      BY <3>1, LoadCallFact
    <3> HIDE DEF b
    <3>3. b # 0
      BY <3>2
    <3> QED
      BY <3>1, <3>2, <3>3, BatchesFact
  <2>3. f \in Nat /\ m \in Nat /\ f + m <= Window
    BY <2>2, CarriedFact, SizeAssumption
  <2>4. Called.batch = [k \in 1 .. m |->
                          LET r == f + k - 1 IN UpdateOf(<<ops, r>>, r, s)]
    BY <2>2, LoadBatchFact
  <2>5. \A k \in DOMAIN Called.batch : Called.batch[k].loc = f + k - 1
    <3> HIDE DEF f, m
    <3> QED
      BY <2>4 DEF UpdateOf
  <2> HIDE DEF f, m, b
  <2>6. /\ new \in Tables
        /\ new.ptr = t.ptr
        /\ \A r \in Row : new.rows[r] =
             IF f <= r /\ r < f + m THEN Shares(<<ops, r>>, s) ELSE t.rows[r]
    <3> DEFINE batch == [k \in 1 .. m |->
                           LET r == f + k - 1 IN UpdateOf(<<ops, r>>, r, s)]
    <3>1. /\ UpdateAll(t, batch) \in Tables
          /\ UpdateAll(t, batch).ptr = t.ptr
          /\ \A r \in Row : UpdateAll(t, batch).rows[r] =
               IF f <= r /\ r < f + m THEN Shares(<<ops, r>>, s) ELSE t.rows[r]
      BY ZenonT(40), <1>1, <2>2, <2>3, UpdateRows
    <3> QED
      BY <2>4, <3>1
  <2>7. ~ WriteDue(s, APPEND_LOC) /\ ~ WriteDue(s, APPEND_LOC)'
    BY <1>1, <2>1, NoAppendInLoad, DueAfter
  <2>8. new.ptr = t.ptr + AppendsDue(s) - AppendsDue(s)'
    <3>1. AppendsDue(s) = 0 /\ AppendsDue(s)' = 0
      BY <2>7 DEF AppendsDue
    <3> QED
      BY <2>6, <3>1 DEF Tables
  <2>9. ASSUME NEW r \in Row
        PROVE  \/ new.rows[r] = Shares(want.rows[r], s)
               \/ /\ new.rows[r] = t.rows[r]
                  /\ WriteDue(s, r) => WriteDue(s, r)'
                  /\ ~ (WriteDue(s, APPEND_LOC) /\ r = want.ptr - 1)
    <3>1. want.rows[r] = <<ops, r>>
      BY <2>1 DEF InLoad
    <3>2. CASE f <= r /\ r < f + m
      BY <2>6, <3>1, <3>2
    <3>3. CASE ~ (f <= r /\ r < f + m)
      <4>1. \A k \in DOMAIN Called.batch : Called.batch[k].loc # r
        <5>1. \A k \in 1 .. m : f + k - 1 >= f /\ f + k - 1 < f + m
          BY <2>3
        <5>2. DOMAIN Called.batch = 1 .. m
          BY <2>4
        <5> QED
          BY <2>5, <3>3, <5>1, <5>2
      <4>2. WriteDue(s, r) => WriteDue(s, r)'
        BY <1>1, <4>1, DueAfter
      <4> QED
        BY <2>6, <2>7, <3>3, <4>2
    <3> QED
      BY <3>2, <3>3
  <2> QED
    BY <2>2, <2>6, <2>8, <2>9
<1>3. CASE \E d \in 0 .. 2, loc \in Row \union {APPEND_LOC} : InRun(loc, d)
  <2>1. PICK d \in 0 .. 2, loc \in Row \union {APPEND_LOC} : InRun(loc, d)
    BY <1>3
  <2> DEFINE u  == UpdateOf(<<ops, 0>>, loc, d)
             at == IF loc = APPEND_LOC THEN want.ptr - 1 ELSE loc
  <2>2. /\ DOMAIN calls = 1 .. 3 - d
        /\ \A i \in DOMAIN calls :
             calls[i] = [to |-> d + i - 1, phase |-> -1,
                         batch |-> <<UpdateOf(<<ops, 0>>, loc, d + i - 1)>>]
        /\ calls = [i \in 1 .. 3 - d |-> calls[i]]
        /\ Called = [to |-> d, phase |-> -1, batch |-> <<u>>]
    <3>1. /\ DOMAIN calls = 1 .. 3 - d
          /\ calls = [i \in 1 .. 3 - d |-> calls[i]]
      BY <2>1, InRunFact
    <3>2. \A i \in DOMAIN calls :
            calls[i] = [to |-> d + i - 1, phase |-> -1,
                        batch |-> <<UpdateOf(<<ops, 0>>, loc, d + i - 1)>>]
      BY <2>1, InRunFact
    <3>3. Called = [to |-> d, phase |-> -1, batch |-> <<u>>]
      BY <2>1, InRunFact
    <3> QED
      BY <3>1, <3>2, <3>3
  <2>3. s = d /\ Called.batch = <<u>> /\ s \in Server
    BY <2>2 DEF Server
  <2>4. 0 \in Row /\ Row \subseteq Nat
    BY SizeAssumption DEF Row
  <2>5. /\ u \in UpdateSet /\ u.loc = loc /\ u.shares = Shares(<<ops, 0>>, s)
    <3>1. <<ops, 0>> \in Splits
      BY <1>1, <2>4 DEF Splits
    <3> QED
      BY <2>3, <3>1, SharesType DEF UpdateOf, UpdateSet
  <2>6. \A l : WriteDue(s, l) <=> l = loc
    <3>1. 1 \in DOMAIN calls
      BY <2>2
    <3>2. /\ calls[1].to = s /\ calls[1].phase # 0
          /\ calls[1].batch = <<UpdateOf(<<ops, 0>>, loc, d)>>
      BY <2>2, <2>3, <3>1, d + 1 - 1 = d
    <3>3. ASSUME NEW i \in DOMAIN calls
          PROVE  /\ DOMAIN calls[i].batch = {1}
                 /\ calls[i].batch[1].loc = loc
      BY <2>2 DEF UpdateOf
    <3> QED
      BY <3>1, <3>2, <3>3 DEF WriteDue
  <2>7. \A l : ~ WriteDue(s, l)'
    <3> SUFFICES ASSUME NEW i \in DOMAIN calls', calls'[i].to = s
                 PROVE  FALSE
      BY DEF WriteDue
    <3>1. calls' = [j \in 1 .. (3 - d) - 1 |-> calls[j + 1]]
      BY <1>1, <2>2, TailOf, 3 - d \in Nat \ {0}
    <3>2. i + 1 \in DOMAIN calls /\ calls'[i] = calls[i + 1] /\ i \in Nat \ {0}
      BY <2>2, <3>1
    <3>3. calls'[i].to = d + (i + 1) - 1
      BY <2>2, <3>2
    <3> QED
      BY <2>3, <3>2, <3>3
  <2> HIDE DEF u
  <2>8. new = Update(t, u) /\ new \in Tables
    BY <2>3, <2>5, UpdateOne, UpdateEffect
  <2>9. new.ptr = t.ptr + AppendsDue(s) - AppendsDue(s)'
    <3>1. /\ AppendsDue(s) = IF loc = APPEND_LOC THEN 1 ELSE 0
          /\ AppendsDue(s)' = 0
      BY <2>6, <2>7 DEF AppendsDue
    <3>2. new.ptr = IF loc = APPEND_LOC THEN t.ptr + 1 ELSE t.ptr
      BY <2>5, <2>8, UpdateEffect
    <3> QED
      BY <3>1, <3>2 DEF Tables
  <2>10. ASSUME t.ptr = want.ptr - AppendsDue(s), NEW r \in Row
         PROVE  \/ new.rows[r] = Shares(want.rows[r], s)
                \/ /\ new.rows[r] = t.rows[r]
                   /\ WriteDue(s, r) => WriteDue(s, r)'
                   /\ ~ (WriteDue(s, APPEND_LOC) /\ r = want.ptr - 1)
    <3>1. Location(t, loc) = at
      BY <2>6, <2>10 DEF Location, AppendsDue
    <3>2. new.rows[r] = IF r = at THEN Shares(<<ops, 0>>, s) ELSE t.rows[r]
      BY <2>5, <2>8, <3>1, UpdateEffect
    <3>3. CASE r = at
      <4>1. at < Window
        BY <2>4, <3>3, SizeAssumption DEF Row
      <4>2. want.rows[at] = <<ops, 0>>
        BY <2>1, <4>1 DEF InRun
      <4> QED
        BY <3>2, <3>3, <4>2
    <3>4. CASE r # at
      BY <2>4, <2>6, <3>2, <3>4 DEF APPEND_LOC
    <3> QED
      BY <3>3, <3>4
  <2> QED
    BY <2>3, <2>8, <2>9, <2>10
<1> QED
  BY <1>2, <1>3, Busy

\* A server that a call is not for keeps what it has; damage only grows.
LEMMA OthersKeep ==
  ASSUME TypeOK, CallsOK, ~ Idle, Replied, NEW s \in Server, s # Called.to,
         table'[s] = table[s], up'[s] = up[s], hurt \subseteq hurt',
         ServerOK(s)
  PROVE  ServerOK(s)'
<1>1. calls' = Tail(calls) /\ want' = want
  BY DEF Replied
<1>2. \A loc : WriteDue(s, loc)' <=> WriteDue(s, loc)
  BY <1>1, DueAfter
<1>3. AppendsDue(s)' = AppendsDue(s)
  BY <1>2 DEF AppendsDue
<1> HIDE DEF Replied
<1> QED
  BY <1>1, <1>2, <1>3 DEF ServerOK

\* The receivers of calls are servers.
LEMMA Receiver ==
  ASSUME CallsOK, ~ Idle
  PROVE  Called.to \in Server
<1>1. CASE \E d \in 0 .. LoadLength - 1 : InLoad(d)
  <2>1. PICK d \in 0 .. LoadLength - 1 : InLoad(d)
    BY <1>1
  <2>2. Called = LoadCall(ops, d + 1)
    BY <2>1, InLoadFact
  <2>3. LoadCall(ops, d + 1).to = d % 3 /\ d % 3 \in Server
    BY LoadCallFact
  <2> QED
    BY <2>2, <2>3
<1>2. CASE \E d \in 0 .. 2, loc \in Row \union {APPEND_LOC} : InRun(loc, d)
  <2>1. PICK d \in 0 .. 2, loc \in Row \union {APPEND_LOC} : InRun(loc, d)
    BY <1>2
  <2>2. Called.to = d
    BY <2>1, InRunFact
  <2> QED
    BY <2>2 DEF Server
<1> QED
  BY <1>1, <1>2, Busy

\* No step of a server or of the network makes more appends due.
LEMMA PointersFrame ==
  ASSUME TypeOK, CallsOK, PointersOK, ~ Idle, Replied, NEW s \in Server,
         table'[s] = table[s] \/ table'[s].ptr = 0 \/
           (table[s] # Absent /\
            table'[s].ptr = table[s].ptr + AppendsDue(s) - AppendsDue(s)')
  PROVE  table'[s] # Absent => table'[s].ptr + AppendsDue(s)' <= ops'
<1>1. calls' = Tail(calls) /\ ops' = ops /\ ops \in Nat /\ ops > 0
  BY SizeAssumption, Busy DEF Replied, TypeOK
<1>2. WriteDue(s, APPEND_LOC)' => WriteDue(s, APPEND_LOC)
  BY <1>1, DueAfter
<1>3. /\ AppendsDue(s) \in {0, 1} /\ AppendsDue(s)' \in {0, 1}
      /\ AppendsDue(s)' <= AppendsDue(s)
  BY <1>2 DEF AppendsDue
<1>4. table[s] # Absent => table[s].ptr \in Nat /\ table[s].ptr + AppendsDue(s) <= ops
  BY TableType, SizeAssumption DEF PointersOK
<1> QED
  BY <1>1, <1>3, <1>4

\* Nothing is due when the client is idle.
LEMMA IdleFact ==
  ASSUME Idle, NEW s, NEW loc
  PROVE  /\ ~ CreateDue(s) /\ ~ WriteDue(s, loc) /\ AppendsDue(s) = 0
<1>1. DOMAIN calls = {}
  BY DEF Idle
<1> QED
  BY <1>1 DEF CreateDue, WriteDue, AppendsDue

\* A load appends nothing, seen from the state that a step leads to.
NoAppends ==
  \A d \in 0 .. LoadLength - 1, s \in Server : InLoad(d) => ~ WriteDue(s, APPEND_LOC)
LEMMA NoAppendsNext == NoAppends'
<1>1. NoAppends
  BY NoAppendInLoad DEF NoAppends
<1> QED
  BY <1>1, PTL

\* The invariant when a load begins.
LEMMA LoadStep ==
  ASSUME IInv, Load
  PROVE  IInv'
<1>1. /\ Idle /\ ops \in 0 .. MaxOps /\ ops < MaxOps /\ ops' = ops + 1
      /\ calls' = LoadCalls(ops')
      /\ want' = [rows |-> [r \in Row |-> <<ops', r>>], ptr |-> 0]
      /\ hurt' = {} /\ kind' = kind /\ table' = table /\ up' = up
      /\ TypeOK /\ CallsOK /\ PointersOK
  BY DEF Load, IInv, TypeOK
<1>2. ops' \in 1 .. MaxOps
  BY <1>1, SizeAssumption
<1>3. TypeOK'
  <2>1. want' \in [rows : [Row -> Splits], ptr : 0 .. MaxOps]
    <3>1. \A r \in Row : <<ops', r>> \in Splits
      BY <1>2 DEF Splits
    <3> QED
      BY <1>1, <3>1, SizeAssumption
  <2> QED
    BY <1>1, <1>2, <2>1 DEF TypeOK
<1>4. LoadLength' = LoadLength /\ LoadLength = 3 * (Batches + 1)
      /\ LoadLength \in Nat \ {0} /\ Batches \in Nat \ {0}
  BY <1>1, BatchesFact DEF LoadLength, Batches
<1>5. InLoad(0)'
  <2>1. \A n, i : LoadCall(n, i)' = LoadCall(n', i)
    BY <1>1 DEF LoadCall, CarriedFrom, CarriedTo
  <2>2. calls' = [i \in 1 .. LoadLength |-> LoadCall(ops', i)]
    BY <1>1, <1>4 DEF LoadCalls
  <2>3. LoadRest(0)' = [i \in 1 .. LoadLength |-> LoadCall(ops', i)]
    <3>1. \A i \in 1 .. LoadLength : 0 + i = i
      BY <1>4
    <3>2. 1 .. LoadLength - 0 = 1 .. LoadLength
      BY <1>4
    <3>3. \A i : LoadCall(ops, i)' = LoadCall(ops', i)
      BY <1>1 DEF LoadCall, CarriedFrom, CarriedTo
    <3> QED
      BY <1>4, <3>1, <3>2, <3>3 DEF LoadRest
  <2> QED
    BY <1>1, <2>2, <2>3 DEF InLoad
<1>6. CallsOK'
  BY <1>2, <1>4, <1>5 DEF CallsOK
<1>7. \A s \in Server : CreateDue(s)'
  <2> SUFFICES ASSUME NEW s \in Server
               PROVE  CreateDue(s)'
    OBVIOUS
  <2>1. s \in 0 .. 2 /\ s + 1 \in 1 .. LoadLength /\ (s + 1) - 1 = s
    BY <1>4 DEF Server
  <2>2. calls'[s + 1] = LoadCall(ops', s + 1) /\ s + 1 \in DOMAIN calls'
    BY <1>1, <1>4, <2>1 DEF LoadCalls
  <2>3. LoadCall(ops', s + 1).to = s /\ LoadCall(ops', s + 1).phase = 0
    BY <2>1 DEF LoadCall
  <2> DEFINE i == s + 1
  <2>4. i \in DOMAIN calls' /\ calls'[i].to = s /\ calls'[i].phase = 0
    BY <2>2, <2>3
  <2> HIDE DEF i
  <2> QED
    BY <2>4 DEF CreateDue
<1>8. ServersOK'
  BY <1>7 DEF ServersOK
<1>9. PointersOK'
  <2>1. \A s \in Server : AppendsDue(s)' = 0 /\ AppendsDue(s) = 0
    <3> SUFFICES ASSUME NEW s \in Server
                 PROVE  ~ WriteDue(s, APPEND_LOC)' /\ AppendsDue(s) = 0
      BY DEF AppendsDue
    <3>1. 0 \in 0 .. LoadLength - 1
      BY <1>4
    <3>2. ~ WriteDue(s, APPEND_LOC)'
      BY <1>4, <1>5, <3>1, NoAppendsNext DEF NoAppends
    <3> QED
      BY <1>1, <3>2, IdleFact
  <2>2. \A s \in Server : table[s] # Absent =>
          table[s].ptr \in Nat /\ table[s].ptr <= ops
    BY <1>1, <2>1, TableType DEF PointersOK, Tables
  <2> QED
    BY <1>1, <2>1, <2>2 DEF PointersOK
<1> QED
  BY <1>3, <1>6, <1>8, <1>9 DEF IInv

\* The invariant when an update begins.
LEMMA RunStep ==
  ASSUME IInv, NEW loc \in Row \union {APPEND_LOC}, Run(loc)
  PROVE  IInv'
<1> DEFINE at == IF loc = APPEND_LOC THEN want.ptr ELSE loc
<1>1. /\ Idle /\ ops \in 1 .. MaxOps /\ ops < MaxOps /\ ops' = ops + 1
      /\ calls' = RunCalls(ops', loc)
      /\ want' = [rows |-> IF at < Window THEN Written(want.rows, at, <<ops', 0>>)
                           ELSE want.rows,
                  ptr  |-> IF loc = APPEND_LOC THEN want.ptr + 1 ELSE want.ptr]
      /\ hurt' = hurt \ {at} /\ kind' = kind /\ table' = table /\ up' = up
      /\ TypeOK /\ CallsOK /\ ServersOK /\ PointersOK
  BY SizeAssumption DEF Run, IInv, TypeOK
<1>2. ops' \in 1 .. MaxOps
  BY <1>1, SizeAssumption
<1>3. /\ want.rows \in [Row -> Splits] /\ want.ptr \in Nat /\ want.ptr <= ops
      /\ Row \subseteq Nat /\ 0 \in Row
  BY <1>1, SizeAssumption DEF TypeOK, PointersOK, Row
<1>4. at \in Nat /\ (at < Window <=> at \in Row) /\ at # POINTER
  BY <1>3, SizeAssumption DEF Row, APPEND_LOC, POINTER
<1>5. /\ want'.rows \in [Row -> Splits]
      /\ want'.ptr = IF loc = APPEND_LOC THEN want.ptr + 1 ELSE want.ptr
      /\ at < Window => want'.rows[at] = <<ops', 0>>
      /\ \A r \in Row : r # at => want'.rows[r] = want.rows[r]
  <2> HIDE DEF at
  <2>1. <<ops', 0>> \in Splits
    BY <1>2, <1>3 DEF Splits
  <2>2. CASE at < Window
    <3>1. want'.rows = [r \in Row |-> IF r = at THEN <<ops', 0>> ELSE want.rows[r]]
      <4>1. DOMAIN want.rows \union {at} = Row
        BY <1>3, <1>4, <2>2
      <4> QED
        BY <1>1, <2>2, <4>1 DEF Written
    <3>2. want'.ptr = IF loc = APPEND_LOC THEN want.ptr + 1 ELSE want.ptr
      BY <1>1
    <3>3. at \in Row
      BY <1>4, <2>2
    <3>4. want'.rows[at] = <<ops', 0>>
      BY <3>1, <3>3
    <3>5. /\ want'.rows \in [Row -> Splits]
          /\ \A r \in Row : r # at => want'.rows[r] = want.rows[r]
      BY <1>3, <2>1, <3>1
    <3> QED
      BY <3>2, <3>4, <3>5
  <2>3. CASE ~ (at < Window)
    BY <1>1, <1>3, <2>3
  <2> QED
    BY <2>2, <2>3
<1>6. want' = [rows |-> want'.rows, ptr |-> want'.ptr]
  BY <1>1
<1> HIDE DEF at
<1>7. TypeOK'
  <2>1. want'.ptr \in 0 .. MaxOps
    BY <1>1, <1>3, <1>5, SizeAssumption
  <2>2. want' \in [rows : [Row -> Splits], ptr : 0 .. MaxOps]
    BY <1>5, <1>6, <2>1
  <2> QED
    BY <1>1, <1>2, <2>2 DEF TypeOK
<1>8. InRun(loc, 0)'
  <2>1. calls' = RunRest(loc, 0)'
    <3>1. \A i \in 1 .. 3 : 0 + i = i
      OBVIOUS
    <3> QED
      BY <1>1, <3>1 DEF RunRest, RunCalls
  <2>2. (IF loc = APPEND_LOC THEN want'.ptr - 1 ELSE loc) = at
    BY <1>3, <1>5 DEF at
  <2> QED
    BY <1>4, <1>5, <2>1, <2>2 DEF InRun
<1>9. CallsOK'
  BY <1>1, <1>2, <1>8 DEF CallsOK
<1>10. ASSUME NEW s \in Server
       PROVE  /\ ~ CreateDue(s)'
              /\ \A l : WriteDue(s, l)' <=> l = loc
  <2>1. \A i \in 1 .. 3 : calls'[i] = [to |-> i - 1, phase |-> -1,
                                       batch |-> <<UpdateOf(<<ops', 0>>, loc, i - 1)>>]
    BY <1>1 DEF RunCalls
  <2>2. DOMAIN calls' = 1 .. 3
    BY <1>1 DEF RunCalls
  <2>3. ASSUME NEW i \in 1 .. 3
        PROVE  /\ calls'[i].phase = -1 /\ calls'[i].to = i - 1
               /\ DOMAIN calls'[i].batch = {1} /\ calls'[i].batch[1].loc = loc
    BY <2>1 DEF UpdateOf
  <2>4. ~ CreateDue(s)'
    BY <2>2, <2>3 DEF CreateDue
  <2>5. ASSUME NEW l, WriteDue(s, l)'
        PROVE  l = loc
    BY <2>2, <2>3, <2>5 DEF WriteDue
  <2>6. WriteDue(s, loc)'
    <3> DEFINE j == s + 1
    <3>1. j \in 1 .. 3 /\ j - 1 = s
      BY DEF Server
    <3> HIDE DEF j
    <3>2. /\ j \in DOMAIN calls' /\ calls'[j].to = s /\ calls'[j].phase # 0
          /\ 1 \in DOMAIN calls'[j].batch /\ calls'[j].batch[1].loc = loc
      BY <2>2, <2>3, <3>1
    <3> QED
      BY <3>2 DEF WriteDue
  <2> QED
    BY <2>4, <2>5, <2>6
<1>11. ASSUME NEW s \in Server
       PROVE  AppendsDue(s)' = want'.ptr - want.ptr
  BY <1>3, <1>5, <1>10 DEF AppendsDue
<1>12. PointersOK'
  <2>1. \A s \in Server : AppendsDue(s) = 0
    BY <1>1, IdleFact
  <2>2. want'.ptr - want.ptr \in {0, 1}
    BY <1>3, <1>5
  <2>3. \A s \in Server : table[s] # Absent =>
          table[s].ptr \in Nat /\ table[s].ptr <= ops
    BY <1>1, <2>1, TableType DEF PointersOK, Tables
  <2>4. \A s \in Server : table[s] # Absent => table[s].ptr + AppendsDue(s)' <= ops'
    BY <1>1, <1>11, <2>2, <2>3
  <2>5. want'.ptr <= ops'
    BY <1>1, <1>3, <1>5
  <2> QED
    BY <1>1, <2>4, <2>5 DEF PointersOK
<1>13. ServersOK'
  <2> SUFFICES ASSUME POINTER \notin hurt', NEW s \in Server
               PROVE  ServerOK(s)'
    BY DEF ServersOK
  <2>1. POINTER \notin hurt
    BY <1>1, <1>4
  <2>2. ServerOK(s) /\ AppendsDue(s) = 0 /\ \A l : ~ WriteDue(s, l)
    BY <1>1, <2>1, IdleFact DEF ServersOK
  <2>3. table[s] # Absent /\ up[s] /\ table[s].ptr = want.ptr
    BY <1>3, <2>2 DEF ServerOK
  <2>4. table'[s].ptr = want'.ptr - AppendsDue(s)'
    BY <1>1, <1>3, <1>5, <1>11, <2>3
  <2>5. ASSUME NEW r \in Row \ hurt'
        PROVE  \/ table'[s].rows[r] = Shares(want'.rows[r], s)
               \/ WriteDue(s, r)'
               \/ WriteDue(s, APPEND_LOC)' /\ r = want'.ptr - 1
    <3>1. CASE r = at
      BY <1>3, <1>5, <1>10, <3>1 DEF at
    <3>2. CASE r # at
      <4>1. r \in Row \ hurt
        BY <1>1, <3>2
      <4>2. table[s].rows[r] = Shares(want.rows[r], s)
        BY <2>2, <4>1 DEF ServerOK
      <4> QED
        BY <1>1, <1>5, <3>2, <4>2
    <3> QED
      BY <3>1, <3>2
  <2> QED
    BY <1>1, <2>3, <2>4, <2>5 DEF ServerOK
<1> QED
  BY <1>7, <1>9, <1>12, <1>13 DEF IInv

\* The invariant when a server creates a table.
LEMMA CreateStep ==
  ASSUME IInv, Create
  PROVE  IInv'
<1>1. /\ ~ Idle /\ Called.phase = 0 /\ up[Called.to] /\ Replied
      /\ table' = [table EXCEPT ![Called.to] = Fresh(Called.to)]
      /\ up' = up /\ hurt' = hurt
      /\ TypeOK /\ CallsOK /\ ServersOK /\ PointersOK
      /\ ops' = ops /\ want' = want /\ kind' = kind /\ calls' = Tail(calls)
  BY DEF Create, IInv, Replied
<1>2. PICK d \in 0 .. LoadLength - 1 : InLoad(d)
  BY <1>1, InRunFact, Busy
<1>3. PICK s \in Server : s = Called.to
  BY <1>1, Receiver
<1>4. d <= 2 /\ want.ptr = 0
  <2>1. d \div 3 = 0
    BY <1>1, <1>2, InLoadFact, LoadCallFact
  <2>2. d = 3 * (d \div 3) + (d % 3) /\ d % 3 \in 0 .. 2
    BY <1>2, LoadCallFact DEF Server
  <2> QED
    BY <1>2, <2>1, <2>2 DEF InLoad
<1>5. /\ DOMAIN table' = Server
      /\ \A q \in Server : table'[q] = IF q = s THEN Fresh(s) ELSE table[q]
  BY <1>1, <1>3 DEF TypeOK
<1>6. Fresh(s) \in Tables /\ Fresh(s).ptr = 0 /\ Fresh(s) # Absent
  BY FreshType, TableThere
<1>7. TypeOK'
  <2>1. Fresh(s) \in [rows : [Row -> RowSet], ptr : 0 .. MaxOps]
    BY <1>6, SizeAssumption DEF Tables
  <2> QED
    BY <1>1, <1>5, <2>1 DEF TypeOK
<1>8. CallsOK'
  BY <1>1, CallsAdvance
<1>9. PointersOK'
  <2>1. \A q \in Server : table'[q] = table[q] \/ table'[q].ptr = 0
    BY <1>5, <1>6
  <2>2. \A q \in Server : table'[q] # Absent => table'[q].ptr + AppendsDue(q)' <= ops'
    BY <1>1, <2>1, PointersFrame
  <2> QED
    BY <1>1, <2>2 DEF PointersOK
<1>10. ServersOK'
  <2> SUFFICES ASSUME ops > 0, POINTER \notin hurt, NEW q \in Server, ~ CreateDue(q)'
               PROVE  ServerOK(q)'
    BY <1>1 DEF ServersOK
  <2>1. CASE q # s
    <3>1. ServerOK(q)
      BY <1>1, <1>3, <2>1, DueAfter DEF ServersOK
    <3> QED
      BY <1>1, <1>3, <1>5, <2>1, <3>1, OthersKeep
  <2>2. CASE q = s
    <3>1. \A r \in Row : WriteDue(s, r)'
      BY <1>1, <1>2, <1>3, <1>4, RowsDue, DueAfter
    <3>2. ~ WriteDue(s, APPEND_LOC)'
      BY <1>1, <1>2, NoAppendInLoad, DueAfter
    <3>3. AppendsDue(s)' = 0
      BY <3>2 DEF AppendsDue
    <3> QED
      BY <1>1, <1>3, <1>4, <1>5, <1>6, <2>2, <3>1, <3>3 DEF ServerOK
  <2> QED
    BY <2>1, <2>2
<1> QED
  BY <1>7, <1>8, <1>9, <1>10 DEF IInv

\* The invariant when a server stores a batch.
LEMMA StoreStep ==
  ASSUME IInv, Store
  PROVE  IInv'
<1>1. /\ ~ Idle /\ Called.phase # 0 /\ up[Called.to] /\ table[Called.to] # Absent
      /\ Replied
      /\ table' = [table EXCEPT ![Called.to] = UpdateAll(@, Called.batch)]
      /\ up' = up /\ hurt' = hurt
      /\ TypeOK /\ CallsOK /\ ServersOK /\ PointersOK
      /\ ops' = ops /\ want' = want /\ kind' = kind /\ calls' = Tail(calls)
  BY DEF Store, IInv, Replied
<1>2. PICK s \in Server : s = Called.to
  BY <1>1, Receiver
<1> DEFINE t   == table[s]
           new == UpdateAll(t, Called.batch)
<1>3. /\ DOMAIN table' = Server
      /\ \A q \in Server : table'[q] = IF q = s THEN new ELSE table[q]
  BY <1>1, <1>2 DEF TypeOK
<1>4. t \in Tables /\ t # Absent
  BY <1>1, <1>2, TableType
<1>5. /\ new \in Tables /\ new # Absent
      /\ new.ptr = t.ptr + AppendsDue(s) - AppendsDue(s)'
      /\ t.ptr = want.ptr - AppendsDue(s) =>
           \A r \in Row :
             \/ new.rows[r] = Shares(want.rows[r], s)
             \/ /\ new.rows[r] = t.rows[r]
                /\ WriteDue(s, r) => WriteDue(s, r)'
                /\ ~ (WriteDue(s, APPEND_LOC) /\ r = want.ptr - 1)
  <2> HIDE DEF t
  <2>1. new \in Tables
    BY <1>1, <1>2, <1>4, StoreEffect
  <2>2. new.ptr = t.ptr + AppendsDue(s) - AppendsDue(s)'
    BY <1>1, <1>2, <1>4, StoreEffect
  <2>3. ASSUME t.ptr = want.ptr - AppendsDue(s), NEW r \in Row
        PROVE  \/ new.rows[r] = Shares(want.rows[r], s)
               \/ /\ new.rows[r] = t.rows[r]
                  /\ WriteDue(s, r) => WriteDue(s, r)'
                  /\ ~ (WriteDue(s, APPEND_LOC) /\ r = want.ptr - 1)
    BY <1>1, <1>2, <1>4, <2>3, StoreEffect
  <2> QED
    BY <2>1, <2>2, <2>3, TableThere
<1> HIDE DEF new
<1>6. CallsOK'
  BY <1>1, CallsAdvance
<1>7. PointersOK'
  <2>1. \A q \in Server :
          table'[q] = table[q] \/
          (table[q] # Absent /\ table'[q].ptr = table[q].ptr + AppendsDue(q) - AppendsDue(q)')
    BY <1>3, <1>4, <1>5
  <2>2. \A q \in Server : table'[q] # Absent => table'[q].ptr + AppendsDue(q)' <= ops'
    BY <1>1, <2>1, PointersFrame
  <2> QED
    BY <1>1, <2>2 DEF PointersOK
<1>8. TypeOK'
  <2>1. AppendsDue(s)' \in {0, 1} /\ new.ptr \in Nat
    BY <1>5 DEF AppendsDue, Tables
  <2>2. new.ptr <= MaxOps
    <3>1. new.ptr + AppendsDue(s)' <= ops
      BY <1>1, <1>3, <1>5, <1>7 DEF PointersOK
    <3> QED
      BY <1>1, <2>1, <3>1, SizeAssumption DEF TypeOK
  <2>3. new \in [rows : [Row -> RowSet], ptr : 0 .. MaxOps]
    BY <1>5, <2>1, <2>2, SizeAssumption DEF Tables
  <2> QED
    BY <1>1, <1>3, <2>3 DEF TypeOK
<1>9. ServersOK'
  <2> SUFFICES ASSUME ops > 0, POINTER \notin hurt, NEW q \in Server, ~ CreateDue(q)'
               PROVE  ServerOK(q)'
    BY <1>1 DEF ServersOK
  <2>1. ~ CreateDue(q) /\ ServerOK(q)
    BY <1>1, DueAfter DEF ServersOK
  <2>2. CASE q # s
    BY <1>1, <1>2, <1>3, <2>1, <2>2, OthersKeep
  <2>3. CASE q = s
    <3>1. t.ptr = want.ptr - AppendsDue(s)
      BY <2>1, <2>3 DEF ServerOK
    <3>2. AppendsDue(s) \in Int /\ AppendsDue(s)' \in Int /\ want.ptr \in Int
      BY <1>1, SizeAssumption DEF AppendsDue, TypeOK
    <3>3. new.ptr = want.ptr - AppendsDue(s)'
      BY <1>5, <3>1, <3>2
    <3>4. ASSUME NEW r \in Row \ hurt
          PROVE  \/ new.rows[r] = Shares(want.rows[r], s)
                 \/ WriteDue(s, r)'
      <4>1. \/ t.rows[r] = Shares(want.rows[r], s)
            \/ WriteDue(s, r)
            \/ WriteDue(s, APPEND_LOC) /\ r = want.ptr - 1
        BY <2>1, <2>3 DEF ServerOK
      <4> QED
        BY <1>5, <3>1, <4>1
    <3> QED
      BY <1>1, <1>2, <1>3, <1>5, <2>3, <3>3, <3>4 DEF ServerOK
  <2> QED
    BY <2>2, <2>3
<1> QED
  BY <1>6, <1>7, <1>8, <1>9 DEF IInv

\* The invariant when a server does not find the table.
LEMMA NoTableStep ==
  ASSUME IInv, NoTable
  PROVE  IInv'
<1>1. /\ ~ Idle /\ Called.phase # 0 /\ table[Called.to] = Absent /\ Replied
      /\ up' = [up EXCEPT ![Called.to] = kind = "bo"]
      /\ table' = table /\ hurt' = hurt
      /\ TypeOK /\ CallsOK /\ ServersOK /\ PointersOK
      /\ ops' = ops /\ want' = want /\ kind' = kind /\ calls' = Tail(calls)
  BY DEF NoTable, IInv, Replied
<1>2. PICK s \in Server : s = Called.to
  BY <1>1, Receiver
<1>3. TypeOK'
  <2>1. up' \in [Server -> BOOLEAN]
    BY <1>1 DEF TypeOK
  <2> QED
    BY <1>1, <2>1 DEF TypeOK
<1>4. \A q \in Server : q # s => up'[q] = up[q]
  BY <1>1, <1>2 DEF TypeOK
<1>5. CallsOK'
  BY <1>1, CallsAdvance
<1>6. PointersOK'
  <2>1. \A q \in Server : table'[q] # Absent => table'[q].ptr + AppendsDue(q)' <= ops'
    BY <1>1, PointersFrame
  <2> QED
    BY <1>1, <2>1 DEF PointersOK
<1>7. ServersOK'
  <2> SUFFICES ASSUME ops > 0, POINTER \notin hurt, NEW q \in Server, ~ CreateDue(q)'
               PROVE  ServerOK(q)'
    BY <1>1 DEF ServersOK
  <2>1. ~ CreateDue(q) /\ ServerOK(q)
    BY <1>1, DueAfter DEF ServersOK
  <2>2. q # s
    BY <1>1, <1>2, <2>1 DEF ServerOK
  <2> QED
    BY <1>1, <1>2, <1>4, <2>1, <2>2, OthersKeep
<1> QED
  BY <1>3, <1>5, <1>6, <1>7 DEF IInv

\* The invariant when a call is lost.
LEMMA LoseStep ==
  ASSUME IInv, Lose
  PROVE  IInv'
<1>1. /\ ~ Idle /\ Replied /\ hurt' = hurt \union Harm
      /\ table' = table /\ up' = up
      /\ TypeOK /\ CallsOK /\ ServersOK /\ PointersOK
      /\ ops' = ops /\ want' = want /\ kind' = kind /\ calls' = Tail(calls)
  BY DEF Lose, IInv, Replied
<1>2. PICK s \in Server : s = Called.to
  BY <1>1, Receiver
<1> DEFINE locs == {Called.batch[k].loc : k \in DOMAIN Called.batch}
<1>3. CallsOK'
  BY <1>1, CallsAdvance
<1>4. PointersOK'
  <2>1. \A q \in Server : table'[q] # Absent => table'[q].ptr + AppendsDue(q)' <= ops'
    BY <1>1, PointersFrame
  <2> QED
    BY <1>1, <2>1 DEF PointersOK
<1>5. locs \subseteq Row \union {APPEND_LOC} \/ Called.phase = 0
  <2>1. CASE \E d \in 0 .. LoadLength - 1 : InLoad(d)
    <3>1. PICK d \in 0 .. LoadLength - 1 : InLoad(d)
      BY <2>1
    <3> DEFINE b == d \div 3
    <3>2. Called = LoadCall(ops, d + 1) /\ Called.phase = b /\ b \in 0 .. Batches
      BY <3>1, InLoadFact, LoadCallFact
    <3> HIDE DEF b
    <3>3. CASE b # 0
      <4>1. b \in 1 .. Batches
        BY <3>2, <3>3, BatchesFact
      <4>2. /\ CarriedFrom(b) \in Nat /\ CarriedTo(b) \in Nat
            /\ CarriedTo(b) <= Window
        BY <4>1, CarriedFact
      <4>3. Called.batch = [k \in 1 .. CarriedTo(b) - CarriedFrom(b) |->
              LET r == CarriedFrom(b) + k - 1 IN UpdateOf(<<ops, r>>, r, d % 3)]
        BY <3>2, <4>1, LoadBatchFact DEF b
      <4>4. \A k \in DOMAIN Called.batch :
              /\ k \in 1 .. CarriedTo(b) - CarriedFrom(b)
              /\ Called.batch[k].loc = CarriedFrom(b) + k - 1
        BY <4>3 DEF UpdateOf
      <4>5. \A k \in 1 .. CarriedTo(b) - CarriedFrom(b) : CarriedFrom(b) + k - 1 \in Row
        BY <4>2, SizeAssumption DEF Row
      <4> QED
        BY <4>4, <4>5
    <3> QED
      BY <3>2, <3>3
  <2>2. CASE \E d \in 0 .. 2, loc \in Row \union {APPEND_LOC} : InRun(loc, d)
    <3>1. PICK d \in 0 .. 2, loc \in Row \union {APPEND_LOC} : InRun(loc, d)
      BY <2>2
    <3>2. Called = [to |-> d, phase |-> -1, batch |-> <<UpdateOf(<<ops, 0>>, loc, d)>>]
      BY <3>1, InRunFact
    <3>3. DOMAIN Called.batch = {1} /\ Called.batch[1].loc = loc
      BY <3>2 DEF UpdateOf
    <3> QED
      BY <3>3
  <2> QED
    BY <1>1, <2>1, <2>2, Busy
<1> HIDE DEF locs
<1>6. Harm \subseteq Row \union {POINTER}
  <2>1. CASE Called.phase = 0
    BY <2>1 DEF Harm
  <2>2. CASE Called.phase # 0
    <3>1. locs \subseteq Row \union {APPEND_LOC}
      BY <1>5, <2>2
    <3>2. Harm = {} \/ Harm = Row \union {POINTER} \/ (APPEND_LOC \notin locs /\ Harm = locs)
      BY <2>2 DEF Harm, locs
    <3> QED
      BY <3>1, <3>2
  <2> QED
    BY <2>1, <2>2
<1>7. TypeOK'
  BY <1>1, <1>6 DEF TypeOK
<1>8. ServersOK'
  <2> SUFFICES ASSUME ops > 0, POINTER \notin hurt', NEW q \in Server, ~ CreateDue(q)'
               PROVE  ServerOK(q)'
    BY <1>1 DEF ServersOK
  <2>1. POINTER \notin hurt /\ POINTER \notin Harm
    BY <1>1
  <2>2. CASE q # s
    <3>1. ServerOK(q)
      BY <1>1, <1>2, <2>1, <2>2, DueAfter DEF ServersOK
    <3> QED
      BY <1>1, <1>2, <2>2, <3>1, OthersKeep
  <2>3. CASE q = s
    <3>1. Called.phase # 0
      BY <2>1 DEF Harm
    <3>2. ServerOK(s)
      BY <1>1, <1>2, <2>1, <2>3, <3>1, DueAfter DEF ServersOK
    <3>3. WriteDue(s, APPEND_LOC)' <=> WriteDue(s, APPEND_LOC)
      <4>1. ASSUME APPEND_LOC \in locs
            PROVE  ~ WriteDue(s, APPEND_LOC)
        <5>1. Called.phase > 0 /\ kind = "val" /\ Called.phase < Batches
          BY <2>1, <3>1, <4>1 DEF Harm, locs
        <5>2. PICK d \in 0 .. LoadLength - 1 : InLoad(d)
          BY <1>1, <5>1, InRunFact, Busy
        <5> QED
          BY <5>2, NoAppendInLoad
      <4>2. APPEND_LOC \notin locs =>
              \A k \in DOMAIN Called.batch : Called.batch[k].loc # APPEND_LOC
        BY DEF locs
      <4> QED
        BY <1>1, <4>1, <4>2, DueAfter
    <3>4. AppendsDue(s)' = AppendsDue(s)
      BY <3>3 DEF AppendsDue
    <3>5. ASSUME NEW r \in Row \ hurt', WriteDue(s, r)
          PROVE  WriteDue(s, r)'
      <4>1. CASE Called.phase > 0 /\ kind = "val" /\ Called.phase < Batches
        <5>1. PICK d \in 0 .. LoadLength - 1 : InLoad(d)
          BY <1>1, <4>1, InRunFact, Busy
        <5>2. d \div 3 < Batches
          BY <4>1, <5>1, InLoadFact, LoadCallFact
        <5> QED
          BY <1>1, <4>1, <5>1, <5>2, RowsDueAgain
      <4>2. CASE ~ (Called.phase > 0 /\ kind = "val" /\ Called.phase < Batches)
        <5>1. Harm = locs
          BY <2>1, <3>1, <4>2 DEF Harm, locs
        <5>2. r \notin locs
          BY <1>1, <5>1
        <5>3. \A k \in DOMAIN Called.batch : Called.batch[k].loc # r
          BY <5>2 DEF locs
        <5> QED
          BY <1>1, <3>5, <5>3, DueAfter
      <4> QED
        BY <4>1, <4>2
    <3> QED
      BY <1>1, <2>3, <3>2, <3>3, <3>4, <3>5 DEF ServerOK
  <2> QED
    BY <2>2, <2>3
<1> QED
  BY <1>3, <1>4, <1>7, <1>8 DEF IInv

-----------------------------------------------------------------------------
(* The theorems.                                                           *)

\* The invariant holds when no table was made yet.
LEMMA InitInv == Init => IInv
<1> SUFFICES ASSUME Init PROVE IInv
  OBVIOUS
<1>1. TypeOK
  <2>1. want \in [rows : [Row -> Splits], ptr : 0 .. MaxOps]
    BY SizeAssumption DEF Init, Splits
  <2> QED
    BY <2>1, SizeAssumption DEF Init, TypeOK
<1>2. CallsOK /\ ServersOK /\ PointersOK
  BY SizeAssumption DEF Init, CallsOK, Idle, ServersOK, PointersOK
<1> QED
  BY <1>1, <1>2 DEF IInv

\* Every step keeps the invariant.
LEMMA NextInv == IInv /\ [Next]_vars => IInv'
<1> SUFFICES ASSUME IInv, [Next]_vars PROVE IInv'
  OBVIOUS
<1>1. CASE Load
  BY <1>1, LoadStep
<1>2. CASE \E loc \in Row \union {APPEND_LOC} : Run(loc)
  BY <1>2, RunStep
<1>3. CASE Create
  BY <1>3, CreateStep
<1>4. CASE Store
  BY <1>4, StoreStep
<1>5. CASE NoTable
  BY <1>5, NoTableStep
<1>6. CASE Lose
  BY <1>6, LoseStep
<1>7. CASE UNCHANGED vars
  <2>1. /\ kind' = kind /\ table' = table /\ up' = up /\ calls' = calls
        /\ ops' = ops /\ want' = want /\ hurt' = hurt
    BY <1>7 DEF vars
  <2>2. TypeOK' /\ PointersOK'
    BY <2>1 DEF IInv, TypeOK, PointersOK, AppendsDue, WriteDue
  <2>3. CallsOK'
    BY SMTT(30), <2>1 DEF IInv, CallsOK, Idle, InLoad, InRun, LoadRest, RunRest, LoadLength,
                Batches, LoadCall, CarriedFrom, CarriedTo
  <2>4. ServersOK'
    BY <2>1 DEF IInv, ServersOK, ServerOK, CreateDue, WriteDue, AppendsDue
  <2> QED
    BY <2>2, <2>3, <2>4 DEF IInv
<1> QED
  BY <1>1, <1>2, <1>3, <1>4, <1>5, <1>6, <1>7 DEF Next

\* The invariant is one.
THEOREM TablesInvariant == Spec => []IInv
<1> QED
  BY InitInv, NextInv, PTL DEF Spec

\* The tables of the servers have the rows that were asked for, and no write
\* pointer runs ahead of the client's operations, for tables and batches of
\* any size, any number of operations and any lost calls.
THEOREM TablesTyped == Spec => []TypeOK
<1>1. IInv => TypeOK
  BY DEF IInv
<1> QED
  BY <1>1, TablesInvariant, PTL

\* Between two operations the servers hold the shares of the client's last
\* value of every row that no lost call has spoiled, for tables and batches of
\* any size, any number of operations and any lost calls.
THEOREM DamageAlwaysContained == Spec => []DamageContained
<1>1. IInv => DamageContained
  <2> SUFFICES ASSUME IInv, Idle, ops > 0, POINTER \notin hurt, NEW s \in Server
               PROVE  /\ up[s] /\ table[s] # Absent
                      /\ table[s].ptr = want.ptr
                      /\ \A r \in Row \ hurt : table[s].rows[r] = Shares(want.rows[r], s)
    BY DEF DamageContained
  <2>1. ServerOK(s) /\ AppendsDue(s) = 0 /\ \A loc : ~ WriteDue(s, loc)
    BY IdleFact DEF IInv, ServersOK
  <2>2. want.ptr \in Int
    BY SizeAssumption DEF IInv, TypeOK
  <2> QED
    BY <2>1, <2>2 DEF ServerOK
<1> QED
  BY <1>1, TablesInvariant, PTL

=============================================================================
