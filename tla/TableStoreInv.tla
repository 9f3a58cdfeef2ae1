---------------------------- MODULE TableStoreInv ----------------------------
(***************************************************************************)
(* The inductive invariant of TableStore.                                  *)
(***************************************************************************)
EXTENDS TableStore

\* Number of calls of a load.
LoadLength == 3 * (Batches + 1)

\* What is left of a load after its first d calls.
LoadRest(d) == [i \in 1 .. LoadLength - d |-> LoadCall(ops, d + i)]

\* What is left of a single update after its first d calls.
RunRest(loc, d) == [i \in 1 .. 3 - d |-> RunCalls(ops, loc)[d + i]]

\* The client is in a load, of which d calls are done.
InLoad(d) ==
  /\ calls = LoadRest(d)
  /\ want = [rows |-> [r \in Row |-> <<ops, r>>], ptr |-> 0]

\* The client is in an update of loc, of which d calls are done.  An append
\* goes to where the client's own pointer was.
InRun(loc, d) ==
  /\ calls = RunRest(loc, d)
  /\ LET at == IF loc = APPEND_LOC THEN want.ptr - 1 ELSE loc IN
       /\ at >= 0
       /\ at < Window => want.rows[at] = <<ops, 0>>

\* The calls that are left are the end of one operation.
CallsOK ==
  \/ Idle
  \/ /\ ops > 0
     /\ \/ \E d \in 0 .. LoadLength - 1 : InLoad(d)
        \/ \E d \in 0 .. 2, loc \in Row \union {APPEND_LOC} : InRun(loc, d)

\* Calls that server s has not got yet.
CreateDue(s) == \E i \in DOMAIN calls : calls[i].to = s /\ calls[i].phase = 0
WriteDue(s, loc) ==
  \E i \in DOMAIN calls :
    /\ calls[i].to = s /\ calls[i].phase # 0
    /\ \E k \in DOMAIN calls[i].batch : calls[i].batch[k].loc = loc
AppendsDue(s) == IF WriteDue(s, APPEND_LOC) THEN 1 ELSE 0

\* Server s has what the client wants, or will have it after the calls it
\* still gets, except for the rows that lost calls have spoiled.
ServerOK(s) ==
  /\ up[s] /\ table[s] # Absent
  /\ table[s].ptr = want.ptr - AppendsDue(s)
  /\ \A r \in Row \ hurt :
       \/ table[s].rows[r] = Shares(want.rows[r], s)
       \/ WriteDue(s, r)
       \/ WriteDue(s, APPEND_LOC) /\ r = want.ptr - 1

ServersOK ==
  ops > 0 /\ POINTER \notin hurt =>
    \A s \in Server : ~ CreateDue(s) => ServerOK(s)

\* Every append was an operation of its own.
PointersOK ==
  /\ want.ptr <= ops
  /\ \A s \in Server : table[s] # Absent => table[s].ptr + AppendsDue(s) <= ops

IInv == TypeOK /\ CallsOK /\ ServersOK /\ PointersOK
=============================================================================
