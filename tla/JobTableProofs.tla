--------------------------- MODULE JobTableProofs ---------------------------
(* The job table's guarantees, proved for every set of ids, keys and        *)
(* workers, every lease and every backoff ladder.                           *)
EXTENDS JobTable, TLAPS

(* The type, the lease columns and the unique live key hold together: the   *)
(* claim keeps a live row live, and only the index keeps the two statements *)
(* that revive a row (fail, retry) from reviving it beside another.         *)
TableInv == RowOK /\ LeaseMatchesState /\ OneLivePerKey

(* A row whose worker and lease agree with its state.                       *)
Sound(r) ==
    /\ r \in Row
    /\ r.state = "leased" <=> r.worker # NoWorker
    /\ r.left \in -1 .. Lease

LiveState == {"queued", "leased"}

(* The ladder has a rung for every attempt count, 0 included.               *)
LEMMA BackoffIsTime == ASSUME NEW a \in Int PROVE Backoff(a) \in Nat
<1>1. Len(Ladder) \in Nat /\ Len(Ladder) >= 1
  BY TimesAssumption
<1>2. \A n \in 1 .. Len(Ladder) : Ladder[n] \in Nat
  BY TimesAssumption
<1> QED BY <1>1, <1>2 DEF Backoff

(* q is a sound row in state s that an UPDATE advancing the version makes   *)
(* of r.                                                                    *)
Updates(q, r, s) == Sound(q) /\ q.state = s /\ q.key = r.key /\ q.ver = r.ver + 1

LEMMA WrittenSound ==
  ASSUME NEW r, NEW s \in States, NEW wait \in Int, NEW left \in -1 .. Lease,
         NEW att \in Nat, NEW worker \in Workers \cup {NoWorker},
         Sound(r), s = "leased" <=> worker # NoWorker
  PROVE  Updates(Written(r, s, wait, left, att, worker), r, s)
<1> DEFINE q == Written(r, s, wait, left, att, worker)
<1>1. q \in Row
  BY TimesAssumption DEF Written, Sound, Row
<1>2. /\ q.state = s /\ q.worker = worker /\ q.left = left /\ q.key = r.key
      /\ q.ver = r.ver + 1
  BY DEF Written
<1> HIDE DEF q
<1>3. q.state = "leased" <=> q.worker # NoWorker
  BY <1>2
<1>4. Sound(q)
  BY <1>1, <1>2, <1>3 DEF Sound
<1> QED BY <1>2, <1>4 DEF Updates, q

(* The columns of a sound row.                                              *)
LEMMA Columns ==
  ASSUME NEW r, Sound(r)
  PROVE  /\ r.wait \in Int /\ r.att \in Nat /\ r.ver \in Nat
         /\ r.left \in -1 .. Lease /\ 0 \in -1 .. Lease
         /\ r.state # "leased" => r.worker = NoWorker
         /\ r.worker \in Workers \cup {NoWorker}
BY TimesAssumption DEF Sound, Row

(* A write that ends the lease may leave any state but leased.              *)
LEMMA UnleasedSound ==
  ASSUME NEW r, Sound(r), NEW s \in States \ {"leased"}, NEW wait \in Int,
         NEW left \in -1 .. Lease, NEW att \in Nat
  PROVE  Updates(Written(r, s, wait, left, att, NoWorker), r, s)
BY WrittenSound

LEMMA LeasedSound ==
  ASSUME NEW r, Sound(r), NEW w \in Workers, NEW left \in -1 .. Lease
  PROVE  Updates(Leased(r, w, left), r, "leased")
<1>1. r.wait \in Int /\ r.att + 1 \in Nat /\ "leased" \in States /\ w # NoWorker
  BY Columns, WorkersAssumption DEF States
<1> QED BY <1>1, WrittenSound DEF Leased

LEMMA FinishedSound ==
  ASSUME NEW r, Sound(r), NEW s \in {"done", "failed", "dead"}
  PROVE  Updates(Finished(r, s), r, s)
<1>1. s \in States \ {"leased"}
  BY DEF States
<1> QED BY <1>1, Columns, UnleasedSound DEF Finished

LEMMA RequeuedSound ==
  ASSUME NEW r, Sound(r), NEW wait \in Int
  PROVE  Updates(Requeued(r, wait), r, "queued")
<1>1. "queued" \in States \ {"leased"}
  BY DEF States
<1> QED BY <1>1, Columns, UnleasedSound DEF Requeued

LEMMA RetriedSound ==
  ASSUME NEW r, Sound(r), r.state # "leased"
  PROVE  Updates(Retried(r), r, "queued")
<1>1. "queued" \in States \ {"leased"} /\ 0 \in Int /\ 0 \in Nat
  BY DEF States
<1>2. Retried(r) = Written(r, "queued", 0, r.left, 0, NoWorker)
  BY Columns DEF Retried
<1>3. r.left \in -1 .. Lease
  BY Columns
<1> QED BY <1>1, <1>2, <1>3, UnleasedSound

LEMMA ReleasedSound ==
  ASSUME NEW r, Sound(r)
  PROVE  Updates(Released(r), r, "queued")
<1>1. "queued" \in States \ {"leased"}
  BY DEF States
<1> DEFINE att == IF r.att > 0 THEN r.att - 1 ELSE 0
<1>2. att \in Nat
  BY Columns
<1> HIDE DEF att
<1>3. Updates(Written(r, "queued", r.wait, 0, att, NoWorker), r, "queued")
  BY <1>1, <1>2, Columns, UnleasedSound
<1> QED BY <1>3 DEF Released, att

LEMMA NewSound ==
  ASSUME NEW k \in Keys, NEW d \in Delays PROVE Sound(New(k, d)) /\ New(k, d).key = k
<1>1. New(k, d) \in Row
  BY KeysAssumption, WorkersAssumption DEF New, Row, States
<1>2. /\ New(k, d).state = "queued" /\ New(k, d).worker = NoWorker
      /\ New(k, d).left = 0 /\ New(k, d).key = k
  BY DEF New
<1> QED BY <1>1, <1>2, TimesAssumption DEF Sound

LEMMA RenewedSound ==
  ASSUME NEW r, Sound(r)
  PROVE  Sound(Renewed(r)) /\ Renewed(r).key = r.key
<1>1. Renewed(r) \in Row
  BY TimesAssumption DEF Renewed, Sound, Row
<1>2. /\ Renewed(r).state = r.state /\ Renewed(r).worker = r.worker
      /\ Renewed(r).left = Lease /\ Renewed(r).key = r.key
  BY DEF Renewed, Sound, Row
<1> QED BY <1>1, <1>2, TimesAssumption DEF Sound

LEMMA UnusedIsRow == Unused \in Row
BY DEF Unused, Row, States

LEMMA AgedSound ==
  ASSUME NEW r, Sound(r)
  PROVE  Sound(Aged(r)) /\ Aged(r).state = r.state /\ Aged(r).key = r.key
<1> DEFINE wait == IF r.wait > -MaxLate THEN r.wait - 1 ELSE r.wait
           left == IF r.state = "leased" /\ r.left > -1 THEN r.left - 1 ELSE r.left
<1>1. wait \in Int /\ left \in -1 .. Lease /\ left \in Int
  BY TimesAssumption DEF Sound, Row
<1>2. Aged(r) = IF r.state \in {"queued", "leased"}
                THEN [r EXCEPT !.wait = wait, !.left = left] ELSE r
  BY DEF Aged, Sound, Row
<1> HIDE DEF wait, left
<1> DEFINE q == [r EXCEPT !.wait = wait, !.left = left]
<1>3. q \in Row
  BY <1>1 DEF Sound, Row
<1>4. q.state = r.state /\ q.key = r.key /\ q.worker = r.worker /\ q.left = left
  BY DEF Sound, Row
<1>5. Sound(q)
  BY <1>1, <1>3, <1>4 DEF Sound
<1> QED BY <1>2, <1>4, <1>5

(* A write that replaces one row by a sound one, live only where the index  *)
(* allows it, keeps the invariant.                                          *)
LEMMA OneRowWritten ==
  ASSUME TableInv, NEW i \in Ids, NEW r, Sound(r), row' = [row EXCEPT ![i] = r],
         r.state \in LiveState => IndexAllows(i, r.key)
  PROVE  TableInv'
<1> USE DEF TableInv
<1>1. row'[i] = r /\ \A j \in Ids \ {i} : row'[j] = row[j]
  BY DEF RowOK
<1>2. RowOK'
  BY DEF RowOK, Sound
<1>3. LeaseMatchesState'
  BY <1>1 DEF LeaseMatchesState, Sound
<1>4. OneLivePerKey'
  BY <1>1 DEF OneLivePerKey, Live, IndexAllows, LiveState
<1> QED BY <1>2, <1>3, <1>4

(* A live row of the table is one the index allows where it is.             *)
LEMMA LiveIsAllowed ==
  ASSUME OneLivePerKey, NEW i \in Ids, Live(i) PROVE IndexAllows(i, row[i].key)
BY DEF OneLivePerKey, IndexAllows, Live

LEMMA RowsSound == TableInv => \A i \in Ids : Sound(row[i])
BY DEF TableInv, RowOK, LeaseMatchesState, Sound

(* A write to every row at once that changes neither key nor liveness.      *)
LEMMA EveryRowWritten ==
  ASSUME TableInv, NEW f, row' = [i \in Ids |-> f[i]],
         \A i \in Ids : /\ Sound(f[i])
                        /\ f[i].key = row[i].key
                        /\ f[i].state \in LiveState <=> Live(i)
  PROVE  TableInv'
<1>1. RowOK'
  BY DEF RowOK, Sound
<1>2. LeaseMatchesState'
  BY DEF LeaseMatchesState, Sound
<1>3. OneLivePerKey'
  BY DEF OneLivePerKey, Live, TableInv, LiveState
<1> QED BY <1>1, <1>2, <1>3 DEF TableInv

LEMMA TableInvInit == TableInit => TableInv
<1> SUFFICES ASSUME TableInit PROVE TableInv
  OBVIOUS
<1> QED
  BY UnusedIsRow, WorkersAssumption, TimesAssumption
  DEF TableInit, TableInv, RowOK, LeaseMatchesState, OneLivePerKey, Live, Unused

LEMMA TableInvStep == TableInv /\ [TableNext]_row => TableInv'
<1> SUFFICES ASSUME TableInv, [TableNext]_row PROVE TableInv'
  OBVIOUS
<1> USE DEF LiveState
<1>0. \A i \in Ids : Sound(row[i])
  BY RowsSound
<1>1. ASSUME NEW k \in Keys, NEW d \in Delays, Enqueue(k, d) PROVE TableInv'
  <2>1. PICK i \in Ids : IndexAllows(i, k) /\ row' = [row EXCEPT ![i] = New(k, d)]
    BY <1>1 DEF Enqueue
  <2>2. Sound(New(k, d)) /\ New(k, d).key = k
    BY NewSound
  <2> QED BY <2>1, <2>2, OneRowWritten
<1>2. ASSUME NEW w \in Workers, NEW i \in Ids, NEW left \in -1 .. Lease, Claim(w, i, left)
      PROVE TableInv'
  <2>1. Live(i) /\ row' = [row EXCEPT ![i] = Leased(row[i], w, left)]
    BY <1>2 DEF Claim, Runnable, Live
  <2>2. Sound(Leased(row[i], w, left)) /\ Leased(row[i], w, left).key = row[i].key
    BY <1>0, LeasedSound DEF Updates
  <2> QED BY <2>1, <2>2, LiveIsAllowed, OneRowWritten DEF TableInv
<1>3. ASSUME NEW i \in Ids, Heartbeat(i) PROVE TableInv'
  <2>1. Live(i) /\ row' = [row EXCEPT ![i] = Renewed(row[i])]
    BY <1>3 DEF Heartbeat, Live
  <2>2. Sound(Renewed(row[i])) /\ Renewed(row[i]).key = row[i].key
    BY <1>0, <1>3, RenewedSound DEF Heartbeat
  <2> QED BY <2>1, <2>2, LiveIsAllowed, OneRowWritten DEF TableInv
<1>4. ASSUME NEW i \in Ids, NEW s \in {"done", "failed", "dead"},
             row' = [row EXCEPT ![i] = Finished(row[i], s)]
      PROVE TableInv'
  <2>1. Sound(Finished(row[i], s)) /\ Finished(row[i], s).state = s
    BY <1>0, FinishedSound DEF Updates
  <2>2. s \notin LiveState
    OBVIOUS
  <2> QED BY <1>4, <2>1, <2>2, OneRowWritten
<1>5. ASSUME NEW i \in Ids, NEW a \in 0 .. MaxAttempts, Requeue(i, a) PROVE TableInv'
  <2>1. Backoff(a) \in Int
    BY BackoffIsTime
  <2>2. Sound(Requeued(row[i], Backoff(a))) /\ Requeued(row[i], Backoff(a)).key = row[i].key
    BY <1>0, <2>1, RequeuedSound DEF Updates
  <2> QED BY <1>5, <2>2, OneRowWritten DEF Requeue
<1>6. ASSUME NEW i \in Ids, Retry(i) PROVE TableInv'
  <2>1. row[i].state # "leased"
    BY <1>6 DEF Retry
  <2>2. Sound(Retried(row[i])) /\ Retried(row[i]).key = row[i].key
    BY <1>0, <2>1, RetriedSound DEF Updates
  <2> QED BY <1>6, <2>2, OneRowWritten DEF Retry
<1>7. ASSUME NEW i \in Ids, ReleaseOne(i) PROVE TableInv'
  <2>1. Live(i) /\ row' = [row EXCEPT ![i] = Released(row[i])]
    BY <1>7 DEF ReleaseOne, Live
  <2>2. Sound(Released(row[i])) /\ Released(row[i]).key = row[i].key
    BY <1>0, ReleasedSound DEF Updates
  <2> QED BY <2>1, <2>2, LiveIsAllowed, OneRowWritten DEF TableInv
<1>8. ASSUME NEW w \in Workers, Release(w) PROVE TableInv'
  <2> DEFINE f == [i \in Ids |-> IF row[i].state = "leased" /\ row[i].worker = w
                                 THEN Released(row[i]) ELSE row[i]]
  <2>1. \A i \in Ids : Sound(Released(row[i])) /\ Released(row[i]).key = row[i].key
                       /\ Released(row[i]).state = "queued"
    BY <1>0, ReleasedSound DEF Updates
  <2>2. \A i \in Ids : Sound(f[i]) /\ f[i].key = row[i].key
                       /\ (f[i].state \in LiveState <=> Live(i))
    BY <1>0, <2>1 DEF Live
  <2>3. row' = [i \in Ids |-> f[i]]
    BY <1>8 DEF Release
  <2> HIDE DEF f
  <2> QED BY <2>2, <2>3, EveryRowWritten
<1>9. ASSUME NEW i \in Ids, Delete(i) PROVE TableInv'
  <2> DEFINE r == [Unused EXCEPT !.state = "deleted", !.ver = row[i].ver + 1]
  <2>1. Sound(r) /\ r.state = "deleted"
    <3>1. row[i].ver + 1 \in Nat
      BY <1>0 DEF Sound, Row
    <3>2. r \in Row
      BY <3>1, UnusedIsRow DEF Row, States
    <3>3. r.state = "deleted" /\ r.worker = NoWorker /\ r.left = 0
      BY DEF Unused
    <3> HIDE DEF r
    <3> QED BY <3>2, <3>3, TimesAssumption DEF Sound
  <2>2. row' = [row EXCEPT ![i] = r]
    BY <1>9 DEF Delete
  <2> HIDE DEF r
  <2> QED BY <2>1, <2>2, OneRowWritten
<1>10. ASSUME Elapse PROVE TableInv'
  <2> DEFINE f == [i \in Ids |-> Aged(row[i])]
  <2>1. \A i \in Ids : Sound(Aged(row[i])) /\ Aged(row[i]).state = row[i].state
                       /\ Aged(row[i]).key = row[i].key
    BY <1>0, AgedSound
  <2>2. row' = [i \in Ids |-> f[i]]
    BY <1>10 DEF Elapse
  <2>3. \A i \in Ids : Sound(f[i]) /\ f[i].key = row[i].key
                       /\ (f[i].state \in LiveState <=> Live(i))
    BY <2>1 DEF Live
  <2> HIDE DEF f
  <2> QED BY <2>2, <2>3, EveryRowWritten
<1>11. CASE UNCHANGED row
  BY <1>11 DEF TableInv, RowOK, LeaseMatchesState, OneLivePerKey, Live
<1> QED
  BY <1>1, <1>2, <1>3, <1>4, <1>5, <1>6, <1>7, <1>8, <1>9, <1>10, <1>11
  DEF TableNext, Complete, Bury, Cancel

(* The job table keeps its type, its lease columns and one live job per key *)
(* under every order of every operation.                                    *)
THEOREM TableSafe == TableSpec => [](RowOK /\ LeaseMatchesState /\ OneLivePerKey)
<1>1. TableSpec => []TableInv
  BY TableInvInit, TableInvStep, PTL DEF TableSpec
<1> QED BY <1>1, PTL DEF TableInv

(* Every row keeps its types, attempts and versions among the naturals.     *)
THEOREM RowsAreTyped == TableSpec => []RowOK
BY TableSafe, PTL

(* A row names a worker exactly while it is leased, and no lease is longer  *)
(* than Lease: what release by worker name and the claim rest on.           *)
THEOREM LeasesMatch == TableSpec => []LeaseMatchesState
BY TableSafe, PTL

(* One step of the table: a runnable row that keeps its version stays       *)
(* runnable.  Every write but the heartbeat's moves the version, the        *)
(* heartbeat leaves lapsed leases alone, and time only makes rows more      *)
(* runnable.                                                                *)
LEMMA RunnableStep ==
  ASSUME TableInv, [TableNext]_row, NEW i \in Ids, Runnable(i), row'[i].ver = row[i].ver
  PROVE  Runnable(i)'
<1>0. row \in [Ids -> Row] /\ Sound(row[i]) /\ row[i].ver \in Nat
  BY RowsSound, Columns DEF TableInv, RowOK
<1>1. ASSUME NEW j \in Ids, NEW r, row' = [row EXCEPT ![j] = r], j = i => r.ver # row[i].ver
      PROVE Runnable(i)'
  <2>1. ASSUME j = i PROVE FALSE
    <3>1. row'[i] = r
      BY <1>0, <1>1, <2>1
    <3>2. row'[i].ver = row[i].ver
      OBVIOUS
    <3> QED BY <3>1, <3>2, <1>1, <2>1
  <2>2. row'[i] = row[i]
    BY <1>1, <2>1
  <2> QED BY <2>2 DEF Runnable
<1>13. ASSUME NEW j \in Ids, NEW r, NEW s, row' = [row EXCEPT ![j] = r], Updates(r, row[j], s)
      PROVE Runnable(i)'
  <2>1. j = i => r.ver # row[i].ver
    BY <1>0, <1>13 DEF Updates
  <2> QED BY <1>1, <1>13, <2>1
<1>14. \A j \in Ids : Sound(row[j])
  BY RowsSound
<1>2. ASSUME NEW k \in Keys, NEW d \in Delays, Enqueue(k, d) PROVE Runnable(i)'
  <2>1. PICK j \in Ids : row[j].state = "unused" /\ row' = [row EXCEPT ![j] = New(k, d)]
    BY <1>2 DEF Enqueue
  <2>2. j # i
    BY <2>1 DEF Runnable
  <2> QED BY <1>0, <1>1, <2>1, <2>2
<1>3. ASSUME NEW j \in Ids, Heartbeat(j) PROVE Runnable(i)'
  <2>1. j # i
    BY <1>0, <1>3 DEF Heartbeat, Runnable, Sound, Row
  <2>2. row'[i] = row[i]
    BY <1>0, <1>3, <2>1 DEF Heartbeat
  <2> QED BY <2>2 DEF Runnable
<1>4. ASSUME Elapse PROVE Runnable(i)'
  <2>1. row'[i] = Aged(row[i])
    BY <1>4 DEF Elapse
  <2>2. Aged(row[i]).state = row[i].state
    BY <1>0, AgedSound
  <2>3. row[i].wait <= 0 => Aged(row[i]).wait <= 0
    BY <1>0, Columns, TimesAssumption DEF Aged, Sound, Row
  <2>4. row[i].left < 0 => Aged(row[i]).left < 0
    BY <1>0, Columns, TimesAssumption DEF Aged, Sound, Row
  <2> QED BY <2>1, <2>2, <2>3, <2>4 DEF Runnable
<1>5. ASSUME NEW w \in Workers, Release(w) PROVE Runnable(i)'
  <2>1. row'[i] = row[i] \/ row'[i] = Released(row[i])
    BY <1>5 DEF Release
  <2>2. Released(row[i]).ver = row[i].ver + 1
    BY <1>0, ReleasedSound DEF Updates
  <2>3. row'[i] = row[i]
    BY <1>0, <2>1, <2>2
  <2> QED BY <2>3 DEF Runnable
<1>6. ASSUME NEW w \in Workers, NEW j \in Ids, NEW left \in -1 .. Lease, Claim(w, j, left)
      PROVE Runnable(i)'
  <2>1. row' = [row EXCEPT ![j] = Leased(row[j], w, left)]
    BY <1>6 DEF Claim
  <2> QED BY <1>13, <1>14, <2>1, LeasedSound
<1>7. ASSUME NEW j \in Ids, NEW s \in {"done", "failed", "dead"},
             row' = [row EXCEPT ![j] = Finished(row[j], s)]
      PROVE Runnable(i)'
  BY <1>13, <1>14, <1>7, FinishedSound
<1>8. ASSUME NEW j \in Ids, NEW a \in 0 .. MaxAttempts, Requeue(j, a) PROVE Runnable(i)'
  <2>1. row' = [row EXCEPT ![j] = Requeued(row[j], Backoff(a))] /\ Backoff(a) \in Int
    BY <1>8, BackoffIsTime DEF Requeue
  <2> QED BY <1>13, <1>14, <2>1, RequeuedSound
<1>9. ASSUME NEW j \in Ids, Retry(j) PROVE Runnable(i)'
  <2>1. row' = [row EXCEPT ![j] = Retried(row[j])] /\ row[j].state # "leased"
    BY <1>9 DEF Retry
  <2> QED BY <1>13, <1>14, <2>1, RetriedSound
<1>10. ASSUME NEW j \in Ids, ReleaseOne(j) PROVE Runnable(i)'
  <2>1. row' = [row EXCEPT ![j] = Released(row[j])]
    BY <1>10 DEF ReleaseOne
  <2> QED BY <1>13, <1>14, <2>1, ReleasedSound
<1>11. ASSUME NEW j \in Ids, Delete(j) PROVE Runnable(i)'
  <2> DEFINE r == [Unused EXCEPT !.state = "deleted", !.ver = row[j].ver + 1]
  <2>1. row' = [row EXCEPT ![j] = r] /\ r.ver = row[j].ver + 1
    BY <1>11 DEF Delete, Unused
  <2> HIDE DEF r
  <2>2. j = i => r.ver # row[i].ver
    BY <1>0, <2>1
  <2> QED BY <1>1, <2>1, <2>2
<1>12. CASE UNCHANGED row
  BY <1>12 DEF Runnable
<1> QED
  BY <1>2, <1>3, <1>4, <1>5, <1>6, <1>7, <1>8, <1>9, <1>10, <1>11, <1>12
  DEF TableNext, Complete, Bury, Cancel

(* The optimistic claim is safe: what a SELECT found runnable is still      *)
(* runnable when the version-guarded UPDATE finds the version unmoved.      *)
THEOREM RunnableIsStable == TableSpec => RunnableUntilVersionMoves
<1>1. TableInv /\ [TableNext]_row
        => [\A i \in Ids : Runnable(i) /\ row'[i].ver = row[i].ver => Runnable(i)']_row
  BY RunnableStep
<1> QED
  BY <1>1, TableInvInit, TableInvStep, PTL DEF TableSpec, RunnableUntilVersionMoves
=============================================================================
