-------------------------- MODULE JobWorkerProofs ---------------------------
(* The worker loop over the job table, proved for every number of replicas, *)
(* jobs and disturbances: claims are exclusive, a heartbeat that keeps up   *)
(* keeps the job, and the loop's statements do nothing to the table but the *)
(* table's own atomic operations.                                           *)
EXTENDS JobWorker, JobTableProofs

(* What a worker past its SELECT knows of its row.  The third conjunct is   *)
(* why the version guard is enough: unmoved since the SELECT, the row is    *)
(* still runnable.                                                          *)
Knows(w) ==
    wk[w].pc # "idle" =>
      /\ wk[w].id \in Ids /\ Stored(wk[w].id)
      /\ wk[w].ver <= row[wk[w].id].ver
      /\ wk[w].pc = "picked" /\ wk[w].ver = row[wk[w].id].ver => Runnable(wk[w].id)
      /\ Busy(w) /\ wk[w].ver = row[wk[w].id].ver
           => row[wk[w].id].state = "leased" /\ row[wk[w].id].worker = w

Apart(v, w) ==
    Busy(v) /\ Busy(w) /\ wk[v].id = wk[w].id => wk[v].ver # wk[w].ver

WorkerInv ==
    /\ TableInv
    /\ wk \in [Workers -> WorkerState]
    /\ budget \in Nat
    /\ \A w \in Workers : Knows(w)
    /\ \A v, w \in Workers : v # w => Apart(v, w)

(* How a step treats the rows workers may be busy on: none disappears, no   *)
(* version goes back, and a row whose version stays keeps state and holder. *)
Kept ==
    \A i \in Ids : Stored(i) =>
      /\ Stored(i)'
      /\ row'[i].ver >= row[i].ver
      /\ row'[i].ver = row[i].ver =>
           row'[i].state = row[i].state /\ row'[i].worker = row[i].worker

Stable == \A i \in Ids : Runnable(i) /\ row'[i].ver = row[i].ver => Runnable(i)'

(* How a step treats a worker that does not claim: it goes idle, or stays   *)
(* with its row and its claim.                                              *)
Follows(w) ==
    \/ wk'[w].pc = "idle"
    \/ /\ wk[w].pc # "idle" /\ wk'[w].id = wk[w].id /\ wk'[w].ver = wk[w].ver
       /\ wk'[w].pc = "picked" <=> wk[w].pc = "picked"

-----------------------------------------------------------------------------
LEMMA UpdateKeeps ==
  ASSUME TableInv, NEW i \in Ids, NEW r, NEW s \in States \ {"unused", "deleted"},
         row' = [row EXCEPT ![i] = r], Updates(r, row[i], s)
  PROVE  Kept
<1>1. /\ row'[i] = r /\ \A j \in Ids \ {i} : row'[j] = row[j]
      /\ \A j \in Ids : row[j].ver \in Nat
  BY RowsSound, Columns DEF TableInv, RowOK
<1>2. Stored(i)' /\ row'[i].ver = row[i].ver + 1
  BY <1>1 DEF Updates, Stored
<1>3. ASSUME NEW j \in Ids, j # i PROVE Stored(j) => Stored(j)' /\ row'[j] = row[j]
  BY <1>1, <1>3 DEF Stored
<1> QED BY <1>1, <1>2, <1>3 DEF Kept

LEMMA SameRowsKeep == ASSUME TableInv, UNCHANGED row PROVE Kept
<1>1. \A j \in Ids : row[j].ver \in Nat
  BY RowsSound, Columns
<1> QED BY <1>1 DEF Kept, Stored

(* The operations of the table the loop and its clients use: all but        *)
(* Delete and ReleaseOne.                                                   *)
TableTouch ==
    \/ \E k \in Keys, d \in Delays : Enqueue(k, d)
    \/ \E w \in Workers, i \in Ids, left \in -1 .. Lease : Claim(w, i, left)
    \/ \E i \in Ids : Heartbeat(i) \/ Complete(i) \/ Bury(i) \/ Cancel(i) \/ Retry(i)
    \/ \E i \in Ids, a \in 0 .. MaxAttempts : Requeue(i, a)
    \/ \E w \in Workers : Release(w)

TableUse == TableTouch \/ Elapse

LEMMA UseIsTableStep == TableUse => TableNext
BY DEF TableUse, TableTouch, TableNext

LEMMA TableKeeps ==
  ASSUME TableInv, [TableUse]_row PROVE Kept
<1>0. /\ \A i \in Ids : Sound(row[i]) /\ row[i].ver \in Nat
      /\ {"queued", "leased", "done", "failed", "dead"} \subseteq States \ {"unused", "deleted"}
      /\ row \in [Ids -> Row]
  BY RowsSound, Columns DEF States, TableInv, RowOK
<1>1. ASSUME NEW k \in Keys, NEW d \in Delays, Enqueue(k, d) PROVE Kept
  <2>1. PICK i \in Ids : row[i].state = "unused" /\ row' = [row EXCEPT ![i] = New(k, d)]
    BY <1>1 DEF Enqueue
  <2>2. ASSUME NEW j \in Ids, Stored(j) PROVE row'[j] = row[j]
    BY <2>1, <2>2 DEF Stored
  <2> QED BY <1>0, <2>2 DEF Kept, Stored
<1>2. ASSUME NEW w \in Workers, NEW i \in Ids, NEW left \in -1 .. Lease, Claim(w, i, left)
      PROVE Kept
  BY <1>0, <1>2, LeasedSound, UpdateKeeps DEF Claim
<1>3. ASSUME NEW i \in Ids, Heartbeat(i) PROVE Kept
  <2>1. /\ row' = [row EXCEPT ![i] = Renewed(row[i])]
        /\ Renewed(row[i]).state = row[i].state /\ Renewed(row[i]).worker = row[i].worker
        /\ Renewed(row[i]).ver = row[i].ver
    BY <1>0, <1>3 DEF Heartbeat, Renewed, Sound, Row
  <2>2. ASSUME NEW j \in Ids
        PROVE  /\ row'[j].state = row[j].state /\ row'[j].worker = row[j].worker
               /\ row'[j].ver = row[j].ver
    BY <1>0, <2>1
  <2> QED BY <1>0, <2>2 DEF Kept, Stored
<1>4. ASSUME NEW i \in Ids, NEW s \in {"done", "failed", "dead"},
             row' = [row EXCEPT ![i] = Finished(row[i], s)]
      PROVE Kept
  BY <1>0, <1>4, FinishedSound, UpdateKeeps
<1>5. ASSUME NEW i \in Ids, NEW a \in 0 .. MaxAttempts, Requeue(i, a) PROVE Kept
  <2>1. Backoff(a) \in Int
    BY BackoffIsTime
  <2> QED BY <1>0, <1>5, <2>1, RequeuedSound, UpdateKeeps DEF Requeue
<1>6. ASSUME NEW i \in Ids, Retry(i) PROVE Kept
  BY <1>0, <1>6, RetriedSound, UpdateKeeps DEF Retry
<1>8. ASSUME NEW w \in Workers, Release(w) PROVE Kept
  <2>1. ASSUME NEW j \in Ids
        PROVE  row'[j] = row[j] \/ (row'[j].state = "queued" /\ row'[j].ver = row[j].ver + 1)
    BY <1>0, <1>8, ReleasedSound DEF Release, Updates
  <2> QED BY <1>0, <2>1 DEF Kept, Stored
<1>9. ASSUME Elapse PROVE Kept
  <2>1. ASSUME NEW j \in Ids
        PROVE  /\ row'[j].state = row[j].state /\ row'[j].worker = row[j].worker
               /\ row'[j].ver = row[j].ver
    BY <1>0, <1>9 DEF Elapse, Aged, Sound, Row
  <2> QED BY <1>0, <2>1 DEF Kept, Stored
<1>10. CASE UNCHANGED row
  BY <1>10, SameRowsKeep
<1> QED
  BY <1>1, <1>2, <1>3, <1>4, <1>5, <1>6, <1>8, <1>9, <1>10
  DEF TableUse, TableTouch, Complete, Bury, Cancel

LEMMA TableStable == ASSUME TableInv, [TableNext]_row PROVE Stable
BY RunnableStep DEF Stable

(* A worker that follows keeps knowing its row.                             *)
LEMMA FollowerKnows ==
  ASSUME WorkerInv, Kept, Stable, TableInv', NEW w \in Workers, wk'[w] \in WorkerState, Follows(w)
  PROVE  Knows(w)'
<1>1. CASE wk'[w].pc = "idle"
  BY <1>1 DEF Knows
<1>2. CASE wk'[w].pc # "idle"
  <2>0. PICK i \in Ids : i = wk[w].id
    BY <1>2 DEF Follows, Knows, WorkerInv
  <2>1. /\ wk'[w].id = i /\ wk'[w].ver = wk[w].ver
        /\ wk'[w].pc = "picked" => wk[w].pc = "picked"
        /\ Busy(w)' => Busy(w)
    BY <1>2, <2>0 DEF Follows, Busy, WorkerInv, WorkerState
  <2>2. /\ Stored(i) /\ wk[w].ver <= row[i].ver
        /\ wk[w].pc = "picked" /\ wk[w].ver = row[i].ver => Runnable(i)
        /\ Busy(w) /\ wk[w].ver = row[i].ver => row[i].state = "leased" /\ row[i].worker = w
    <3>1. Knows(w) /\ wk[w].pc # "idle"
      BY <1>2 DEF Follows, WorkerInv
    <3> QED BY <2>0, <3>1 DEF Knows
  <2>3. /\ Stored(i)' /\ row'[i].ver >= row[i].ver
        /\ row'[i].ver = row[i].ver =>
             row'[i].state = row[i].state /\ row'[i].worker = row[i].worker
    BY <2>2 DEF Kept
  <2>4. row[i].ver \in Nat /\ row'[i].ver \in Nat /\ wk[w].ver \in Nat
    <3>1. Sound(row[i]) /\ Sound(row[i])'
      BY <2>2, RowsSound DEF WorkerInv, TableInv, RowOK, LeaseMatchesState, Sound
    <3>2. wk[w] \in WorkerState
      BY DEF WorkerInv
    <3> QED BY <3>1, <3>2 DEF Sound, Row, WorkerState
  <2>5. wk[w].ver <= row'[i].ver
        /\ (wk[w].ver = row'[i].ver => row'[i].ver = row[i].ver /\ wk[w].ver = row[i].ver)
    BY <2>2, <2>3, <2>4
  <2>6. wk[w].pc = "picked" /\ wk[w].ver = row'[i].ver => Runnable(i)'
    BY <2>2, <2>5 DEF Stable
  <2>7. Busy(w) /\ wk[w].ver = row'[i].ver => row'[i].state = "leased" /\ row'[i].worker = w
    BY <2>2, <2>3, <2>5
  <2> QED BY <2>0, <2>1, <2>2, <2>3, <2>5, <2>6, <2>7 DEF Knows
<1> QED BY <1>1, <1>2

LEMMA AllFollow ==
  ASSUME WorkerInv, Kept, Stable, TableInv', wk' \in [Workers -> WorkerState], budget' \in Nat,
         \A w \in Workers : Follows(w)
  PROVE  WorkerInv'
<1>1. \A w \in Workers : Knows(w)'
  BY FollowerKnows
<1>2. ASSUME NEW v \in Workers, NEW w \in Workers, v # w PROVE Apart(v, w)'
  <2>1. ASSUME NEW u \in Workers, Busy(u)'
        PROVE  Busy(u) /\ wk'[u].id = wk[u].id /\ wk'[u].ver = wk[u].ver
    BY <2>1 DEF Follows, Busy, WorkerInv, WorkerState
  <2> QED BY <1>2, <2>1 DEF Apart, WorkerInv
<1> QED BY <1>1, <1>2 DEF WorkerInv

-----------------------------------------------------------------------------
LEMMA IdleIsState == Idle \in WorkerState
BY IdsAssumption DEF Idle, WorkerState, Quiet

(* The assignments the steps make to a worker's fields keep its type.       *)
LEMMA PcTyped ==
  ASSUME NEW s \in WorkerState, NEW p \in {"picked", "run", "failing"}
  PROVE  [s EXCEPT !.pc = p] \in WorkerState
BY DEF WorkerState

LEMMA IdTyped ==
  ASSUME NEW s \in WorkerState, NEW i \in Ids PROVE [s EXCEPT !.id = i] \in WorkerState
BY DEF WorkerState

LEMMA VerTyped ==
  ASSUME NEW s \in WorkerState, NEW n \in Nat PROVE [s EXCEPT !.ver = n] \in WorkerState
BY DEF WorkerState

LEMMA LagBeatTyped ==
  ASSUME NEW s \in WorkerState, NEW n \in Nat, NEW b \in Int
  PROVE  [s EXCEPT !.lag = n, !.beat = b] \in WorkerState
BY DEF WorkerState

LEMMA BeatAttTyped ==
  ASSUME NEW s \in WorkerState, NEW n \in Nat, NEW b \in Int
  PROVE  [s EXCEPT !.beat = b, !.att = n] \in WorkerState
BY DEF WorkerState

LEMMA MuteTyped ==
  ASSUME NEW s \in WorkerState PROVE [s EXCEPT !.mute = TRUE] \in WorkerState
BY DEF WorkerState

LEMMA WorkerInvInit == Init => WorkerInv
<1> SUFFICES ASSUME Init PROVE WorkerInv
  OBVIOUS
<1>1. TableInv
  BY TableInvInit DEF Init
<1>2. wk \in [Workers -> WorkerState] /\ \A w \in Workers : wk[w].pc = "idle"
  BY IdleIsState DEF Init, Idle
<1> QED BY <1>1, <1>2, DisturbancesAssumption DEF WorkerInv, Init, Knows, Apart, Busy

LEMMA EveryIsTime == Every \in Nat
BY TimesAssumption DEF Every

LEMMA LeaseLeftIsLease ==
  ASSUME NEW w \in Workers, wk[w] \in WorkerState PROVE LeaseLeft(w) \in -1 .. Lease
BY TimesAssumption DEF LeaseLeft, WorkerState

(* A step of the loop does to the table one of the table's operations, or   *)
(* nothing.  The claim is the step that needs the invariant.                *)
LEMMA StepTouches == ASSUME WorkerInv, [Next]_vars PROVE [TableTouch]_row \/ Tick
<1> USE DEF TableTouch
<1>1. ASSUME NEW k \in Keys, NEW d \in Delays, Submit(k, d) PROVE TableTouch
  BY <1>1 DEF Submit
<1>2. ASSUME NEW i \in Ids, CancelJob(i) \/ RetryJob(i) PROVE TableTouch
  BY <1>2 DEF CancelJob, RetryJob
<1>3. ASSUME NEW w \in Workers, Select(w) \/ Lose(w) \/ FailRead(w) PROVE UNCHANGED row
  BY <1>3 DEF Select, Lose, FailRead
<1>4. ASSUME NEW w \in Workers, BeatLost(w) \/ WriteLost(w) \/ Crash(w) \/ Stall(w)
      PROVE UNCHANGED row
  BY <1>4 DEF BeatLost, WriteLost, Crash, Stall
<1>5. ASSUME NEW w \in Workers, Win(w) PROVE TableTouch
  <2> DEFINE i == wk[w].id
  <2>1. Knows(w) /\ wk[w] \in WorkerState
    BY DEF WorkerInv
  <2>2. i \in Ids /\ Runnable(i)
    BY <1>5, <2>1 DEF Win, Knows
  <2>3. LeaseLeft(w) \in -1 .. Lease
    BY <2>1, LeaseLeftIsLease
  <2>4. Claim(w, i, LeaseLeft(w))
    BY <1>5, <2>2 DEF Win, Claim
  <2> HIDE DEF i
  <2> QED BY <2>2, <2>3, <2>4
<1>6. ASSUME NEW w \in Workers, wk[w].pc # "idle" PROVE wk[w].id \in Ids
  BY <1>6 DEF WorkerInv, Knows
<1>7. ASSUME NEW w \in Workers, Beat(w) PROVE [TableTouch]_row
  BY <1>6, <1>7 DEF Beat
<1>8. ASSUME NEW w \in Workers, Succeed(w) PROVE TableTouch
  BY <1>6, <1>8 DEF Succeed
<1>9. ASSUME NEW w \in Workers, FailWrite(w) PROVE [TableTouch]_row
  <2> DEFINE i == wk[w].id
  <2>1. i \in Ids /\ wk[w] \in WorkerState
    BY <1>6, <1>9 DEF FailWrite, WorkerInv
  <2>2. CASE Bury(i)
    BY <2>1, <2>2
  <2>3. CASE wk[w].att < MaxAttempts /\ Requeue(i, wk[w].att)
    <3>1. wk[w].att \in 0 .. MaxAttempts
      BY <2>1, <2>3, TimesAssumption DEF WorkerState
    <3> QED BY <2>1, <2>3, <3>1
  <2>4. CASE UNCHANGED row
    BY <2>4
  <2>5. \/ Bury(i) \/ UNCHANGED row
        \/ wk[w].att < MaxAttempts /\ Requeue(i, wk[w].att)
    BY <1>9 DEF FailWrite
  <2> QED BY <2>2, <2>3, <2>4, <2>5
<1>10. ASSUME NEW w \in Workers, FireTimers(w) PROVE TableTouch
  BY <1>10, TimersAssumption, KeysAssumption DEF FireTimers
<1>11. ASSUME NEW w \in Workers, Drain(w) PROVE TableTouch
  BY <1>11 DEF Drain
<1>12. CASE UNCHANGED vars
  BY <1>12 DEF vars
<1> QED
  BY <1>1, <1>2, <1>3, <1>4, <1>5, <1>7, <1>8, <1>9, <1>10, <1>11, <1>12
  DEF Next, Work

LEMMA StepIsTableStep == ASSUME WorkerInv, [Next]_vars PROVE [TableUse]_row
BY StepTouches DEF TableUse, Tick

-----------------------------------------------------------------------------
(* The steps that leave every worker with the claim it has, or idle.        *)
LEMMA Moves ==
  ASSUME WorkerInv, NEW w \in Workers, NEW s \in WorkerState, wk' = [wk EXCEPT ![w] = s],
         \/ s.pc = "idle"
         \/ /\ wk[w].pc # "idle" /\ s.id = wk[w].id /\ s.ver = wk[w].ver
            /\ s.pc = "picked" <=> wk[w].pc = "picked"
  PROVE  wk' \in [Workers -> WorkerState] /\ \A v \in Workers : Follows(v)
<1>1. wk' \in [Workers -> WorkerState]
  BY DEF WorkerInv
<1>2. wk'[w] = s /\ \A v \in Workers \ {w} : wk'[v] = wk[v]
  BY DEF WorkerInv
<1>3. Follows(w)
  BY <1>2 DEF Follows
<1>4. ASSUME NEW v \in Workers \ {w} PROVE Follows(v)
  BY <1>2 DEF Follows
<1> QED BY <1>1, <1>3, <1>4

LEMMA Settles ==
  ASSUME WorkerInv, Kept, Stable, TableInv', budget' \in Nat,
         wk' \in [Workers -> WorkerState], \A v \in Workers : Follows(v)
  PROVE  WorkerInv'
BY AllFollow

LEMMA WorkerInvStep == WorkerInv /\ [Next]_vars => WorkerInv'
<1> SUFFICES ASSUME WorkerInv, [Next]_vars PROVE WorkerInv'
  OBVIOUS
<1>1. TableInv /\ [TableUse]_row /\ [TableNext]_row
  BY StepIsTableStep, UseIsTableStep DEF WorkerInv
<1>2. Kept /\ Stable /\ TableInv'
  BY <1>1, TableKeeps, TableStable, TableInvStep
<1>3. wk \in [Workers -> WorkerState] /\ budget \in Nat /\ Idle \in WorkerState /\ Idle.pc = "idle"
  BY IdleIsState DEF WorkerInv, Idle
<1>4. ASSUME UNCHANGED wk, budget' \in Nat PROVE WorkerInv'
  <2>1. \A v \in Workers : Follows(v)
    BY <1>4 DEF Follows
  <2> QED BY <1>2, <1>3, <1>4, <2>1, AllFollow
<1>5. ASSUME NEW w \in Workers, NEW s \in WorkerState, wk' = [wk EXCEPT ![w] = s],
             budget' \in Nat,
             \/ s.pc = "idle"
             \/ /\ wk[w].pc # "idle" /\ s.id = wk[w].id /\ s.ver = wk[w].ver
                /\ s.pc = "picked" <=> wk[w].pc = "picked"
      PROVE WorkerInv'
  BY <1>2, <1>5, Moves, AllFollow
<1>6. ASSUME NEW kind, Spend(kind) PROVE budget' \in Nat
  BY <1>3, <1>6 DEF Spend
<1>7. ASSUME NEW k \in Keys, NEW d \in Delays, Submit(k, d) PROVE WorkerInv'
  BY <1>3, <1>4, <1>7 DEF Submit
<1>8. ASSUME NEW i \in Ids, CancelJob(i) \/ RetryJob(i) PROVE WorkerInv'
  BY <1>4, <1>6, <1>8 DEF CancelJob, RetryJob
<1>9. ASSUME NEW w \in Workers, FireTimers(w) PROVE WorkerInv'
  BY <1>3, <1>4, <1>9 DEF FireTimers
<1>10. ASSUME NEW w \in Workers, Drain(w) PROVE WorkerInv'
  BY <1>4, <1>6, <1>10 DEF Drain
<1>11. ASSUME NEW w \in Workers, Lose(w) \/ Succeed(w) \/ FailWrite(w) PROVE WorkerInv'
  BY <1>3, <1>5, <1>11 DEF Lose, Succeed, FailWrite, Become
<1>12. ASSUME NEW w \in Workers, WriteLost(w) \/ Crash(w) PROVE WorkerInv'
  BY <1>3, <1>5, <1>6, <1>12 DEF WriteLost, Crash, Become
<1>13. ASSUME NEW w \in Workers, Stall(w) PROVE WorkerInv'
  <2>1. [wk[w] EXCEPT !.slow = TRUE] \in WorkerState
    BY <1>3 DEF WorkerState
  <2>2. wk' = [wk EXCEPT ![w] = [wk[w] EXCEPT !.slow = TRUE]] /\ wk[w].pc # "idle"
    BY <1>3, <1>13 DEF Stall
  <2> QED BY <1>3, <1>5, <1>6, <1>13, <2>1, <2>2 DEF Stall, WorkerState
<1>14. ASSUME NEW w \in Workers, Beat(w) PROVE WorkerInv'
  <2>1. PICK b \in {Every, Quiet} : wk' = [wk EXCEPT ![w] = [wk[w] EXCEPT !.beat = b]]
    BY <1>14 DEF Beat, Become
  <2>2. [wk[w] EXCEPT !.beat = b] \in WorkerState
    BY <1>3, EveryIsTime DEF WorkerState, Quiet
  <2> QED BY <1>3, <1>5, <1>14, <2>1, <2>2 DEF Beat, WorkerState
<1>15. ASSUME NEW w \in Workers, FailRead(w) PROVE WorkerInv'
  <2> DEFINE s == [wk[w] EXCEPT !.pc = "failing", !.beat = Quiet, !.att = row[wk[w].id].att]
  <2>1. row[wk[w].id].att \in Nat
    <3>1. Knows(w) /\ wk[w].pc # "idle"
      BY <1>15 DEF FailRead, WorkerInv
    <3> QED BY <1>1, <3>1, RowsSound, Columns DEF Knows
  <2>2. [wk[w] EXCEPT !.pc = "failing"] \in WorkerState
    BY <1>3, PcTyped
  <2>3. [[wk[w] EXCEPT !.pc = "failing"] EXCEPT !.beat = Quiet, !.att = row[wk[w].id].att]
          \in WorkerState
    <3>1. Quiet \in Int
      BY DEF Quiet
    <3> QED BY <2>1, <2>2, <3>1, BeatAttTyped
  <2>4. s \in WorkerState
    BY <2>3
  <2>5. s.pc = "failing" /\ s.id = wk[w].id /\ s.ver = wk[w].ver
    BY <1>3 DEF WorkerState
  <2>6. wk' = [wk EXCEPT ![w] = s] /\ wk[w].pc = "run" /\ budget' = budget
    BY <1>15 DEF FailRead, Become
  <2> HIDE DEF s
  <2> QED BY <1>3, <1>5, <2>4, <2>5, <2>6
<1>16. CASE Tick
  <2>1. \A v \in Workers : WorkerAged(wk[v]) \in WorkerState
    <3> TAKE v \in Workers
    <3>1. wk[v] \in WorkerState /\ wk[v].lag \in Nat /\ wk[v].beat \in Int
      BY <1>3 DEF WorkerState
    <3> DEFINE lag == IF wk[v].pc = "picked" /\ wk[v].lag <= Lease
                      THEN wk[v].lag + 1 ELSE wk[v].lag
               beat == IF wk[v].beat > 0 THEN wk[v].beat - 1 ELSE wk[v].beat
    <3>2. lag \in Nat /\ beat \in Int
      BY <3>1
    <3>3. WorkerAged(wk[v]) = [wk[v] EXCEPT !.lag = lag, !.beat = beat]
      BY <3>1 DEF WorkerAged
    <3> HIDE DEF lag, beat
    <3> QED BY <3>1, <3>2, <3>3, LagBeatTyped
  <2>2. \A v \in Workers : /\ wk'[v] = WorkerAged(wk[v])
                           /\ WorkerAged(wk[v]).pc = wk[v].pc
                           /\ WorkerAged(wk[v]).id = wk[v].id
                           /\ WorkerAged(wk[v]).ver = wk[v].ver
    BY <1>3, <1>16 DEF Tick, WorkerAged, WorkerState
  <2>3. wk' \in [Workers -> WorkerState] /\ \A v \in Workers : Follows(v)
    BY <1>16, <2>1, <2>2 DEF Tick, Follows
  <2> QED BY <1>2, <1>3, <1>16, <2>3, AllFollow DEF Tick
<1>17. ASSUME NEW w \in Workers, Select(w) PROVE WorkerInv'
  <2>1. PICK i \in Ids :
          /\ Runnable(i)
          /\ wk' = [wk EXCEPT ![w] = [Idle EXCEPT !.pc = "picked", !.id = i, !.ver = row[i].ver]]
    BY <1>17 DEF Select, Candidate, Become
  <2> DEFINE s == [Idle EXCEPT !.pc = "picked", !.id = i, !.ver = row[i].ver]
  <2>2. row[i].ver \in Nat
    BY <1>1, RowsSound, Columns
  <2>3. s \in WorkerState /\ s.pc = "picked" /\ s.id = i /\ s.ver = row[i].ver
    <3>1. [Idle EXCEPT !.pc = "picked"] \in WorkerState
      BY IdleIsState, PcTyped
    <3>2. [[Idle EXCEPT !.pc = "picked"] EXCEPT !.id = i] \in WorkerState
      BY <3>1, IdTyped
    <3>3. [[[Idle EXCEPT !.pc = "picked"] EXCEPT !.id = i] EXCEPT !.ver = row[i].ver]
            \in WorkerState
      BY <2>2, <3>2, VerTyped
    <3> QED BY <3>3 DEF Idle
  <2>4. wk' \in [Workers -> WorkerState] /\ wk'[w] = s
        /\ \A v \in Workers \ {w} : wk'[v] = wk[v]
    BY <1>3, <2>1, <2>3
  <2>5. row' = row /\ budget' = budget
    BY <1>17 DEF Select
  <2> HIDE DEF s
  <2>6. Knows(w)'
    BY <2>1, <2>2, <2>3, <2>4, <2>5 DEF Knows, Busy, Stored, Runnable
  <2>7. ASSUME NEW v \in Workers \ {w} PROVE Knows(v)'
    BY <1>2, <2>4, FollowerKnows DEF Follows
  <2>8. ASSUME NEW u \in Workers, NEW v \in Workers, u # v PROVE Apart(u, v)'
    BY <2>3, <2>4, <2>8 DEF Apart, Busy, WorkerInv
  <2> QED BY <1>2, <1>3, <2>4, <2>5, <2>6, <2>7, <2>8 DEF WorkerInv
<1>18. ASSUME NEW w \in Workers, Win(w) PROVE WorkerInv'
  <2>0. PICK i \in Ids : i = wk[w].id
    BY <1>18 DEF Win, WorkerInv, Knows
  <2> DEFINE s == [wk[w] EXCEPT !.pc = "run", !.ver = @ + 1, !.lag = 0, !.beat = Every]
  <2>1. /\ wk[w].pc = "picked" /\ row[i].ver = wk[w].ver /\ Stored(i)
        /\ row' = [row EXCEPT ![i] = Leased(row[i], w, LeaseLeft(w))]
        /\ wk' = [wk EXCEPT ![w] = s] /\ budget' = budget
    BY <1>18, <2>0 DEF Win, Become
  <2>2. /\ row'[i].state = "leased" /\ row'[i].ver = row[i].ver + 1 /\ row'[i].worker = w
        /\ row[i].ver \in Nat
    <3>1. Sound(row[i]) /\ row \in [Ids -> Row]
      BY <1>1, RowsSound DEF TableInv, RowOK
    <3>2. row'[i] = Leased(row[i], w, LeaseLeft(w))
      BY <2>1, <3>1
    <3> QED BY <3>1, <3>2, Columns DEF Leased, Written
  <2>3. [wk[w] EXCEPT !.pc = "run"] \in WorkerState /\ wk[w].ver + 1 \in Nat
    <3>1. wk[w] \in WorkerState
      BY <1>3
    <3>2. [wk[w] EXCEPT !.pc = "run"] \in WorkerState
      BY <3>1, PcTyped
    <3> QED BY <2>1, <2>2, <3>2
  <2>4. [[wk[w] EXCEPT !.pc = "run"] EXCEPT !.ver = wk[w].ver + 1] \in WorkerState
    BY <2>3, VerTyped
  <2>5. s \in WorkerState
    <3>1. [[[wk[w] EXCEPT !.pc = "run"] EXCEPT !.ver = wk[w].ver + 1]
             EXCEPT !.lag = 0, !.beat = Every] \in WorkerState
      <4>1. Every \in Int /\ 0 \in Nat
        BY EveryIsTime
      <4> QED BY <2>4, <4>1, LagBeatTyped
    <3> QED BY <3>1
  <2>6. s.pc = "run" /\ s.id = i /\ s.ver = row'[i].ver
    BY <1>3, <2>0, <2>1, <2>2 DEF WorkerState
  <2>7. wk' \in [Workers -> WorkerState] /\ wk'[w] = s
        /\ \A v \in Workers \ {w} : wk'[v] = wk[v]
    BY <1>3, <2>1, <2>5
  <2> HIDE DEF s
  <2>8. Knows(w)'
    BY <2>2, <2>6, <2>7 DEF Knows, Busy, Stored
  <2>9. ASSUME NEW v \in Workers \ {w} PROVE Knows(v)'
    BY <1>2, <2>7, FollowerKnows DEF Follows
  <2>10. ASSUME NEW v \in Workers \ {w}, Busy(v)', wk'[v].id = wk'[w].id
         PROVE  wk'[v].ver # wk'[w].ver
    <3>1. Busy(v) /\ wk[v].id = i /\ wk'[v].ver = wk[v].ver
      BY <2>6, <2>7, <2>10 DEF Busy
    <3>2. wk[v].ver <= row[i].ver /\ wk[v].ver \in Nat
      BY <1>3, <3>1 DEF WorkerInv, Knows, Busy, WorkerState
    <3> QED BY <2>2, <2>6, <2>7, <3>1, <3>2
  <2>11. ASSUME NEW u \in Workers, NEW v \in Workers, u # v PROVE Apart(u, v)'
    <3>1. CASE u # w /\ v # w
      BY <2>7, <2>11, <3>1 DEF Apart, Busy, WorkerInv
    <3>2. CASE u = w \/ v = w
      BY <2>10, <2>11, <3>2 DEF Apart
    <3> QED BY <3>1, <3>2
  <2> QED BY <1>2, <1>3, <2>1, <2>7, <2>8, <2>9, <2>11 DEF WorkerInv
<1>19. ASSUME NEW w \in Workers, BeatLost(w) PROVE WorkerInv'
  <2> DEFINE s == [wk[w] EXCEPT !.beat = Quiet, !.mute = TRUE]
  <2>1. [wk[w] EXCEPT !.beat = Quiet] \in WorkerState
    BY <1>3 DEF WorkerState, Quiet
  <2>2. [[wk[w] EXCEPT !.beat = Quiet] EXCEPT !.mute = TRUE] \in WorkerState
    BY <2>1, MuteTyped
  <2>3. s \in WorkerState
    BY <2>2
  <2>4. s.pc = wk[w].pc /\ s.id = wk[w].id /\ s.ver = wk[w].ver
    BY <1>3 DEF WorkerState
  <2>5. wk' = [wk EXCEPT ![w] = s] /\ wk[w].pc = "run"
    BY <1>19 DEF BeatLost, Become
  <2> HIDE DEF s
  <2> QED BY <1>3, <1>5, <1>6, <1>19, <2>3, <2>4, <2>5 DEF BeatLost
<1>20. CASE UNCHANGED vars
  BY <1>3, <1>4, <1>20 DEF vars
<1> QED
  BY <1>7, <1>8, <1>9, <1>10, <1>11, <1>12, <1>13, <1>14, <1>15, <1>16, <1>17, <1>18, <1>19, <1>20
  DEF Next, Work

-----------------------------------------------------------------------------
(* The worker loop never leaves its types.                                  *)
THEOREM WorkerTypeOK == Spec => []TypeOK
<1>1. WorkerInv => TypeOK
  BY DEF WorkerInv, TypeOK, TableInv
<1> QED BY <1>1, WorkerInvInit, WorkerInvStep, PTL DEF Spec

(* However replicas race, crash, stall and drain, two handlers on one job   *)
(* hold it from different claims, and only the last claim holds the lease.  *)
THEOREM ExclusiveClaims == Spec => []ClaimsAreExclusive
<1>1. WorkerInv => ClaimsAreExclusive
  BY DEF WorkerInv, ClaimsAreExclusive, Knows, Apart, Busy
<1> QED BY <1>1, WorkerInvInit, WorkerInvStep, PTL DEF Spec

(* The loop, statement by statement, implements the table whose operations  *)
(* are atomic: in particular every claim takes a row that is runnable when  *)
(* it takes it.                                                             *)
THEOREM LoopImplementsTable == Spec => TableSpec
<1>1. Init => TableInit
  BY DEF Init
<1>2. WorkerInv /\ [Next]_vars => [TableNext]_row
  BY StepIsTableStep, UseIsTableStep
<1> QED BY <1>1, <1>2, WorkerInvInit, WorkerInvStep, PTL DEF Spec, TableSpec

-----------------------------------------------------------------------------
(* A job that is over changes by a retry or by a late handler only.         *)

LEMMA OverStep ==
    ASSUME WorkerInv, [Next]_vars, NEW i \in Ids, Over(i), row'[i] # row[i]
    PROVE  RetryJob(i) \/ LateEnd(i)
<1> USE DEF Over
<1>1. row \in [Ids -> Row]
  BY DEF WorkerInv, TableInv, RowOK
<1>2. ASSUME NEW k \in Keys, NEW d \in Delays, Enqueue(k, d) PROVE FALSE
  BY <1>1, <1>2 DEF Enqueue
<1>3. ASSUME NEW j \in Ids, CancelJob(j) PROVE FALSE
  BY <1>1, <1>3 DEF CancelJob, Cancel, Live
<1>4. ASSUME NEW j \in Ids, RetryJob(j) PROVE RetryJob(i)
  <2>1. i = j
    BY <1>1, <1>4 DEF RetryJob, Retry
  <2> QED BY <1>4, <2>1
<1>5. ASSUME NEW w \in Workers,
             \/ Select(w) \/ Lose(w) \/ FailRead(w)
             \/ BeatLost(w) \/ WriteLost(w) \/ Crash(w) \/ Stall(w)
      PROVE FALSE
  BY <1>5 DEF Select, Lose, FailRead, BeatLost, WriteLost, Crash, Stall
<1>6. ASSUME NEW w \in Workers, Win(w) PROVE FALSE
  <2>1. Runnable(wk[w].id) /\ row' = [row EXCEPT ![wk[w].id] = Leased(@, w, LeaseLeft(w))]
    BY <1>6 DEF WorkerInv, Knows, Win
  <2> QED BY <1>1, <2>1 DEF Runnable
<1>7. ASSUME NEW w \in Workers, Beat(w) PROVE FALSE
  BY <1>1, <1>7 DEF Beat, Heartbeat
<1>8. ASSUME NEW w \in Workers, Succeed(w) \/ FailWrite(w) PROVE LateEnd(i)
  <2>1. Busy(w)
    BY <1>8 DEF Succeed, FailWrite, Busy
  <2>2. wk[w].id = i
    BY <1>1, <1>8 DEF Succeed, FailWrite, Complete, Bury, Requeue
  <2>3. Knows(w) /\ wk[w].pc # "idle"
    BY <2>1 DEF WorkerInv, Busy
  <2>4. wk[w].ver <= row[i].ver /\ wk[w].ver # row[i].ver
    BY <2>1, <2>2, <2>3 DEF Knows
  <2>5. wk[w].ver \in Nat /\ row[i].ver \in Nat
    BY <1>1 DEF WorkerInv, WorkerState, Row
  <2>6. wk[w].ver < row[i].ver
    BY <2>4, <2>5
  <2> QED BY <1>8, <2>1, <2>2, <2>6 DEF LateEnd
<1>9. ASSUME NEW w \in Workers, Drain(w) PROVE FALSE
  BY <1>1, <1>9 DEF Drain, Release
<1>10. CASE Tick
  <2>1. row' = [j \in Ids |-> Aged(row[j])]
    BY <1>10 DEF Tick, Elapse
  <2>2. Aged(row[i]) = row[i]
    BY DEF Aged
  <2> QED BY <2>1, <2>2
<1>11. CASE UNCHANGED vars
  BY <1>11 DEF vars
<1>12. ASSUME NEW w \in Workers, FireTimers(w) PROVE FALSE
  BY <1>2, <1>12, TimersAssumption, KeysAssumption DEF FireTimers
<1> QED
  BY <1>2, <1>3, <1>4, <1>5, <1>6, <1>7, <1>8, <1>9, <1>10, <1>11, <1>12
  DEF Next, Work, Submit

(* A finished, cancelled or dead job is written again by an operator's      *)
(* retry, and otherwise only by the late end of a handler whose claim is    *)
(* older than the row (jobs.rs:385), for any number of replicas.            *)
THEOREM OverStaysOver == Spec => FinishedStays
<1>1. WorkerInv /\ [Next]_vars
        => [\A i \in Ids : Over(i) /\ row'[i] # row[i] => RetryJob(i) \/ LateEnd(i)]_vars
  BY OverStep
<1> QED BY <1>1, WorkerInvInit, WorkerInvStep, PTL DEF Spec, FinishedStays

-----------------------------------------------------------------------------
(* The heartbeat keeps ahead of the lease.                                  *)

(* A lease of the same claim does not shrink but by the clock.              *)
LeaseKept ==
    \A i \in Ids : row[i].state = "leased" /\ row'[i].ver = row[i].ver =>
        row'[i].left = row[i].left \/ row'[i].left = Lease

LEMMA TouchKeepsLease == ASSUME TableInv, [TableTouch]_row PROVE LeaseKept
<1>0. /\ \A i \in Ids : Sound(row[i]) /\ row[i].ver \in Nat
      /\ row \in [Ids -> Row]
  BY RowsSound, Columns DEF TableInv, RowOK
<1>1. ASSUME NEW i \in Ids, NEW r, row' = [row EXCEPT ![i] = r],
             r.ver = row[i].ver + 1 \/ row[i].state # "leased"
      PROVE  LeaseKept
  <2>1. row'[i] = r /\ \A j \in Ids \ {i} : row'[j] = row[j]
    BY <1>0, <1>1
  <2>2. row[i].ver + 1 # row[i].ver
    BY <1>0
  <2> QED BY <1>1, <2>1, <2>2 DEF LeaseKept
<1>2. ASSUME NEW k \in Keys, NEW d \in Delays, Enqueue(k, d) PROVE LeaseKept
  <2>1. PICK i \in Ids : row[i].state = "unused" /\ row' = [row EXCEPT ![i] = New(k, d)]
    BY <1>2 DEF Enqueue
  <2> QED BY <1>1, <2>1
<1>3. ASSUME NEW w \in Workers, NEW i \in Ids, NEW left \in -1 .. Lease, Claim(w, i, left)
      PROVE LeaseKept
  BY <1>0, <1>1, <1>3, LeasedSound DEF Claim, Updates
<1>4. ASSUME NEW i \in Ids, Heartbeat(i) PROVE LeaseKept
  <2>1. row' = [row EXCEPT ![i] = Renewed(row[i])] /\ Renewed(row[i]).left = Lease
    BY <1>0, <1>4 DEF Heartbeat, Renewed, Row
  <2>2. row'[i].left = Lease /\ \A j \in Ids \ {i} : row'[j] = row[j]
    BY <1>0, <2>1
  <2> QED BY <2>2 DEF LeaseKept
<1>5. ASSUME NEW i \in Ids, NEW s \in {"done", "failed", "dead"},
             row' = [row EXCEPT ![i] = Finished(row[i], s)]
      PROVE LeaseKept
  BY <1>0, <1>1, <1>5, FinishedSound DEF Updates
<1>6. ASSUME NEW i \in Ids, NEW a \in 0 .. MaxAttempts, Requeue(i, a) PROVE LeaseKept
  <2>1. Backoff(a) \in Int
    BY BackoffIsTime
  <2> QED BY <1>0, <1>1, <1>6, <2>1, RequeuedSound DEF Requeue, Updates
<1>7. ASSUME NEW i \in Ids, Retry(i) PROVE LeaseKept
  BY <1>0, <1>1, <1>7 DEF Retry
<1>8. ASSUME NEW w \in Workers, Release(w) PROVE LeaseKept
  <2>1. ASSUME NEW j \in Ids PROVE row'[j] = row[j] \/ row'[j].ver = row[j].ver + 1
    BY <1>0, <1>8, ReleasedSound DEF Release, Updates
  <2>2. \A j \in Ids : row[j].ver + 1 # row[j].ver
    BY <1>0
  <2> QED BY <2>1, <2>2 DEF LeaseKept
<1>9. CASE UNCHANGED row
  BY <1>9 DEF LeaseKept
<1> QED
  BY <1>2, <1>3, <1>4, <1>5, <1>6, <1>7, <1>8, <1>9
  DEF TableTouch, Complete, Bury, Cancel

(* What a worker that is not held up knows of time: it claims in the tick   *)
(* of its SELECT, and, no renewal of it having failed, its heartbeat is due *)
(* before its lease runs out.                                               *)
Fresh(w) ==
    /\ wk[w].pc = "picked" /\ ~wk[w].slow => wk[w].lag = 0
    /\ wk[w].beat <= Every
    /\ Busy(w) /\ ~wk[w].slow /\ ~wk[w].mute /\ wk[w].ver = row[wk[w].id].ver =>
         /\ row[wk[w].id].left >= 0
         /\ wk[w].pc = "run" => 0 <= wk[w].beat /\ wk[w].beat <= row[wk[w].id].left

FreshInv == WorkerInv /\ \A w \in Workers : Fresh(w)

LEMMA EveryInLease == Every \in Nat /\ Lease \in Nat /\ Every <= Lease
BY TimesAssumption DEF Every

LEMMA IdleIsFresh == ASSUME NEW w \in Workers, wk'[w] = Idle PROVE Fresh(w)'
BY EveryInLease DEF Fresh, Idle, Quiet, Busy

(* A worker that does not move, under another's step.                       *)
LEMMA StaysFresh ==
    ASSUME FreshInv, Kept, LeaseKept, NEW w \in Workers, wk'[w] = wk[w]
    PROVE  Fresh(w)'
<1>1. Fresh(w) /\ Knows(w) /\ wk[w] \in WorkerState
  BY DEF FreshInv, WorkerInv
<1>2. CASE ~Busy(w)
  BY <1>1, <1>2 DEF Fresh, Busy
<1>3. CASE Busy(w)
  <2>1. PICK i \in Ids : i = wk[w].id /\ Stored(i) /\ wk[w].ver <= row[i].ver
    BY <1>1, <1>3 DEF Knows, Busy
  <2>2. row'[i].ver >= row[i].ver /\ row[i].ver \in Nat /\ wk[w].ver \in Nat
    BY <1>1, <2>1, RowsSound, Columns DEF Kept, FreshInv, WorkerInv, WorkerState
  <2>3. CASE row'[i].ver = wk[w].ver
    <3>1. row'[i].ver = row[i].ver
      <4>1. row'[i].ver <= row[i].ver
        BY <2>1, <2>3
      <4> QED BY <2>1, <2>2, <2>3, <4>1
    <3>2. row[i].state = "leased"
      BY <1>1, <1>3, <2>1, <2>3, <3>1 DEF Knows, Busy
    <3>3. row'[i].left = row[i].left \/ row'[i].left = Lease
      BY <3>1, <3>2 DEF LeaseKept
    <3>4. wk[w].beat \in Int /\ Lease >= 0 /\ Every <= Lease /\ Every \in Nat /\ Lease \in Nat
      BY <1>1, EveryInLease DEF WorkerState
    <3> QED BY <1>1, <2>1, <2>3, <3>1, <3>3, <3>4 DEF Fresh, Busy
  <2>4. CASE row'[i].ver # wk[w].ver
    BY <1>1, <2>1, <2>4 DEF Fresh, Busy
  <2> QED BY <2>3, <2>4
<1> QED BY <1>2, <1>3

LEMMA InitFresh == Init => FreshInv
<1>1. Init => \A w \in Workers : Fresh(w)
  BY EveryInLease DEF Init, Fresh, Idle, Quiet, Busy
<1> QED BY <1>1, WorkerInvInit DEF FreshInv
LEMMA TickFresh == ASSUME FreshInv, Tick, NEW w \in Workers PROVE Fresh(w)'
<1>1. Fresh(w) /\ Knows(w) /\ wk[w] \in WorkerState /\ wk[w].lag \in Nat /\ wk[w].beat \in Int
  BY DEF FreshInv, WorkerInv, WorkerState
<1>2. Prompt(w) /\ wk'[w] = WorkerAged(wk[w])
  BY DEF Tick
<1>3. /\ wk'[w].pc = wk[w].pc /\ wk'[w].id = wk[w].id /\ wk'[w].ver = wk[w].ver
      /\ wk'[w].slow = wk[w].slow /\ wk'[w].mute = wk[w].mute
      /\ wk'[w].beat = IF wk[w].beat > 0 THEN wk[w].beat - 1 ELSE wk[w].beat
  BY <1>1, <1>2 DEF WorkerAged, WorkerState
<1>4. wk'[w].beat <= Every
  BY <1>1, <1>3, EveryInLease DEF Fresh
<1>5. CASE wk[w].slow
  BY <1>3, <1>4, <1>5 DEF Fresh
<1>6. CASE ~wk[w].slow /\ wk[w].pc = "idle"
  BY <1>3, <1>4, <1>6 DEF Fresh, Busy
<1>8. CASE wk[w].mute /\ wk[w].pc = "run"
  BY <1>1, <1>3, <1>4, <1>8 DEF Fresh
<1>7. CASE ~wk[w].slow /\ ~wk[w].mute /\ wk[w].pc = "run" /\ wk[w].beat # 0
  <2>1. PICK i \in Ids : i = wk[w].id
    BY <1>1, <1>7 DEF Knows
  <2>2. Sound(row[i]) /\ row[i].left \in Int /\ row'[i] = Aged(row[i]) /\ row[i] \in Row
    BY RowsSound, Columns DEF FreshInv, WorkerInv, Tick, Elapse, Sound
  <2>3. row'[i].ver = row[i].ver /\ (row[i].state = "leased" /\ row[i].left > -1
          => row'[i].left = row[i].left - 1)
    BY <2>2 DEF Aged, Row
  <2>4. CASE wk[w].ver = row[i].ver
    <3>1. /\ row[i].state = "leased" /\ 0 <= wk[w].beat /\ wk[w].beat <= row[i].left
      BY <1>1, <1>7, <2>1, <2>4 DEF Knows, Fresh, Busy
    <3>2. row'[i].left = row[i].left - 1 /\ wk'[w].beat = wk[w].beat - 1 /\ wk[w].beat >= 1
      BY <1>1, <1>3, <1>7, <2>2, <2>3, <3>1
    <3>3. row'[i].left >= 0 /\ 0 <= wk'[w].beat /\ wk'[w].beat <= row'[i].left
      BY <1>1, <2>2, <3>1, <3>2
    <3> QED BY <1>3, <1>4, <1>7, <2>1, <3>3 DEF Fresh
  <2>5. CASE wk[w].ver # row[i].ver
    BY <1>3, <1>4, <1>7, <2>1, <2>3, <2>5 DEF Fresh
  <2> QED BY <2>4, <2>5
<1> QED BY <1>1, <1>2, <1>5, <1>6, <1>7, <1>8 DEF Prompt, WorkerState

(* The step of a worker itself.                                             *)
LEMMA OwnStepFresh ==
    ASSUME FreshInv, NEW w \in Workers,
           Work(w) \/ BeatLost(w) \/ WriteLost(w) \/ Crash(w) \/ Stall(w)
    PROVE  Fresh(w)' /\ \A v \in Workers \ {w} : wk'[v] = wk[v]
<1>1. Fresh(w) /\ Knows(w) /\ wk[w] \in WorkerState /\ wk \in [Workers -> WorkerState]
  BY DEF FreshInv, WorkerInv
<1>2. ASSUME NEW s, wk' = [wk EXCEPT ![w] = s]
      PROVE  wk'[w] = s /\ \A v \in Workers \ {w} : wk'[v] = wk[v]
  BY <1>1, <1>2
<1>3. CASE Lose(w) \/ Succeed(w) \/ FailWrite(w) \/ WriteLost(w) \/ Crash(w)
  <2>1. wk' = [wk EXCEPT ![w] = Idle]
    BY <1>3 DEF Lose, Succeed, FailWrite, WriteLost, Crash, Become
  <2> QED BY <1>2, <2>1, IdleIsFresh
<1>4. CASE Select(w)
  <2>1. PICK i \in Ids :
          wk' = [wk EXCEPT ![w] = [Idle EXCEPT !.pc = "picked", !.id = i, !.ver = row[i].ver]]
    BY <1>4 DEF Select, Become
  <2> DEFINE s == [Idle EXCEPT !.pc = "picked", !.id = i, !.ver = row[i].ver]
  <2>2. s.pc = "picked" /\ s.lag = 0 /\ s.beat = -1
    BY DEF Idle, Quiet
  <2> HIDE DEF s
  <2>3. wk'[w] = s /\ \A v \in Workers \ {w} : wk'[v] = wk[v]
    BY <1>2, <2>1 DEF s
  <2> QED BY <2>2, <2>3, EveryInLease DEF Fresh, Busy
<1>5. CASE Stall(w)
  <2>1. /\ wk'[w].slow = TRUE /\ wk'[w].beat = wk[w].beat
        /\ \A v \in Workers \ {w} : wk'[v] = wk[v]
    BY <1>1, <1>5 DEF Stall, WorkerState
  <2> QED BY <1>1, <2>1 DEF Fresh
<1>6. CASE Win(w)
  <2>1. PICK i \in Ids : i = wk[w].id
    BY <1>1, <1>6 DEF Win, Knows
  <2> DEFINE s == [wk[w] EXCEPT !.pc = "run", !.ver = @ + 1, !.lag = 0, !.beat = Every]
  <2>2. s.pc = "run" /\ s.id = i /\ s.beat = Every /\ s.slow = wk[w].slow
    BY <1>1, <2>1 DEF WorkerState
  <2>3. wk' = [wk EXCEPT ![w] = s] /\ wk[w].pc = "picked"
    BY <1>6 DEF Win, Become
  <2> HIDE DEF s
  <2>4. wk'[w] = s /\ \A v \in Workers \ {w} : wk'[v] = wk[v]
    BY <1>2, <2>3
  <2>5. row'[i].left = LeaseLeft(w)
    <3>1. row' = [row EXCEPT ![i] = Leased(row[i], w, LeaseLeft(w))] /\ row \in [Ids -> Row]
      BY <1>6, <2>1 DEF Win, FreshInv, WorkerInv, TableInv, RowOK
    <3>2. row'[i] = Leased(row[i], w, LeaseLeft(w))
      BY <3>1
    <3> QED BY <3>2 DEF Leased, Written
  <2>6. ~wk[w].slow => row'[i].left = Lease
    BY <1>1, <2>3, <2>5, EveryInLease DEF Fresh, LeaseLeft
  <2> QED BY <2>2, <2>4, <2>6, EveryInLease DEF Fresh
<1>7. CASE Beat(w)
  <2>1. PICK i \in Ids : i = wk[w].id
    BY <1>1, <1>7 DEF Beat, Knows
  <2>2. wk[w].pc = "run" /\ row \in [Ids -> Row]
    BY <1>7 DEF Beat, FreshInv, WorkerInv, TableInv, RowOK
  <2>3. ASSUME NEW b, wk' = [wk EXCEPT ![w] = [wk[w] EXCEPT !.beat = b]]
        PROVE  /\ wk'[w].pc = "run" /\ wk'[w].id = i /\ wk'[w].ver = wk[w].ver
               /\ wk'[w].slow = wk[w].slow /\ wk'[w].mute = wk[w].mute
               /\ wk'[w].beat = b
               /\ \A v \in Workers \ {w} : wk'[v] = wk[v]
    BY <1>1, <2>1, <2>2, <2>3 DEF WorkerState
  <2>4. CASE row[i].state = "leased" /\ row[i].left >= 0
    <3>1. Heartbeat(i) /\ wk' = [wk EXCEPT ![w] = [wk[w] EXCEPT !.beat = Every]]
      BY <1>7, <2>1, <2>4 DEF Beat, Become
    <3>2. row'[i].left = Lease
      BY <2>2, <3>1 DEF Heartbeat, Renewed, Row
    <3>3. /\ wk'[w].pc = "run" /\ wk'[w].id = i /\ wk'[w].beat = Every
          /\ \A v \in Workers \ {w} : wk'[v] = wk[v]
      BY <2>3, <3>1
    <3>4. wk'[w].beat <= Every /\ 0 <= wk'[w].beat /\ wk'[w].beat <= row'[i].left /\ row'[i].left >= 0
      BY <3>2, <3>3, EveryInLease
    <3> QED BY <3>3, <3>4 DEF Fresh
  <2>5. CASE ~(row[i].state = "leased" /\ row[i].left >= 0)
    <3>1. row' = row /\ wk' = [wk EXCEPT ![w] = [wk[w] EXCEPT !.beat = Quiet]]
      BY <1>7, <2>1, <2>5 DEF Beat, Become
    <3>2. ~wk[w].slow /\ ~wk[w].mute => wk[w].ver # row[i].ver
      BY <1>1, <2>1, <2>2, <2>5 DEF Fresh, Knows, Busy
    <3>3. Quiet <= Every
      BY EveryInLease DEF Quiet
    <3> QED BY <2>3, <3>1, <3>2, <3>3 DEF Fresh
  <2> QED BY <2>4, <2>5
<1>8. CASE FailRead(w)
  <2> DEFINE s == [wk[w] EXCEPT !.pc = "failing", !.beat = Quiet, !.att = row[wk[w].id].att]
  <2>1. /\ s.pc = "failing" /\ s.id = wk[w].id /\ s.ver = wk[w].ver /\ s.beat = -1
        /\ s.slow = wk[w].slow /\ s.mute = wk[w].mute
    BY <1>1 DEF WorkerState, Quiet
  <2>2. wk' = [wk EXCEPT ![w] = s] /\ row' = row /\ wk[w].pc = "run"
    BY <1>8 DEF FailRead, Become
  <2> HIDE DEF s
  <2>3. wk'[w] = s /\ \A v \in Workers \ {w} : wk'[v] = wk[v]
    BY <1>2, <2>2
  <2> QED BY <1>1, <2>1, <2>2, <2>3, EveryInLease DEF Fresh, Busy
<1>9. CASE BeatLost(w)
  <2>1. wk' = [wk EXCEPT ![w] = [wk[w] EXCEPT !.beat = Quiet, !.mute = TRUE]] /\ wk[w].pc = "run"
    BY <1>9 DEF BeatLost, Become
  <2>2. /\ wk'[w].pc = "run" /\ wk'[w].mute = TRUE /\ wk'[w].beat = -1
        /\ \A v \in Workers \ {w} : wk'[v] = wk[v]
    BY <1>1, <2>1 DEF WorkerState, Quiet
  <2> QED BY <2>2, EveryInLease DEF Fresh
<1> QED BY <1>3, <1>4, <1>5, <1>6, <1>7, <1>8, <1>9 DEF Work

LEMMA FreshStep == FreshInv /\ [Next]_vars => FreshInv'
<1> SUFFICES ASSUME FreshInv, [Next]_vars PROVE FreshInv'
  OBVIOUS
<1>1. WorkerInv /\ WorkerInv'
  BY WorkerInvStep DEF FreshInv
<1>2. CASE Tick
  BY <1>1, <1>2, TickFresh DEF FreshInv
<1>3. CASE ~Tick
  <2>1. [TableTouch]_row /\ [TableUse]_row /\ TableInv
    BY <1>1, <1>3, StepTouches, StepIsTableStep DEF WorkerInv
  <2>2. Kept /\ LeaseKept
    BY <2>1, TableKeeps, TouchKeepsLease
  <2>3. ASSUME NEW w \in Workers, Work(w) \/ BeatLost(w) \/ WriteLost(w) \/ Crash(w) \/ Stall(w)
        PROVE  \A v \in Workers : Fresh(v)'
    BY <2>2, <2>3, OwnStepFresh, StaysFresh
  <2>4. ASSUME UNCHANGED wk PROVE \A v \in Workers : Fresh(v)'
    BY <2>2, <2>4, StaysFresh
  <2>5. \/ UNCHANGED wk
        \/ \E w \in Workers : Work(w) \/ BeatLost(w) \/ WriteLost(w) \/ Crash(w) \/ Stall(w)
    BY <1>3 DEF Next, Submit, CancelJob, RetryJob, FireTimers, Drain, vars
  <2> QED BY <1>1, <2>3, <2>4, <2>5 DEF FreshInv
<1> QED BY <1>2, <1>3

(* "a job that takes longer than one lease is not stolen from underneath    *)
(* it" (work.rs:267), for any lease and any number of replicas: while a     *)
(* replica keeps up and its renewals succeed, its heartbeat is due before   *)
(* its lease ends, so a claim takes the row its handler is working on only  *)
(* after a stall or a failed renewal of that very handler.                  *)
THEOREM HeartbeatHolds == Spec => NeverStolen
<1>1. ASSUME FreshInv, NEW v \in Workers, NEW w \in Workers, Steals(w, v),
             ~(wk[v].slow \/ wk[v].mute)
      PROVE  FALSE
  <2>1. PICK i \in Ids : i = wk[w].id
    BY <1>1 DEF Steals, FreshInv, WorkerInv, Knows, Win
  <2>2. row[i].state = "leased" /\ row[i].left >= 0
    BY <1>1, <2>1 DEF Steals, FreshInv, WorkerInv, Knows, Fresh, Busy
  <2>3. Runnable(i)
    BY <1>1, <2>1 DEF Steals, FreshInv, WorkerInv, Knows, Win
  <2>4. row[i].left \in Int
    BY RowsSound, Columns, <1>1 DEF FreshInv, WorkerInv
  <2> QED BY <2>2, <2>3, <2>4 DEF Runnable
<1>2. FreshInv => [\A v, w \in Workers : Steals(w, v) => wk[v].slow \/ wk[v].mute]_vars
  BY <1>1
<1> QED BY <1>2, InitFresh, FreshStep, PTL DEF Spec, NeverStolen
=============================================================================
