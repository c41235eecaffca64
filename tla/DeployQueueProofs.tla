-------------------------- MODULE DeployQueueProofs -------------------------
(***************************************************************************)
(* The build queue over the job table, for any number of branches, submits  *)
(* and workers: the table keeps its guarantees under submit's statements,   *)
(* the queue exceeds its cap by no more than the submits under way and the  *)
(* rows workers hold, and a submit that is answered has queued its commit,  *)
(* unless another build of its branch came into the queue meanwhile.  And   *)
(* the order of the queue, for any set of builds: order and next do what    *)
(* their rule says.                                                         *)
(***************************************************************************)
EXTENDS DeployQueue, JobTableProofs, FiniteSetTheorems, NaturalsInduction

QueueInv ==
    /\ TableInv
    /\ commit \in [Ids -> Nat]
    /\ sub \in [Submitters -> {Resting} \cup Submitting]
    /\ \A s \in Submitters : sub[s].pc = "cancel" => sub[s].old \in Ids
    /\ pushes \in Nat /\ failures \in Nat
    /\ promised \in [Keys -> Nat]
    /\ holds \in [Workers -> Ids \cup {0}]
    /\ since \in [Submitters -> SUBSET Ids]

LEMMA ListedOrder == Listed[1] = "queued" /\ Listed[2] = "leased"
BY DEF Listed

LEMMA WatchType == ASSUME QueueInv, Watch PROVE since' \in [Submitters -> SUBSET Ids]
BY DEF QueueInv, Watch, PutInQueue

-----------------------------------------------------------------------------
(* The worker loops' statements keep the table.                             *)
LEMMA TickKeepsTable == ASSUME TableInv, Tick PROVE TableInv'
<1> DEFINE f == [i \in Ids |-> [Aged(row[i]) EXCEPT !.left = row[i].left]]
<1>1. \A i \in Ids : Sound(row[i])
  BY RowsSound
<1>2. ASSUME NEW i \in Ids
      PROVE  Sound(f[i]) /\ f[i].key = row[i].key /\ (f[i].state \in LiveState <=> Live(i))
  <2>1. Sound(Aged(row[i])) /\ Aged(row[i]).state = row[i].state /\ Aged(row[i]).key = row[i].key
    BY <1>1, AgedSound
  <2>2. row[i].left \in -1 .. Lease /\ row[i].left \in Int
    BY <1>1, Columns
  <2>3. f[i] = [Aged(row[i]) EXCEPT !.left = row[i].left]
    OBVIOUS
  <2>4. f[i] \in Row /\ f[i].state = row[i].state /\ f[i].key = row[i].key
        /\ f[i].worker = Aged(row[i]).worker /\ f[i].left = row[i].left
    <3> HIDE DEF f
    <3> QED BY <2>1, <2>2, <2>3 DEF Sound, Row
  <2> HIDE DEF f
  <2> QED BY <2>1, <2>2, <2>4 DEF Sound, Live, LiveState
<1>3. row' = [i \in Ids |-> f[i]]
  BY DEF Tick
<1> HIDE DEF f
<1> QED BY <1>2, <1>3, EveryRowWritten

LEMMA RowStepKeepsTable ==
    ASSUME QueueInv, [Next]_vars
    PROVE  TableInv'
<1> USE DEF QueueInv
<1>1. 0 \in Delays
  BY KeysAssumption
<1>2. ASSUME NEW s \in Submitters, Submit(s) PROVE [TableNext]_row
  <2>1. ASSUME CancelOld(s) PROVE [TableNext]_row
    <3>1. sub[s].old \in Ids
      BY <2>1 DEF CancelOld
    <3> QED BY <2>1, <3>1 DEF CancelOld, TableNext
  <2>2. ASSUME EnqueueNew(s) PROVE [TableNext]_row
    <3>1. sub[s].key \in Keys
      BY <2>2 DEF EnqueueNew, Resting, Submitting
    <3> QED BY <1>1, <2>2, <3>1 DEF EnqueueNew, TableNext
  <2>3. CASE ListQueued(s) \/ ListLeased(s) \/ FetchExisting(s)
    BY <2>3 DEF ListQueued, ListLeased, FetchExisting
  <2> QED BY <1>2, <2>1, <2>2, <2>3 DEF Submit
<1>3. ASSUME NEW s \in Submitters, NEW k \in Keys, Push(s, k) PROVE UNCHANGED row
  BY <1>3 DEF Push
<1>4. ASSUME NEW w \in Workers, Start(w) PROVE TableNext
  BY <1>4, TimesAssumption DEF Start, TableNext
<1>5. ASSUME NEW w \in Workers, holds[w] # 0 PROVE holds[w] \in Ids
  BY <1>5
<1>6. ASSUME NEW w \in Workers, Succeed(w) PROVE TableNext
  BY <1>5, <1>6 DEF Succeed, TableNext
<1>7. ASSUME NEW w \in Workers, Fail(w) PROVE [TableNext]_row
  <2> DEFINE i == holds[w]
  <2>1. i \in Ids
    BY <1>5, <1>7 DEF Fail
  <2>2. row[i].att \in Nat
    BY <2>1, RowsSound, Columns
  <2>3. CASE row[i].att < MaxAttempts /\ Requeue(i, row[i].att)
    <3>1. row[i].att \in 0 .. MaxAttempts
      BY <2>2, <2>3, TimesAssumption
    <3> QED BY <2>1, <2>3, <3>1 DEF TableNext
  <2>4. CASE Bury(i)
    BY <2>1, <2>4 DEF TableNext
  <2>5. CASE UNCHANGED row
    BY <2>5
  <2>6. \/ Bury(i) \/ UNCHANGED row
        \/ row[i].att < MaxAttempts /\ Requeue(i, row[i].att)
    BY <1>7, <2>2, TimesAssumption DEF Fail
  <2> QED BY <2>3, <2>4, <2>5, <2>6
<1>8. CASE UNCHANGED vars
  BY <1>8, TableInvStep DEF vars
<1>9. CASE Tick
  BY <1>9, TickKeepsTable
<1> QED BY <1>2, <1>3, <1>4, <1>6, <1>7, <1>8, <1>9, TableInvStep DEF Next

-----------------------------------------------------------------------------
(* A submit between two of its statements.                                  *)
LEMMA SubmitTypes ==
    ASSUME QueueInv, NEW s \in Submitters, sub[s].pc # "idle"
    PROVE  sub[s] \in Submitting
BY DEF QueueInv, Resting

LEMMA SubmitMoves ==
    ASSUME QueueInv, NEW s \in Submitters, NEW to \in {Resting} \cup Submitting, Become(s, to),
           to.pc = "cancel" => to.old \in Ids
    PROVE  /\ sub' \in [Submitters -> {Resting} \cup Submitting]
           /\ \A t \in Submitters : sub'[t].pc = "cancel" => sub'[t].old \in Ids
BY DEF QueueInv, Become

LEMMA RestingIsIdle == Resting.pc = "idle"
BY DEF Resting

LEMMA SubmitKeeps ==
    ASSUME QueueInv, NEW s \in Submitters, Submit(s)
    PROVE  /\ sub' \in [Submitters -> {Resting} \cup Submitting]
           /\ \A t \in Submitters : sub'[t].pc = "cancel" => sub'[t].old \in Ids
           /\ commit' \in [Ids -> Nat] /\ promised' \in [Keys -> Nat]
           /\ UNCHANGED <<pushes, holds, failures>> /\ Watch
<1>1. CASE ListQueued(s)
  <2>1. sub[s] \in Submitting /\ Become(s, [sub[s] EXCEPT !.pc = "leased", !.queued = In("queued")])
    BY <1>1, SubmitTypes, ListedOrder DEF ListQueued
  <2>2. In("queued") \in SUBSET Ids
    BY DEF In
  <2>3. [sub[s] EXCEPT !.pc = "leased", !.queued = In("queued")] \in Submitting
        /\ [sub[s] EXCEPT !.pc = "leased", !.queued = In("queued")].pc = "leased"
    BY ONLY <2>1, <2>2 DEF Submitting
  <2> QED BY <1>1, <2>1, <2>3, SubmitMoves DEF ListQueued, QueueInv
<1>2. CASE ListLeased(s)
  <2> DEFINE existing == Existing(s, In("leased"))
  <2>1. sub[s] \in Submitting
    BY <1>2, SubmitTypes DEF ListLeased
  <2>2. existing \subseteq Ids
    <3>1. sub[s].queued \in SUBSET Ids
      BY <2>1 DEF Submitting
    <3> QED BY <3>1 DEF Existing, OfKey, In
  <2>3. promised' \in [Keys -> Nat]
    <3>1. sub[s].key \in Keys /\ sub[s].commit \in Nat
      BY <2>1 DEF Submitting
    <3>2. promised' = [promised EXCEPT ![sub[s].key] = sub[s].commit] \/ promised' = promised
      BY <1>2, Zenon DEF ListLeased
    <3>3. promised \in [Keys -> Nat]
      BY DEF QueueInv
    <3> QED BY ONLY <3>1, <3>2, <3>3
  <2>4. UNCHANGED <<commit, pushes, holds, failures>> /\ Watch
    BY <1>2 DEF ListLeased
  <2>5. ASSUME NEW i \in existing, Become(s, [sub[s] EXCEPT !.pc = "cancel", !.old = i])
        PROVE  /\ sub' \in [Submitters -> {Resting} \cup Submitting]
               /\ \A t \in Submitters : sub'[t].pc = "cancel" => sub'[t].old \in Ids
    <3>1. i \in Ids
      BY <2>2
    <3>2. [sub[s] EXCEPT !.pc = "cancel", !.old = i] \in Submitting
          /\ [sub[s] EXCEPT !.pc = "cancel", !.old = i].old = i
      BY ONLY <2>1, <3>1 DEF Submitting
    <3> QED BY <2>5, <3>1, <3>2, SubmitMoves
  <2>6. ASSUME Goto(s, "enqueue")
        PROVE  /\ sub' \in [Submitters -> {Resting} \cup Submitting]
               /\ \A t \in Submitters : sub'[t].pc = "cancel" => sub'[t].old \in Ids
    <3>1. [sub[s] EXCEPT !.pc = "enqueue"] \in Submitting
          /\ [sub[s] EXCEPT !.pc = "enqueue"].pc = "enqueue"
      BY ONLY <2>1 DEF Submitting
    <3> QED BY <2>6, <3>1, SubmitMoves DEF Goto
  <2>7. ASSUME Become(s, Resting)
        PROVE  /\ sub' \in [Submitters -> {Resting} \cup Submitting]
               /\ \A t \in Submitters : sub'[t].pc = "cancel" => sub'[t].old \in Ids
    BY <2>7, SubmitMoves, RestingIsIdle
  <2>8. \/ \E i \in existing : Become(s, [sub[s] EXCEPT !.pc = "cancel", !.old = i])
        \/ Goto(s, "enqueue") \/ Become(s, Resting)
    BY <1>2, ListedOrder DEF ListLeased
  <2> HIDE DEF existing
  <2> QED BY <2>3, <2>4, <2>5, <2>6, <2>7, <2>8 DEF QueueInv
<1>3. CASE CancelOld(s)
  <2>1. sub[s] \in Submitting
    BY <1>3, SubmitTypes DEF CancelOld
  <2>2. [sub[s] EXCEPT !.pc = "enqueue"] \in Submitting
        /\ [sub[s] EXCEPT !.pc = "enqueue"].pc = "enqueue"
    BY ONLY <2>1 DEF Submitting
  <2>3. \/ Become(s, [sub[s] EXCEPT !.pc = "enqueue"]) \/ Become(s, Resting)
    BY <1>3 DEF CancelOld, Goto
  <2>4. /\ sub' \in [Submitters -> {Resting} \cup Submitting]
        /\ \A t \in Submitters : sub'[t].pc = "cancel" => sub'[t].old \in Ids
    BY <2>2, <2>3, SubmitMoves, RestingIsIdle
  <2> QED BY <1>3, <2>4 DEF CancelOld, QueueInv
<1>4. CASE EnqueueNew(s)
  <2>1. sub[s].commit \in Nat
    BY <1>4, SubmitTypes DEF EnqueueNew, Submitting
  <2>2. commit' \in [Ids -> Nat]
    <3>1. CASE UNCHANGED commit
      BY <3>1 DEF QueueInv
    <3>2. CASE commit' = [i \in Ids |-> IF row[i].state = "unused" /\ row'[i].state = "queued"
                                        THEN sub[s].commit ELSE commit[i]]
      BY <2>1, <3>2 DEF QueueInv
    <3> QED BY <1>4, <3>1, <3>2 DEF EnqueueNew
  <2>3. UNCHANGED <<pushes, promised, holds, failures>> /\ Watch
    BY <1>4 DEF EnqueueNew
  <2>4. /\ [sub[s] EXCEPT !.pc = "existing"] \in Submitting
        /\ [sub[s] EXCEPT !.pc = "existing"].pc = "existing"
    <3>1. sub[s] \in Submitting
      BY <1>4, SubmitTypes DEF EnqueueNew
    <3> QED BY ONLY <3>1 DEF Submitting
  <2>5. Become(s, [sub[s] EXCEPT !.pc = "existing"]) \/ Become(s, Resting)
    BY <1>4 DEF EnqueueNew, Goto
  <2>6. /\ sub' \in [Submitters -> {Resting} \cup Submitting]
        /\ \A t \in Submitters : sub'[t].pc = "cancel" => sub'[t].old \in Ids
    BY <2>4, <2>5, SubmitMoves, RestingIsIdle
  <2> QED BY <2>2, <2>3, <2>6 DEF QueueInv
<1>5. CASE FetchExisting(s)
  BY <1>5, SubmitMoves, RestingIsIdle DEF FetchExisting, QueueInv
<1> QED BY <1>1, <1>2, <1>3, <1>4, <1>5 DEF Submit

LEMMA QueueStep == QueueInv /\ [Next]_vars => QueueInv'
<1> SUFFICES ASSUME QueueInv, [Next]_vars PROVE QueueInv'
  OBVIOUS
<1>1. TableInv'
  BY RowStepKeepsTable
<1>2. ASSUME NEW s \in Submitters, Submit(s) PROVE QueueInv'
  BY <1>1, <1>2, SubmitKeeps, WatchType DEF QueueInv
<1>3. ASSUME NEW s \in Submitters, NEW k \in Keys, Push(s, k) PROVE QueueInv'
  <2> DEFINE to == [pc |-> "queued", key |-> k, commit |-> pushes + 1, queued |-> {}, old |-> 0]
  <2>1. to \in Submitting /\ to.pc = "queued"
    BY DEF Submitting, QueueInv
  <2>2. Become(s, to)
    BY <1>3 DEF Push
  <2>3. /\ sub' \in [Submitters -> {Resting} \cup Submitting]
        /\ \A t \in Submitters : sub'[t].pc = "cancel" => sub'[t].old \in Ids
    <3> HIDE DEF to
    <3> QED BY <2>1, <2>2, SubmitMoves
  <2> QED BY <1>1, <1>3, <2>3, WatchType DEF Push, QueueInv
<1>4. ASSUME NEW w \in Workers, Start(w) \/ Succeed(w) \/ Fail(w) PROVE QueueInv'
  <2>1. holds' \in [Workers -> Ids \cup {0}] /\ failures' \in Nat
    BY <1>4 DEF Start, Succeed, Fail, QueueInv
  <2> QED BY <1>1, <1>4, <2>1, WatchType DEF Start, Succeed, Fail, QueueInv
<1>5. CASE Tick
  BY <1>1, <1>5, WatchType DEF Tick, QueueInv
<1>6. CASE UNCHANGED vars
  BY <1>1, <1>6 DEF vars, QueueInv
<1> QED BY <1>2, <1>3, <1>4, <1>5, <1>6 DEF Next

LEMMA QueueInit == Init => QueueInv
BY TableInvInit, RestingIsIdle DEF Init, QueueInv

LEMMA QueueAlways == Spec => []QueueInv
<1>1. Init => QueueInv
  BY QueueInit
<1>2. QueueInv /\ [Next]_vars => QueueInv'
  BY QueueStep
<1> QED BY <1>1, <1>2, PTL DEF Spec

-----------------------------------------------------------------------------
(* Submits, claims, failures and backoffs, however they interleave, leave   *)
(* the queue's state well typed (queue.rs, submit; work.rs, the loop).      *)
THEOREM QueueTypeOK == Spec => []TypeOK
<1>1. QueueInv => TypeOK
  BY DEF QueueInv, TableInv, TypeOK
<1> QED BY <1>1, QueueAlways, PTL

(* A branch or pull request never has two live builds, with submits that    *)
(* cancel and enqueue in separate statements and builds that fail late      *)
(* (queue.rs, submit; the index job_live_key).                              *)
THEOREM OneBuildPerBranch == Spec => [](OneLivePerKey /\ LeaseMatchesState)
<1>1. QueueInv => OneLivePerKey /\ LeaseMatchesState
  BY DEF QueueInv, TableInv
<1> QED BY <1>1, QueueAlways, PTL

-----------------------------------------------------------------------------
(* What a step does to the rows.                                            *)
(* A step that inserts no row leaves each its key, and a row that was over  *)
(* and lives again is queued.                                               *)
SameRows ==
    \A i \in Ids : /\ row'[i].key = row[i].key
                   /\ row'[i].state = "unused" <=> row[i].state = "unused"
                   /\ Live(i)' => Live(i) \/ row'[i].state = "queued"

LEMMA RewrittenIsSame ==
    ASSUME RowOK, NEW i \in Ids, row[i].state # "unused", NEW r, row' = [row EXCEPT ![i] = r],
           r.key = row[i].key, r.state # "unused", r.state = "leased" => Live(i)
    PROVE  SameRows
BY DEF RowOK, SameRows, Live

LEMMA RowsStayOrOneIsAdded ==
    ASSUME QueueInv, [Next]_vars
    PROVE  SameRows \/ \E k \in Keys : Enqueue(k, 0)
<1>1. RowOK
  BY DEF QueueInv, TableInv
<1>2. UNCHANGED row => SameRows
  BY DEF SameRows, Live
<1>3. ASSUME NEW s \in Submitters, CancelOld(s) PROVE SameRows
  <2>1. CASE Live(sub[s].old)
    <3>1. sub[s].old \in Ids
      BY <1>3 DEF CancelOld, QueueInv
    <3>2. PICK i \in Ids : i = sub[s].old
      BY <3>1
    <3>3. PICK r : /\ r = Finished(row[i], "failed") /\ row' = [row EXCEPT ![i] = r]
      BY <1>3, <2>1, <3>2 DEF CancelOld, Cancel
    <3>4. row[i].state # "unused" /\ r.key = row[i].key /\ r.state = "failed"
      BY <2>1, <3>2, <3>3 DEF Finished, Written, Live
    <3> QED BY <1>1, <3>3, <3>4, RewrittenIsSame
  <2>2. CASE ~ Live(sub[s].old)
    BY <1>2, <1>3, <2>2 DEF CancelOld
  <2> QED BY <2>1, <2>2
<1>4. ASSUME NEW s \in Submitters, EnqueueNew(s)
      PROVE  SameRows \/ \E k \in Keys : Enqueue(k, 0)
  <2>1. sub[s].key \in Keys
    BY <1>4 DEF EnqueueNew, QueueInv, Resting, Submitting
  <2> QED BY <1>2, <1>4, <2>1 DEF EnqueueNew
<1>5. ASSUME NEW w \in Workers, Start(w) PROVE SameRows
  <2>1. PICK i \in Ids : Claim(w, i, Lease)
    BY <1>5 DEF Start
  <2>2. PICK r : r = Leased(row[i], w, Lease) /\ row' = [row EXCEPT ![i] = r]
    BY <2>1 DEF Claim
  <2>3. row[i].state # "unused" /\ r.key = row[i].key /\ r.state = "leased" /\ Live(i)
    BY <2>1, <2>2 DEF Claim, Runnable, Leased, Written, Live
  <2> QED BY <1>1, <2>2, <2>3, RewrittenIsSame
<1>6. ASSUME NEW w \in Workers, Succeed(w) PROVE SameRows
  <2>1. PICK i \in Ids : Complete(i)
    BY <1>6 DEF Succeed, QueueInv
  <2>2. PICK r : r = Finished(row[i], "done") /\ row' = [row EXCEPT ![i] = r]
    BY <2>1 DEF Complete
  <2>3. row[i].state # "unused" /\ r.key = row[i].key /\ r.state = "done"
    BY <2>1, <2>2 DEF Complete, Stored, Finished, Written
  <2> QED BY <1>1, <2>2, <2>3, RewrittenIsSame
<1>7. ASSUME NEW w \in Workers, Fail(w) PROVE SameRows
  <2> DEFINE i == holds[w]
  <2>1. i \in Ids
    BY <1>7 DEF Fail, QueueInv
  <2> HIDE DEF i
  <2>2. Bury(i) \/ Requeue(i, row[i].att) \/ UNCHANGED row
    BY <1>7 DEF Fail, i
  <2>3. ASSUME Bury(i) PROVE SameRows
    BY <1>1, <2>1, <2>3, RewrittenIsSame DEF Bury, Stored, Finished, Written
  <2>4. ASSUME Requeue(i, row[i].att) PROVE SameRows
    BY <1>1, <2>1, <2>4, RewrittenIsSame DEF Requeue, Stored, Requeued, Written
  <2> QED BY <1>2, <2>2, <2>3, <2>4
<1>8. ASSUME Tick PROVE SameRows
  <2> DEFINE f == [i \in Ids |-> [Aged(row[i]) EXCEPT !.left = row[i].left]]
  <2>1. row' = [i \in Ids |-> f[i]]
    BY <1>8 DEF Tick
  <2>2. ASSUME NEW i \in Ids PROVE f[i].key = row[i].key /\ f[i].state = row[i].state
    <3>1. Sound(row[i])
      BY RowsSound DEF QueueInv
    <3>2. /\ Sound(Aged(row[i])) /\ Aged(row[i]).state = row[i].state
          /\ Aged(row[i]).key = row[i].key
      BY <3>1, AgedSound
    <3>3. f[i] = [Aged(row[i]) EXCEPT !.left = row[i].left]
      OBVIOUS
    <3> HIDE DEF f
    <3> QED BY <3>2, <3>3 DEF Sound, Row
  <2> HIDE DEF f
  <2> QED BY <2>1, <2>2 DEF SameRows, Live
<1>9. ASSUME NEW s \in Submitters,
             ListQueued(s) \/ ListLeased(s) \/ FetchExisting(s) \/ \E k \in Keys : Push(s, k)
      PROVE  SameRows
  BY <1>2, <1>9 DEF ListQueued, ListLeased, FetchExisting, Push
<1>10. CASE UNCHANGED vars
  BY <1>2, <1>10 DEF vars
<1> QED BY <1>3, <1>4, <1>5, <1>6, <1>7, <1>8, <1>9, <1>10 DEF Next, Submit

-----------------------------------------------------------------------------
(* The rows of its key that live and were live when the submit began: what  *)
(* it has read accounts for each of them, whatever the other submits and    *)
(* the workers do in between.                                               *)
Standing(s) == {i \in Ids : Live(i) /\ row[i].key = sub[s].key /\ i \notin since[s]}

Known(s) ==
    /\ sub[s].pc = "leased" =>
         /\ \A i \in Standing(s) : i \in sub[s].queued \/ row[i].state = "leased"
         /\ \A i \in OfKey(s, sub[s].queued) : Standing(s) \subseteq {i}
         /\ \A i \in sub[s].queued : row[i].state # "unused"
    /\ sub[s].pc = "cancel" => Standing(s) \subseteq {sub[s].old}
    /\ sub[s].pc \in {"enqueue", "existing"} => Standing(s) = {}

AnswerInv == QueueInv /\ \A s \in Submitters : Known(s)

(* No step adds to the standing rows, or takes one of them back from its    *)
(* worker: what it puts in the queue is remembered.                         *)
LEMMA StandingShrinks ==
    ASSUME QueueInv, [Next]_vars, NEW s \in Submitters,
           sub[s].pc # "idle", sub'[s].pc # "idle", sub'[s].key = sub[s].key
    PROVE  /\ Standing(s)' \subseteq Standing(s)
           /\ \A i \in Standing(s)' : row[i].state = "leased" => row'[i].state = "leased"
           /\ \A i \in Ids : row[i].state # "unused" =>
                row'[i].state # "unused" /\ row'[i].key = row[i].key
<1>1. \A i \in Ids : row'[i].state = "queued" /\ row[i].state # "queued"
                     /\ row'[i].key = sub[s].key => i \in since'[s]
  <2>1. CASE Watch
    BY <2>1 DEF Watch, PutInQueue
  <2>2. CASE UNCHANGED vars
    BY <2>2 DEF vars
  <2> QED BY <2>1, <2>2 DEF Next, Submit, ListQueued, ListLeased, CancelOld, EnqueueNew,
                            FetchExisting, Push, Start, Succeed, Fail, Tick
<1>2. since[s] \subseteq since'[s]
  <2>1. CASE Watch
    BY <2>1 DEF Watch
  <2>2. CASE UNCHANGED vars
    BY <2>2 DEF vars
  <2> QED BY <2>1, <2>2 DEF Next, Submit, ListQueued, ListLeased, CancelOld, EnqueueNew,
                            FetchExisting, Push, Start, Succeed, Fail, Tick
<1>3. /\ \A i \in Ids : row[i].state # "unused" =>
           row'[i].state # "unused" /\ row'[i].key = row[i].key
      /\ \A i \in Ids : Live(i)' => Live(i) \/ row'[i].state = "queued"
  <2>1. CASE SameRows
    BY <2>1 DEF SameRows
  <2>2. ASSUME NEW k \in Keys, Enqueue(k, 0)
        PROVE  \E i \in Ids : /\ row[i].state = "unused" /\ row'[i].state = "queued"
                              /\ \A j \in Ids \ {i} : row'[j] = row[j]
    BY <2>2 DEF Enqueue, New, QueueInv, TableInv, RowOK
  <2> QED BY <2>1, <2>2, RowsStayOrOneIsAdded DEF Live
<1>4. ASSUME NEW i \in Standing(s)' PROVE i \in Standing(s)
  <2>1. i \in Ids /\ Live(i)' /\ row'[i].key = sub[s].key /\ i \notin since'[s]
    BY <1>4 DEF Standing
  <2>2. Live(i)
    BY <1>1, <1>3, <2>1 DEF Live
  <2> QED BY <1>2, <1>3, <2>1, <2>2 DEF Standing, Live
<1>5. ASSUME NEW i \in Standing(s)', row[i].state = "leased" PROVE row'[i].state = "leased"
  BY <1>1, <1>5 DEF Standing, Live
<1> QED BY <1>3, <1>4, <1>5

LEMMA KnownStays ==
    ASSUME AnswerInv, [Next]_vars, NEW s \in Submitters, sub'[s] = sub[s]
    PROVE  Known(s)'
<1> USE DEF AnswerInv
<1>1. CASE sub[s].pc = "idle"
  BY <1>1 DEF Known
<1>2. CASE sub[s].pc # "idle"
  <2>1. sub[s] \in Submitting /\ sub[s].queued \subseteq Ids
    BY <1>2, SubmitTypes DEF Submitting
  <2>2. /\ Standing(s)' \subseteq Standing(s)
        /\ \A i \in Standing(s)' : row[i].state = "leased" => row'[i].state = "leased"
        /\ \A i \in Ids : row[i].state # "unused" =>
             row'[i].state # "unused" /\ row'[i].key = row[i].key
    BY <1>2, StandingShrinks
  <2>3. CASE sub[s].pc = "leased"
    <3>1. OfKey(s, sub[s].queued)' = OfKey(s, sub[s].queued)
      BY <2>1, <2>2, <2>3 DEF Known, OfKey
    <3> QED BY <2>1, <2>2, <2>3, <3>1 DEF Known
  <2>4. CASE sub[s].pc # "leased"
    BY <2>2, <2>4 DEF Known
  <2> QED BY <2>3, <2>4
<1> QED BY <1>1, <1>2

(* The submit's own statements.                                             *)
LEMMA KnownMoves ==
    ASSUME AnswerInv, [Next]_vars, NEW s \in Submitters,
           Submit(s) \/ \E k \in Keys : Push(s, k)
    PROVE  Known(s)' /\ \A t \in Submitters \ {s} : sub'[t] = sub[t]
<1> USE DEF AnswerInv
<1>1. ASSUME NEW to, Become(s, to)
      PROVE  sub'[s] = to /\ \A t \in Submitters \ {s} : sub'[t] = sub[t]
  BY <1>1 DEF Become, QueueInv
<1>2. ASSUME Become(s, Resting)
      PROVE  Known(s)' /\ \A t \in Submitters \ {s} : sub'[t] = sub[t]
  BY <1>1, <1>2, RestingIsIdle DEF Known
<1>3. ASSUME sub[s].pc # "idle", NEW pc \in {"enqueue", "existing"}, Goto(s, pc)
      PROVE  /\ sub'[s].pc = pc /\ sub'[s].key = sub[s].key
             /\ \A t \in Submitters \ {s} : sub'[t] = sub[t]
             /\ Standing(s)' \subseteq Standing(s)
  <2>1. sub[s] \in Submitting
    BY <1>3, SubmitTypes
  <2>2. [sub[s] EXCEPT !.pc = pc].pc = pc /\ [sub[s] EXCEPT !.pc = pc].key = sub[s].key
    BY <2>1 DEF Submitting
  <2>3. Become(s, [sub[s] EXCEPT !.pc = pc])
    BY <1>3 DEF Goto
  <2>4. sub'[s].pc = pc /\ sub'[s].key = sub[s].key
        /\ \A t \in Submitters \ {s} : sub'[t] = sub[t]
    BY <1>1, <2>2, <2>3
  <2> QED BY <1>3, <2>4, StandingShrinks
<1>4. \A i, j \in Ids : Live(i) /\ Live(j) /\ row[i].key = row[j].key => i = j
  BY DEF QueueInv, TableInv, OneLivePerKey
<1>5. ASSUME NEW k \in Keys, Push(s, k)
      PROVE  Known(s)' /\ \A t \in Submitters \ {s} : sub'[t] = sub[t]
  <2> DEFINE to == [pc |-> "queued", key |-> k, commit |-> pushes + 1, queued |-> {}, old |-> 0]
  <2>1. to.pc = "queued" /\ Become(s, to)
    BY <1>5 DEF Push
  <2> HIDE DEF to
  <2> QED BY <1>1, <2>1 DEF Known
<1>6. CASE ListQueued(s)
  <2> DEFINE to == [sub[s] EXCEPT !.pc = "leased", !.queued = In("queued")]
  <2>1. sub[s] \in Submitting /\ sub[s].pc = "queued" /\ UNCHANGED row
    BY <1>6, SubmitTypes DEF ListQueued
  <2>2. to.pc = "leased" /\ to.queued = In("queued") /\ to.key = sub[s].key
    BY <2>1 DEF Submitting
  <2>3. Become(s, to)
    BY <1>6, ListedOrder DEF ListQueued
  <2> HIDE DEF to
  <2>4. /\ sub'[s].pc = "leased" /\ sub'[s].queued = In("queued") /\ sub'[s].key = sub[s].key
        /\ \A t \in Submitters \ {s} : sub'[t] = sub[t]
    BY <1>1, <2>2, <2>3
  <2>5. Standing(s)' \subseteq {i \in Ids : Live(i) /\ row[i].key = sub[s].key}
    BY <2>1, <2>4 DEF Standing, Live
  <2>6. \A i \in Standing(s)' : i \in In("queued") \/ row'[i].state = "leased"
    BY <2>1, <2>5 DEF In, Live
  <2>7. ASSUME NEW i \in OfKey(s, sub[s].queued)' PROVE Standing(s)' \subseteq {i}
    <3>1. i \in Ids /\ Live(i) /\ row[i].key = sub[s].key
      BY <2>1, <2>4, <2>7 DEF OfKey, In, Live
    <3> QED BY <1>4, <2>5, <3>1
  <2>8. \A i \in In("queued") : row'[i].state # "unused"
    BY <2>1 DEF In
  <2> QED BY <2>4, <2>6, <2>7, <2>8 DEF Known
<1>7. CASE ListLeased(s)
  <2> DEFINE existing == Existing(s, In("leased"))
  <2>1. UNCHANGED row /\ sub[s].pc = "leased" /\ sub[s] \in Submitting
    BY <1>7, SubmitTypes DEF ListLeased
  <2>2. sub[s].queued \subseteq Ids
    BY <2>1 DEF Submitting
  <2>3. ASSUME NEW i \in existing PROVE Standing(s) \subseteq {i}
    <3>1. CASE OfKey(s, sub[s].queued) # {}
      <4>1. i \in OfKey(s, sub[s].queued)
        BY <2>3, <3>1 DEF Existing
      <4> QED BY <2>1, <4>1 DEF Known
    <3>2. CASE OfKey(s, sub[s].queued) = {}
      <4>1. i \in Ids /\ Live(i) /\ row[i].key = sub[s].key
        BY <2>3, <3>2 DEF Existing, OfKey, In, Live
      <4> QED BY <1>4, <4>1 DEF Standing
    <3> QED BY <3>1, <3>2
  <2>4. ASSUME existing = {} PROVE Standing(s) = {}
    <3>1. OfKey(s, sub[s].queued) = {} /\ OfKey(s, In("leased")) = {}
      BY <2>4 DEF Existing
    <3>2. ASSUME NEW i \in Standing(s) PROVE FALSE
      <4>1. i \in sub[s].queued \/ i \in In("leased")
        BY <2>1, <3>2 DEF Known, Standing, In
      <4>2. row[i].key = sub[s].key
        BY <3>2 DEF Standing
      <4> QED BY <3>1, <4>1, <4>2 DEF OfKey
    <3> QED BY <3>2
  <2>5. ASSUME NEW i \in existing, Become(s, [sub[s] EXCEPT !.pc = "cancel", !.old = i])
        PROVE  Known(s)' /\ \A t \in Submitters \ {s} : sub'[t] = sub[t]
    <3> DEFINE to == [sub[s] EXCEPT !.pc = "cancel", !.old = i]
    <3>1. to.pc = "cancel" /\ to.old = i /\ to.key = sub[s].key
      BY <2>1 DEF Submitting
    <3>2. Become(s, to)
      BY <2>5
    <3> HIDE DEF to, existing
    <3>3. sub'[s] = to /\ \A t \in Submitters \ {s} : sub'[t] = sub[t]
      BY <1>1, <3>2
    <3>4. Standing(s)' \subseteq Standing(s)
      BY <2>1, <3>1, <3>3, StandingShrinks
    <3> QED BY <2>3, <3>1, <3>3, <3>4 DEF Known
  <2>6. ASSUME existing = {}, Goto(s, "enqueue")
        PROVE  Known(s)' /\ \A t \in Submitters \ {s} : sub'[t] = sub[t]
    BY <1>3, <2>1, <2>4, <2>6 DEF Known
  <2>7. \/ \E i \in existing : Become(s, [sub[s] EXCEPT !.pc = "cancel", !.old = i])
        \/ existing = {} /\ Goto(s, "enqueue")
        \/ Become(s, Resting)
    BY <1>7, ListedOrder DEF ListLeased
  <2> HIDE DEF existing
  <2> QED BY <1>2, <2>5, <2>6, <2>7
<1>8. CASE CancelOld(s)
  <2>1. sub[s].pc = "cancel" /\ sub[s].old \in Ids
    BY <1>8 DEF CancelOld, QueueInv
  <2>2. ASSUME Cancel(sub[s].old), Goto(s, "enqueue")
        PROVE  Known(s)' /\ \A t \in Submitters \ {s} : sub'[t] = sub[t]
    <3>1. PICK i \in Ids : i = sub[s].old
      BY <2>1
    <3>2. row' = [row EXCEPT ![i] = Finished(row[i], "failed")]
      BY <2>2, <3>1 DEF Cancel
    <3>3. row'[i].state = "failed"
      BY <3>2 DEF Finished, Written, QueueInv, TableInv, RowOK
    <3>4. i \notin Standing(s)'
      BY <3>3 DEF Standing, Live
    <3> QED BY <1>3, <2>1, <2>2, <3>1, <3>4 DEF Known
  <2> QED BY <1>2, <1>8, <2>2 DEF CancelOld
<1>9. CASE EnqueueNew(s)
  <2>1. (sub[s].pc = "enqueue" /\ Goto(s, "existing")) \/ Become(s, Resting)
    BY <1>9 DEF EnqueueNew
  <2>2. ASSUME sub[s].pc = "enqueue", Goto(s, "existing")
        PROVE  Known(s)' /\ \A t \in Submitters \ {s} : sub'[t] = sub[t]
    BY <1>3, <2>2 DEF Known
  <2> QED BY <1>2, <2>1, <2>2
<1>10. CASE FetchExisting(s)
  BY <1>2, <1>10 DEF FetchExisting
<1> QED BY <1>5, <1>6, <1>7, <1>8, <1>9, <1>10 DEF Submit

LEMMA AnswerInvStep == AnswerInv /\ [Next]_vars => AnswerInv'
<1> SUFFICES ASSUME AnswerInv, [Next]_vars PROVE AnswerInv'
  OBVIOUS
<1>1. QueueInv'
  BY QueueStep DEF AnswerInv
<1>2. ASSUME NEW s \in Submitters, Submit(s) \/ \E k \in Keys : Push(s, k)
      PROVE  \A t \in Submitters : Known(t)'
  BY <1>2, KnownMoves, KnownStays
<1>3. ASSUME UNCHANGED sub PROVE \A t \in Submitters : Known(t)'
  BY <1>3, KnownStays
<1>4. \/ \E s \in Submitters : Submit(s) \/ \E k \in Keys : Push(s, k)
      \/ UNCHANGED sub
  BY DEF Next, Start, Succeed, Fail, Tick, vars
<1> QED BY <1>1, <1>2, <1>3, <1>4 DEF AnswerInv

LEMMA AnswerStep ==
    ASSUME AnswerInv, NEW s \in Submitters, NEW i \in Ids, Answers(s, i)
    PROVE  commit'[i] = sub[s].commit \/ i \in since[s]
<1>1. CASE EnqueueNew(s) /\ row[i].state = "unused" /\ row'[i].state = "queued"
  <2>1. row' # row
    BY <1>1
  <2>2. commit' = [j \in Ids |-> IF row[j].state = "unused" /\ row'[j].state = "queued"
                                  THEN sub[s].commit ELSE commit[j]]
    BY <1>1, <2>1 DEF EnqueueNew
  <2> QED BY <1>1, <2>2
<1>2. CASE FetchExisting(s) /\ Live(i) /\ row[i].key = sub[s].key
  BY <1>2 DEF FetchExisting, AnswerInv, Known, Standing
<1> QED BY <1>1, <1>2 DEF Answers

(* However submits of a branch overlap, and whichever of its builds start,  *)
(* finish and fail meanwhile: a submit that is answered has queued the      *)
(* commit it was given, or is answered with a build of its branch that came *)
(* into the queue while the submit was under way (queue.rs:548).            *)
THEOREM AnswersAreFresh == Spec => AnsweredIsQueued
<1>1. Init => AnswerInv
  BY QueueInit, RestingIsIdle DEF Init, AnswerInv, Known
<1>2. AnswerInv /\ [Next]_vars => AnswerInv'
  BY AnswerInvStep
<1>3. AnswerInv /\ [Next]_vars
        => [\A s \in Submitters, i \in Ids :
              Answers(s, i) => commit'[i] = sub[s].commit \/ i \in since[s]]_vars
  BY AnswerStep
<1> QED BY <1>1, <1>2, <1>3, PTL DEF Spec, AnsweredIsQueued

-----------------------------------------------------------------------------
(* The queue's cap.  A key is taken while a row of it is live, a worker's   *)
(* handler has a row of it (which a failure may revive), or a submit is     *)
(* about to insert it.  A submit is armed when the queued rows it listed    *)
(* leave room: only it can take a key that is not taken.                    *)
Used == {i \in Ids : row[i].state # "unused"}
LiveRows == {i \in Ids : Live(i)}

LiveKeys == {row[i].key : i \in LiveRows}
HeldKeys == {row[holds[w]].key : w \in {v \in Workers : holds[v] # 0}}
ComingKeys == {sub[s].key : s \in {t \in Submitters : sub[t].pc = "enqueue"}}
Taken == LiveKeys \cup HeldKeys \cup ComingKeys

Armed == {s \in Submitters : sub[s].pc = "leased" /\ Cardinality(sub[s].queued) < Cap}

(* What the count rests on: used rows keep their key, a submit's old row is *)
(* of the submit's key, and a leased row has a handler.                     *)
Tracked ==
    /\ IsFiniteSet(Used)
    /\ \A i \in Ids \ Used : row[i].key = NoKey
    /\ \A s \in Submitters : sub[s].pc = "leased" => IsFiniteSet(sub[s].queued)
    /\ \A s \in Submitters : sub[s].pc = "cancel" => row[sub[s].old].key = sub[s].key
    /\ \A i \in In("leased") : \E w \in Workers : holds[w] = i

RoomLeft ==
    Cardinality(Taken) + Cardinality(Armed)
      <= Cap + Cardinality(Submitters) - 1 + Cardinality(Workers)

Counted == QueueInv /\ Tracked /\ RoomLeft

-----------------------------------------------------------------------------
(* The image of a finite set is no larger, a union no larger than its parts *)
(* together, an injective image as large.                                   *)
LEMMA ImageIsNoLarger ==
    ASSUME NEW S, NEW f, IsFiniteSet(S)
    PROVE  IsFiniteSet({f[x] : x \in S}) /\ Cardinality({f[x] : x \in S}) <= Cardinality(S)
<1> DEFINE T == {f[x] : x \in S}
           g == [x \in S |-> f[x]]
<1>1. g \in Surjection(S, T)
  BY DEF Surjection
<1> HIDE DEF g, T
<1>2. IsFiniteSet(T) /\ Cardinality(T) <= Cardinality(S)
  BY <1>1, FS_Surjection
<1> QED BY <1>2 DEF T

LEMMA UnionIsNoLarger ==
    ASSUME NEW S, NEW T, IsFiniteSet(S), IsFiniteSet(T)
    PROVE  IsFiniteSet(S \cup T) /\ Cardinality(S \cup T) <= Cardinality(S) + Cardinality(T)
<1>1. IsFiniteSet(S \cap T)
  BY FS_Intersection
<1>2. Cardinality(S) \in Nat /\ Cardinality(T) \in Nat /\ Cardinality(S \cap T) \in Nat
  BY <1>1, FS_CardinalityType
<1>3. /\ IsFiniteSet(S \cup T)
      /\ Cardinality(S \cup T) = Cardinality(S) + Cardinality(T) - Cardinality(S \cap T)
  BY FS_Union, Zenon
<1> QED BY <1>2, <1>3

LEMMA CountKeys ==
    ASSUME QueueInv, Tracked, IsFiniteSet(Submitters), IsFiniteSet(Workers)
    PROVE  /\ IsFiniteSet(LiveRows) /\ IsFiniteSet(LiveKeys)
           /\ IsFiniteSet(HeldKeys) /\ Cardinality(HeldKeys) <= Cardinality(Workers)
           /\ IsFiniteSet(ComingKeys) /\ IsFiniteSet(Taken) /\ IsFiniteSet(Armed)
           /\ Cardinality(Taken) \in Nat /\ Cardinality(Armed) \in Nat
<1>1. IsFiniteSet(LiveRows) /\ IsFiniteSet(LiveKeys)
  <2>1. LiveRows \in SUBSET Used
    BY DEF LiveRows, Used, Live
  <2>2. IsFiniteSet(LiveRows)
    BY <2>1, FS_Subset DEF Tracked
  <2> DEFINE f == [i \in Ids |-> row[i].key]
  <2>3. LiveKeys = {f[i] : i \in LiveRows}
    BY DEF LiveKeys, LiveRows
  <2> HIDE DEF f
  <2> QED BY <2>2, <2>3, ImageIsNoLarger
<1>2. IsFiniteSet(HeldKeys) /\ Cardinality(HeldKeys) <= Cardinality(Workers)
  <2> DEFINE S == {v \in Workers : holds[v] # 0}
             f == [w \in Workers |-> row[holds[w]].key]
  <2>1. HeldKeys = {f[w] : w \in S}
    BY DEF HeldKeys
  <2>2. IsFiniteSet(S) /\ Cardinality(S) <= Cardinality(Workers)
    BY FS_Subset
  <2> HIDE DEF f, S
  <2>3. IsFiniteSet(HeldKeys) /\ Cardinality(HeldKeys) <= Cardinality(S)
    BY <2>1, <2>2, ImageIsNoLarger
  <2>4. Cardinality(S) \in Nat /\ Cardinality(Workers) \in Nat /\ Cardinality(HeldKeys) \in Nat
    BY <2>2, <2>3, FS_CardinalityType
  <2> QED BY <2>2, <2>3, <2>4
<1>3. IsFiniteSet(ComingKeys)
  <2> DEFINE S == {t \in Submitters : sub[t].pc = "enqueue"}
             f == [s \in Submitters |-> sub[s].key]
  <2>1. ComingKeys = {f[s] : s \in S}
    BY DEF ComingKeys
  <2>2. IsFiniteSet(S)
    BY FS_Subset
  <2> HIDE DEF f, S
  <2> QED BY <2>1, <2>2, ImageIsNoLarger
<1>4. IsFiniteSet(Taken)
  BY <1>1, <1>2, <1>3, UnionIsNoLarger DEF Taken
<1>5. IsFiniteSet(Armed)
  <2>1. Armed \in SUBSET Submitters
    BY DEF Armed
  <2> QED BY <2>1, FS_Subset
<1> QED BY <1>1, <1>2, <1>3, <1>4, <1>5, FS_CardinalityType

(* One live row per key: the live rows are no more than the keys taken.     *)
LEMMA LiveRowsAreTaken ==
    ASSUME QueueInv, Tracked, IsFiniteSet(Submitters), IsFiniteSet(Workers)
    PROVE  Cardinality(LiveRows) <= Cardinality(Taken)
<1> DEFINE f == [i \in LiveRows |-> row[i].key]
<1>1. f \in Injection(LiveRows, Taken)
  <2>1. \A i, j \in LiveRows : row[i].key = row[j].key => i = j
    BY DEF QueueInv, TableInv, OneLivePerKey, LiveRows
  <2>2. f \in [LiveRows -> Taken]
    BY DEF Taken, LiveKeys
  <2> QED BY <2>1, <2>2 DEF Injection, IsInjective
<1> HIDE DEF f
<1> QED BY <1>1, CountKeys, FS_Injection

-----------------------------------------------------------------------------
(* Steps that take no key and arm no submit.                                *)
LEMMA RoomKept ==
    ASSUME QueueInv, Tracked, RoomLeft, IsFiniteSet(Submitters), IsFiniteSet(Workers),
           Taken' \subseteq Taken, Armed' \subseteq Armed
    PROVE  RoomLeft'
<1>1. IsFiniteSet(Taken) /\ IsFiniteSet(Armed)
      /\ Cardinality(Taken) \in Nat /\ Cardinality(Armed) \in Nat
  BY CountKeys
<1>2. Cardinality(Taken') <= Cardinality(Taken) /\ Cardinality(Armed') <= Cardinality(Armed)
      /\ IsFiniteSet(Taken') /\ IsFiniteSet(Armed')
  BY <1>1, FS_Subset
<1>3. Cardinality(Taken') \in Nat /\ Cardinality(Armed') \in Nat
  BY <1>2, FS_CardinalityType
<1>4. Cap \in Nat /\ Cardinality(Submitters) \in Nat /\ Cardinality(Workers) \in Nat
  BY QueueAssumption, FS_CardinalityType
<1> QED BY <1>1, <1>2, <1>3, <1>4 DEF RoomLeft

(* The workers' steps, as the count sees them: only a held row comes back,  *)
(* and what a worker takes up was live.                                     *)
HandlersMove ==
    /\ \A i \in Ids :
         /\ row'[i].key = row[i].key
         /\ row'[i].state = "unused" <=> row[i].state = "unused"
         /\ Live(i)' => Live(i) \/ \E w \in Workers : holds[w] = i
         /\ row'[i].state = "leased" => \E w \in Workers : holds'[w] = i
    /\ \A w \in Workers : holds'[w] # 0 => holds'[w] = holds[w] \/ Live(holds'[w])
    /\ UNCHANGED sub

LEMMA TickIsHandled == ASSUME QueueInv, Tracked, Tick PROVE HandlersMove
<1> USE DEF QueueInv, TableInv, RowOK
<1>1. ASSUME NEW i \in Ids
      PROVE  row'[i].state = row[i].state /\ row'[i].key = row[i].key
  <2>1. row'[i] = [Aged(row[i]) EXCEPT !.left = row[i].left]
    BY DEF Tick
  <2>2. Aged(row[i]) \in Row /\ Aged(row[i]).state = row[i].state /\ Aged(row[i]).key = row[i].key
    BY RowsSound, AgedSound DEF Sound
  <2> QED BY <2>1, <2>2 DEF Row
<1>2. UNCHANGED <<sub, holds>>
  BY DEF Tick
<1> QED BY <1>1, <1>2 DEF HandlersMove, Live, Tracked, In

LEMMA StartIsHandled ==
    ASSUME QueueInv, Tracked, NEW w \in Workers, Start(w) PROVE HandlersMove
<1>1. PICK i \in Ids : Claim(w, i, Lease) /\ holds' = [holds EXCEPT ![w] = i]
  BY DEF Start
<1>2. holds[w] = 0 /\ UNCHANGED sub
  BY DEF Start
<1>3. row' = [row EXCEPT ![i] = Leased(row[i], w, Lease)] /\ Live(i)
  BY <1>1 DEF Claim, Runnable, Live
<1>4. /\ row'[i].state = "leased" /\ row'[i].key = row[i].key
      /\ \A j \in Ids \ {i} : row'[j] = row[j]
  BY <1>3 DEF Leased, Written, QueueInv, TableInv, RowOK
<1>5. holds'[w] = i /\ \A v \in Workers \ {w} : holds'[v] = holds[v]
  BY <1>1 DEF QueueInv
<1>6. ASSUME NEW j \in Ids, row'[j].state = "leased" PROVE \E v \in Workers : holds'[v] = j
  <2>1. CASE j = i
    BY <1>5, <2>1
  <2>2. CASE j # i
    <3>1. PICK v \in Workers : holds[v] = j
      BY <1>4, <1>6, <2>2 DEF Tracked, In
    <3>2. v # w
      BY <1>2, <3>1, NoRowAssumption
    <3> QED BY <1>5, <3>1, <3>2
  <2> QED BY <2>1, <2>2
<1> QED BY <1>2, <1>3, <1>4, <1>5, <1>6 DEF HandlersMove, Live

(* A worker lets go of a row that is no longer leased.                      *)
LEMMA LetGoIsHandled ==
    ASSUME QueueInv, Tracked, NEW w \in Workers, holds[w] # 0, UNCHANGED sub,
           holds' = [holds EXCEPT ![w] = 0],
           NEW r, r.key = row[holds[w]].key, r.state \notin {"leased", "unused"},
           row[holds[w]].state # "unused", row' = [row EXCEPT ![holds[w]] = r]
    PROVE  HandlersMove
<1> DEFINE i == holds[w]
<1>1. i \in Ids /\ row'[i] = r /\ \A j \in Ids \ {i} : row'[j] = row[j]
  BY DEF QueueInv, TableInv, RowOK
<1>2. holds'[w] = 0 /\ \A v \in Workers \ {w} : holds'[v] = holds[v]
  BY DEF QueueInv
<1>3. ASSUME NEW j \in Ids, row'[j].state = "leased" PROVE \E v \in Workers : holds'[v] = j
  <2>1. j # i /\ row[j].state = "leased"
    BY <1>1, <1>3
  <2>2. PICK v \in Workers : holds[v] = j
    BY <2>1 DEF Tracked, In
  <2> QED BY <1>2, <2>1, <2>2
<1> QED BY <1>1, <1>2, <1>3 DEF HandlersMove, Live

LEMMA SucceedIsHandled ==
    ASSUME QueueInv, Tracked, NEW w \in Workers, Succeed(w) PROVE HandlersMove
<1> DEFINE r == Finished(row[holds[w]], "done")
<1>1. r.key = row[holds[w]].key /\ r.state = "done"
  BY DEF Finished, Written
<1>2. /\ holds[w] # 0 /\ UNCHANGED sub /\ holds' = [holds EXCEPT ![w] = 0]
      /\ row' = [row EXCEPT ![holds[w]] = r] /\ row[holds[w]].state # "unused"
  BY DEF Succeed, Complete, Stored
<1> HIDE DEF r
<1> QED BY <1>1, <1>2, LetGoIsHandled

LEMMA FailIsHandled ==
    ASSUME QueueInv, Tracked, NEW w \in Workers, Fail(w) PROVE HandlersMove
<1> DEFINE i == holds[w]
<1>1. i # 0 /\ i \in Ids /\ UNCHANGED sub /\ holds' = [holds EXCEPT ![w] = 0]
  BY DEF Fail, QueueInv
<1>2. CASE Bury(i)
  <2> DEFINE r == Finished(row[i], "dead")
  <2>1. r.key = row[i].key /\ r.state = "dead"
    BY DEF Finished, Written
  <2>2. row' = [row EXCEPT ![i] = r] /\ row[i].state # "unused"
    BY <1>2 DEF Bury, Stored
  <2> HIDE DEF r
  <2> QED BY <1>1, <2>1, <2>2, LetGoIsHandled
<1>3. CASE Requeue(i, row[i].att)
  <2> DEFINE r == Requeued(row[i], Backoff(row[i].att))
  <2>1. r.key = row[i].key /\ r.state = "queued"
    BY DEF Requeued, Written
  <2>2. row' = [row EXCEPT ![i] = r] /\ row[i].state # "unused"
    BY <1>3 DEF Requeue, Stored
  <2> HIDE DEF r
  <2> QED BY <1>1, <2>1, <2>2, LetGoIsHandled
<1>4. CASE UNCHANGED row /\ ~IndexAllows(i, row[i].key)
  <2>1. row[i].state # "leased"
    BY <1>1, <1>4, LiveIsAllowed DEF QueueInv, TableInv, Live
  <2>2. holds'[w] = 0 /\ \A v \in Workers \ {w} : holds'[v] = holds[v]
    BY <1>1 DEF QueueInv
  <2>3. ASSUME NEW j \in Ids, row'[j].state = "leased" PROVE \E v \in Workers : holds'[v] = j
    <3>1. j # i /\ row[j].state = "leased"
      BY <1>4, <2>1, <2>3
    <3>2. PICK v \in Workers : holds[v] = j
      BY <3>1 DEF Tracked, In
    <3> QED BY <2>2, <3>1, <3>2
  <2> QED BY <1>1, <1>4, <2>2, <2>3 DEF HandlersMove, Live
<1>5. row[i].att \in Nat
  BY <1>1, RowsSound, Columns DEF QueueInv
<1> QED BY <1>2, <1>3, <1>4, <1>5, TimesAssumption DEF Fail

LEMMA HandlersKeepCount ==
    ASSUME Counted, QueueInv', HandlersMove, IsFiniteSet(Submitters), IsFiniteSet(Workers)
    PROVE  Counted'
<1> USE DEF Counted
<1>1. Used' = Used /\ UNCHANGED sub /\ \A i \in Ids : row'[i].key = row[i].key
  BY DEF HandlersMove, Used
<1>2. Tracked'
  <2>1. \A s \in Submitters : sub[s].pc = "cancel" => sub[s].old \in Ids
    BY DEF QueueInv
  <2>2. \A i \in In("leased")' : \E w \in Workers : holds'[w] = i
    BY DEF HandlersMove, In
  <2> QED BY <1>1, <2>1, <2>2 DEF Tracked
<1>3. LiveKeys' \subseteq LiveKeys \cup HeldKeys
  <2> SUFFICES ASSUME NEW i \in Ids, Live(i)' PROVE row'[i].key \in LiveKeys \cup HeldKeys
    BY DEF LiveKeys, LiveRows
  <2>1. row'[i].key = row[i].key
    BY <1>1
  <2>2. CASE Live(i)
    BY <2>1, <2>2 DEF LiveKeys, LiveRows
  <2>3. CASE \E w \in Workers : holds[w] = i
    BY <2>1, <2>3, NoRowAssumption DEF HeldKeys
  <2> QED BY <2>2, <2>3 DEF HandlersMove
<1>4. HeldKeys' \subseteq LiveKeys \cup HeldKeys
  <2> SUFFICES ASSUME NEW w \in Workers, holds'[w] # 0
               PROVE  row'[holds'[w]].key \in LiveKeys \cup HeldKeys
    BY DEF HeldKeys
  <2>1. holds'[w] \in Ids
    BY DEF QueueInv
  <2>2. row'[holds'[w]].key = row[holds'[w]].key
    BY <1>1, <2>1
  <2>3. CASE holds'[w] = holds[w]
    BY <2>2, <2>3 DEF HeldKeys
  <2>4. CASE Live(holds'[w])
    BY <2>1, <2>2, <2>4 DEF LiveKeys, LiveRows
  <2> QED BY <2>3, <2>4 DEF HandlersMove
<1>5. ComingKeys' = ComingKeys /\ Armed' = Armed
  BY <1>1 DEF ComingKeys, Armed
<1>6. Taken' \subseteq Taken
  BY <1>3, <1>4, <1>5 DEF Taken
<1>7. RoomLeft'
  BY <1>5, <1>6, RoomKept
<1> QED BY <1>2, <1>7

-----------------------------------------------------------------------------
(* The submits' steps.  One that writes no row and then neither lists the   *)
(* leased rows nor inserts, ...                                             *)
Others(s) == \A t \in Submitters \ {s} : sub'[t] = sub[t]

LEMMA OthersStay ==
    ASSUME QueueInv, NEW s \in Submitters, NEW to, Become(s, to)
    PROVE  Others(s) /\ sub'[s] = to
BY DEF QueueInv, Become, Others

LEMMA RowsUntouched ==
    ASSUME UNCHANGED <<row, holds>>
    PROVE  /\ Used' = Used /\ In("leased")' = In("leased") /\ In("queued")' = In("queued")
           /\ LiveKeys' = LiveKeys /\ HeldKeys' = HeldKeys
BY DEF Used, In, LiveKeys, LiveRows, HeldKeys, Live

LEMMA PauseKeepsCount ==
    ASSUME Counted, QueueInv', NEW s \in Submitters, UNCHANGED <<row, holds>>, Others(s),
           \/ sub'[s].pc \in {"idle", "queued", "existing"}
           \/ sub'[s].pc = "cancel" /\ row[sub'[s].old].key = sub'[s].key,
           IsFiniteSet(Submitters), IsFiniteSet(Workers)
    PROVE  Counted'
<1> USE DEF Counted
<1>1. Tracked'
  BY RowsUntouched DEF Tracked, Others
<1>2. Armed' \subseteq Armed /\ ComingKeys' \subseteq ComingKeys
  BY DEF Armed, ComingKeys, Others
<1>3. Taken' \subseteq Taken
  BY <1>2, RowsUntouched DEF Taken
<1> QED BY <1>1, <1>2, <1>3, RoomKept

(* ... one that lists the queued rows, and counts them: each has its key,   *)
(* and every leased row is held, ...                                        *)
LEMMA QueuedKeysFew ==
    ASSUME QueueInv, Tracked, IsFiniteSet(Submitters), IsFiniteSet(Workers)
    PROVE  /\ IsFiniteSet(In("queued")) /\ Cardinality(In("queued")) \in Nat
           /\ Cardinality(Taken)
                <= Cardinality(In("queued")) + Cardinality(Workers) + Cardinality(ComingKeys)
<1> DEFINE f == [i \in Ids |-> row[i].key]
           Q == In("queued")
           K == {f[i] : i \in Q}
<1>1. Q \in SUBSET Used
  BY DEF Used, In
<1>2. IsFiniteSet(Q)
  BY <1>1, FS_Subset DEF Tracked
<1>3. IsFiniteSet(K) /\ Cardinality(K) <= Cardinality(Q)
  BY <1>2, ImageIsNoLarger
<1>4. LiveKeys \subseteq K \cup HeldKeys
  <2> SUFFICES ASSUME NEW i \in Ids, Live(i) PROVE row[i].key \in K \cup HeldKeys
    BY DEF LiveKeys, LiveRows
  <2>1. CASE row[i].state = "queued"
    <3>1. i \in Q /\ f[i] = row[i].key
      BY <2>1 DEF In
    <3> QED BY <3>1
  <2>2. CASE row[i].state = "leased"
    BY <2>2, NoRowAssumption DEF Tracked, In, HeldKeys
  <2> QED BY <2>1, <2>2 DEF Live
<1> DEFINE A == K \cup HeldKeys
           B == A \cup ComingKeys
<1>5. Taken \in SUBSET B
  BY <1>4 DEF Taken
<1> HIDE DEF f, K
<1>6. IsFiniteSet(HeldKeys) /\ Cardinality(HeldKeys) <= Cardinality(Workers)
      /\ IsFiniteSet(ComingKeys) /\ Cardinality(Taken) \in Nat
  BY CountKeys
<1>7. IsFiniteSet(A) /\ Cardinality(A) <= Cardinality(K) + Cardinality(HeldKeys)
  BY <1>3, <1>6, UnionIsNoLarger
<1> HIDE DEF A
<1>8. IsFiniteSet(B) /\ Cardinality(B) <= Cardinality(A) + Cardinality(ComingKeys)
  BY <1>6, <1>7, UnionIsNoLarger
<1> HIDE DEF B
<1>9. Cardinality(Taken) <= Cardinality(B)
  BY <1>5, <1>8, FS_Subset
<1>10. {Cardinality(Q), Cardinality(K), Cardinality(A), Cardinality(B),
        Cardinality(HeldKeys), Cardinality(ComingKeys), Cardinality(Workers)} \subseteq Nat
  BY <1>2, <1>3, <1>6, <1>7, <1>8, FS_CardinalityType
<1> HIDE DEF Q
<1>11. Cardinality(Taken)
         <= Cardinality(Q) + Cardinality(Workers) + Cardinality(ComingKeys)
  BY ONLY <1>3, <1>6, <1>7, <1>8, <1>9, <1>10
<1> QED BY <1>2, <1>10, <1>11 DEF Q

LEMMA InsertersAreFew ==
    ASSUME NEW D, NEW S \in SUBSET D, NEW A \in SUBSET D, S \cap A = {}, NEW f,
           IsFiniteSet(D)
    PROVE  Cardinality({f[s] : s \in S}) + Cardinality(A) <= Cardinality(D)
<1> DEFINE K == {f[s] : s \in S}
<1>1. IsFiniteSet(S) /\ IsFiniteSet(A) /\ IsFiniteSet(S \cup A)
      /\ Cardinality(S \cup A) <= Cardinality(D)
  <2>1. S \cup A \in SUBSET D
    OBVIOUS
  <2> QED BY <2>1, FS_Subset
<1>2. IsFiniteSet(K) /\ Cardinality(K) <= Cardinality(S)
  BY <1>1, ImageIsNoLarger
<1> HIDE DEF K
<1>3. Cardinality(S \cup A) = Cardinality(S) + Cardinality(A)
  <2>1. Cardinality(S \cup A) = Cardinality(S) + Cardinality(A) - Cardinality(S \cap A)
    BY <1>1, FS_Union, Zenon
  <2>2. Cardinality(S \cap A) = 0
    BY FS_EmptySet
  <2>3. Cardinality(S) \in Nat /\ Cardinality(A) \in Nat
    BY <1>1, FS_CardinalityType
  <2> QED BY <2>1, <2>2, <2>3
<1>4. {Cardinality(S), Cardinality(A), Cardinality(K), Cardinality(D)} \subseteq Nat
  BY <1>1, <1>2, FS_CardinalityType
<1>5. Cardinality(K) + Cardinality(A) <= Cardinality(D)
  BY <1>1, <1>2, <1>3, <1>4
<1> QED BY <1>5 DEF K

LEMMA ListQueuedKeepsCount ==
    ASSUME Counted, QueueInv', NEW s \in Submitters, ListQueued(s),
           IsFiniteSet(Submitters), IsFiniteSet(Workers)
    PROVE  Counted'
<1> USE DEF Counted
<1> DEFINE Q == In("queued")
           to == [sub[s] EXCEPT !.pc = "leased", !.queued = Q]
<1>1. sub[s].pc = "queued" /\ sub[s] \in Submitting
      /\ UNCHANGED <<row, holds>> /\ Become(s, to)
  BY SubmitTypes, ListedOrder DEF ListQueued
<1>2. to.pc = "leased" /\ to.queued = Q
  BY <1>1 DEF Submitting
<1>3. Others(s) /\ sub'[s].pc = "leased" /\ sub'[s].queued = Q
  <2> HIDE DEF to
  <2> QED BY <1>1, <1>2, OthersStay
<1>4. IsFiniteSet(Q) /\ Cardinality(Q) \in Nat
      /\ Cardinality(Taken) <= Cardinality(Q) + Cardinality(Workers) + Cardinality(ComingKeys)
  BY QueuedKeysFew
<1> HIDE DEF Q
<1>5. Tracked'
  BY <1>1, <1>3, <1>4, RowsUntouched DEF Tracked, Others
<1>6. ComingKeys' = ComingKeys
  BY <1>1, <1>3 DEF ComingKeys, Others
<1>7. Taken' = Taken
  BY <1>1, <1>6, RowsUntouched DEF Taken
<1>8. CASE Cardinality(Q) >= Cap
  <2>1. ~(Cardinality(Q) < Cap)
    BY <1>4, <1>8, QueueAssumption
  <2>2. Armed' \subseteq Armed
    BY <1>3, <2>1 DEF Armed, Others
  <2> QED BY <1>5, <1>7, <2>2, RoomKept
<1>9. CASE Cardinality(Q) < Cap
  <2>1. Cardinality(ComingKeys') + Cardinality(Armed') <= Cardinality(Submitters)
        /\ IsFiniteSet(ComingKeys') /\ IsFiniteSet(Armed')
    <3> DEFINE S == {t \in Submitters : sub'[t].pc = "enqueue"}
               f == [t \in Submitters |-> sub'[t].key]
    <3>1. S \in SUBSET Submitters /\ Armed' \in SUBSET Submitters /\ S \cap Armed' = {}
      BY DEF Armed
    <3>2. ComingKeys' = {f[t] : t \in S}
      BY DEF ComingKeys
    <3> HIDE DEF S, f
    <3>3. IsFiniteSet(ComingKeys') /\ IsFiniteSet(Armed')
      BY <1>6, <3>1, FS_Subset, CountKeys
    <3> QED BY <3>1, <3>2, <3>3, InsertersAreFew
  <2>2. {Cardinality(Taken), Cardinality(Armed'), Cardinality(ComingKeys),
         Cardinality(Submitters), Cardinality(Workers)} \subseteq Nat
    BY <1>6, <2>1, CountKeys, FS_CardinalityType
  <2>3. Cardinality(Taken') + Cardinality(Armed')
          <= Cap + Cardinality(Submitters) - 1 + Cardinality(Workers)
    BY <1>4, <1>6, <1>7, <1>9, <2>1, <2>2, QueueAssumption
  <2> QED BY <1>5, <2>3 DEF RoomLeft
<1> QED BY <1>4, <1>8, <1>9, QueueAssumption

(* ... one that finds room, and so was armed, ...                           *)
LEMMA AdmittedKeepsCount ==
    ASSUME Counted, QueueInv', NEW s \in Submitters, UNCHANGED <<row, holds>>, Others(s),
           sub[s].pc = "leased", sub'[s].pc = "enqueue", sub'[s].key = sub[s].key,
           Room(Cardinality(sub[s].queued) + Cardinality(In("leased"))),
           IsFiniteSet(Submitters), IsFiniteSet(Workers)
    PROVE  Counted'
<1> USE DEF Counted
<1>1. Tracked'
  BY RowsUntouched DEF Tracked, Others
<1>2. s \in Armed
  <2>1. In("leased") \in SUBSET Used
    BY DEF In, Used
  <2>2. IsFiniteSet(In("leased")) /\ IsFiniteSet(sub[s].queued)
    BY <2>1, FS_Subset DEF Tracked
  <2>3. Cardinality(In("leased")) \in Nat /\ Cardinality(sub[s].queued) \in Nat
    BY <2>2, FS_CardinalityType
  <2> QED BY <2>3, QueueAssumption DEF Armed, Room
<1>3. Armed' = Armed \ {s} /\ ComingKeys' \subseteq ComingKeys \cup {sub[s].key}
  BY DEF Armed, ComingKeys, Others
<1> DEFINE T == Taken \cup {sub[s].key}
<1>4. Taken' \in SUBSET T
  BY <1>3, RowsUntouched DEF Taken
<1>5. IsFiniteSet(Taken) /\ IsFiniteSet(Armed)
      /\ Cardinality(Taken) \in Nat /\ Cardinality(Armed) \in Nat
  BY CountKeys
<1>6. IsFiniteSet(T) /\ Cardinality(T) <= Cardinality(Taken) + 1
  <2>1. /\ IsFiniteSet(T)
        /\ Cardinality(T) = IF sub[s].key \in Taken THEN Cardinality(Taken)
                            ELSE Cardinality(Taken) + 1
    BY <1>5, FS_AddElement, Zenon
  <2> HIDE DEF T
  <2> QED BY <1>5, <2>1
<1> HIDE DEF T
<1>7. Cardinality(Taken') <= Cardinality(T) /\ IsFiniteSet(Taken')
  BY <1>4, <1>6, FS_Subset
<1>8. Cardinality(Armed') = Cardinality(Armed) - 1
  BY <1>2, <1>3, <1>5, FS_RemoveElement
<1>9. {Cardinality(Taken'), Cardinality(T), Cardinality(Submitters), Cardinality(Workers)}
        \subseteq Nat
  BY <1>6, <1>7, FS_CardinalityType
<1>10. RoomLeft'
  BY <1>5, <1>6, <1>7, <1>8, <1>9, QueueAssumption DEF RoomLeft
<1> QED BY <1>1, <1>10

(* ... one that cancels the row it supersedes, whose key it then holds      *)
(* itself, ...                                                              *)
LEMMA CancelKeepsCount ==
    ASSUME Counted, QueueInv', NEW s \in Submitters, sub[s].pc = "cancel",
           Cancel(sub[s].old), Goto(s, "enqueue"), UNCHANGED holds,
           IsFiniteSet(Submitters), IsFiniteSet(Workers)
    PROVE  Counted'
<1> USE DEF Counted
<1> DEFINE i == sub[s].old
<1>1. i \in Ids /\ sub[s] \in Submitting /\ Live(i)
      /\ row' = [row EXCEPT ![i] = Finished(row[i], "failed")]
  BY SubmitTypes DEF QueueInv, Cancel
<1>2. /\ row'[i].state = "failed" /\ row'[i].key = row[i].key
      /\ \A j \in Ids \ {i} : row'[j] = row[j]
  BY <1>1 DEF Finished, Written, QueueInv, TableInv, RowOK
<1>3. Others(s) /\ sub'[s].pc = "enqueue" /\ sub'[s].key = sub[s].key
  <2> DEFINE to == [sub[s] EXCEPT !.pc = "enqueue"]
  <2>1. to.pc = "enqueue" /\ to.key = sub[s].key
    BY <1>1 DEF Submitting
  <2>2. Become(s, to)
    BY DEF Goto
  <2> HIDE DEF to
  <2> QED BY <2>1, <2>2, OthersStay
<1>4. Used' = Used /\ \A j \in Ids : row'[j].key = row[j].key
  BY <1>1, <1>2 DEF Used, Live
<1>5. In("leased")' \subseteq In("leased") /\ LiveRows' \subseteq LiveRows
  BY <1>2 DEF In, LiveRows, Live
<1>6. Tracked'
  <2>1. \A t \in Submitters : sub[t].pc = "cancel" => sub[t].old \in Ids
    BY DEF QueueInv
  <2> QED BY <1>3, <1>4, <1>5, <2>1 DEF Tracked, Others
<1>7. Taken' \subseteq Taken
  <2>1. LiveKeys' \subseteq LiveKeys
    <3>1. LiveRows' \subseteq Ids
      BY DEF LiveRows
    <3> QED BY <1>4, <1>5, <3>1 DEF LiveKeys
  <2>2. HeldKeys' = HeldKeys
    <3>1. \A w \in Workers : holds[w] # 0 => row'[holds[w]].key = row[holds[w]].key
      BY <1>4 DEF QueueInv
    <3> QED BY <3>1 DEF HeldKeys
  <2>3. sub[s].key \in LiveKeys
    BY <1>1 DEF Tracked, LiveKeys, LiveRows
  <2>4. ComingKeys' \subseteq ComingKeys \cup {sub[s].key}
    BY <1>3 DEF ComingKeys, Others
  <2> QED BY <2>1, <2>2, <2>3, <2>4 DEF Taken
<1>8. Armed' \subseteq Armed
  BY <1>3 DEF Armed, Others
<1> QED BY <1>6, <1>7, <1>8, RoomKept

(* ... and one that inserts the row it held the key for.                    *)
LEMMA EnqueueKeepsCount ==
    ASSUME Counted, QueueInv', NEW s \in Submitters, sub[s].pc = "enqueue",
           Enqueue(sub[s].key, 0), Become(s, Resting), UNCHANGED holds,
           IsFiniteSet(Submitters), IsFiniteSet(Workers)
    PROVE  Counted'
<1> USE DEF Counted
<1>1. PICK i \in Ids : row[i].state = "unused" /\ row' = [row EXCEPT ![i] = New(sub[s].key, 0)]
  BY DEF Enqueue
<1>2. /\ row'[i].state = "queued" /\ row'[i].key = sub[s].key
      /\ \A j \in Ids \ {i} : row'[j] = row[j]
  BY <1>1 DEF New, QueueInv, TableInv, RowOK
<1>3. Others(s) /\ sub'[s].pc = "idle"
  BY OthersStay, RestingIsIdle
<1>4. IsFiniteSet(Used') /\ Used' = Used \cup {i}
  <2>1. Used' = Used \cup {i}
    BY <1>1, <1>2 DEF Used
  <2> QED BY <2>1, FS_AddElement DEF Tracked
<1>5. \A j \in Used : row'[j] = row[j]
  BY <1>1, <1>2 DEF Used
<1>6. \A t \in Submitters : sub[t].pc = "cancel" => sub[t].old \in Used
  <2> SUFFICES ASSUME NEW t \in Submitters, sub[t].pc = "cancel" PROVE sub[t].old \in Used
    OBVIOUS
  <2>1. sub[t].key \in Keys /\ sub[t].old \in Ids
    BY SubmitTypes DEF Submitting, QueueInv
  <2> QED BY <2>1, KeysAssumption DEF Tracked
<1>7. \A j \in Ids : row'[j].key = row[j].key \/ row'[j].key = sub[s].key
  BY <1>2
<1>8. Tracked'
  <2>1. \A j \in Ids \ Used' : row'[j].key = NoKey
    BY <1>2, <1>4 DEF Tracked
  <2>2. In("leased")' \subseteq In("leased")
    BY <1>2 DEF In
  <2> QED BY <1>3, <1>4, <1>5, <1>6, <2>1, <2>2 DEF Tracked, Others
<1>9. Taken' \subseteq Taken
  <2>1. sub[s].key \in ComingKeys
    BY DEF ComingKeys
  <2>2. LiveKeys' \subseteq LiveKeys \cup {sub[s].key}
    BY <1>2 DEF LiveKeys, LiveRows, Live
  <2>3. HeldKeys' \subseteq HeldKeys \cup {sub[s].key}
    <3>1. \A w \in Workers : holds[w] # 0 => holds[w] \in Ids
      BY DEF QueueInv
    <3> QED BY <1>7, <3>1 DEF HeldKeys
  <2>4. ComingKeys' \subseteq ComingKeys
    BY <1>3 DEF ComingKeys, Others
  <2> QED BY <2>1, <2>2, <2>3, <2>4 DEF Taken
<1>10. Armed' \subseteq Armed
  BY <1>3 DEF Armed, Others
<1> QED BY <1>8, <1>9, <1>10, RoomKept

-----------------------------------------------------------------------------
LEMMA ListLeasedKeepsCount ==
    ASSUME Counted, QueueInv', NEW s \in Submitters, ListLeased(s),
           IsFiniteSet(Submitters), IsFiniteSet(Workers)
    PROVE  Counted'
<1> USE DEF Counted
<1> DEFINE existing == Existing(s, In("leased"))
           depth == Cardinality(sub[s].queued) + Cardinality(In("leased"))
<1>1. sub[s].pc = "leased" /\ sub[s] \in Submitting /\ UNCHANGED <<row, holds>>
  BY SubmitTypes DEF ListLeased
<1>2. ASSUME NEW i \in existing, Become(s, [sub[s] EXCEPT !.pc = "cancel", !.old = i])
      PROVE  Counted'
  <2> DEFINE to == [sub[s] EXCEPT !.pc = "cancel", !.old = i]
  <2>1. to.pc = "cancel" /\ to.old = i /\ to.key = sub[s].key
    BY <1>1 DEF Submitting
  <2>2. row[i].key = sub[s].key
    BY DEF Existing, OfKey
  <2>3. Become(s, to)
    BY <1>2
  <2> HIDE DEF to
  <2>4. Others(s) /\ sub'[s] = to
    BY <2>3, OthersStay
  <2> QED BY <1>1, <2>1, <2>2, <2>4, PauseKeepsCount
<1>3. ASSUME Room(depth), Goto(s, "enqueue") PROVE Counted'
  <2> DEFINE to == [sub[s] EXCEPT !.pc = "enqueue"]
  <2>1. to.pc = "enqueue" /\ to.key = sub[s].key /\ Become(s, to)
    BY <1>1, <1>3 DEF Submitting, Goto
  <2> HIDE DEF to
  <2> QED BY <1>1, <1>3, <2>1, OthersStay, AdmittedKeepsCount
<1>4. ASSUME Become(s, Resting) PROVE Counted'
  BY <1>1, <1>4, OthersStay, RestingIsIdle, PauseKeepsCount
<1>5. \/ \E i \in existing : Become(s, [sub[s] EXCEPT !.pc = "cancel", !.old = i])
      \/ Room(depth) /\ Goto(s, "enqueue")
      \/ Become(s, Resting)
  BY ListedOrder DEF ListLeased
<1> HIDE DEF existing, depth
<1> QED BY <1>2, <1>3, <1>4, <1>5

LEMMA CountStep ==
    ASSUME Counted, [Next]_vars, IsFiniteSet(Submitters), IsFiniteSet(Workers)
    PROVE  Counted'
<1>1. QueueInv'
  BY QueueStep DEF Counted
<1>2. ASSUME NEW s \in Submitters, ListQueued(s) \/ ListLeased(s) PROVE Counted'
  BY <1>1, <1>2, ListQueuedKeepsCount, ListLeasedKeepsCount
<1>3. ASSUME NEW s \in Submitters, CancelOld(s) PROVE Counted'
  <2>1. CASE Cancel(sub[s].old) /\ Goto(s, "enqueue")
    BY <1>1, <1>3, <2>1, CancelKeepsCount DEF CancelOld
  <2>2. CASE UNCHANGED row /\ Become(s, Resting)
    <3>1. UNCHANGED holds
      BY <1>3 DEF CancelOld
    <3>2. Others(s) /\ sub'[s].pc = "idle"
      BY <2>2, OthersStay, RestingIsIdle DEF Counted
    <3> QED BY <1>1, <2>2, <3>1, <3>2, PauseKeepsCount
  <2> QED BY <1>3, <2>1, <2>2 DEF CancelOld
<1>4. ASSUME NEW s \in Submitters, EnqueueNew(s) PROVE Counted'
  <2>1. sub[s].pc = "enqueue" /\ UNCHANGED holds
    BY <1>4 DEF EnqueueNew
  <2>2. CASE UNCHANGED row /\ Goto(s, "existing")
    <3> DEFINE to == [sub[s] EXCEPT !.pc = "existing"]
    <3>1. sub[s] \in Submitting
      BY <2>1, SubmitTypes DEF Counted
    <3>2. to.pc = "existing" /\ Become(s, to)
      BY <2>2, <3>1 DEF Submitting, Goto
    <3> HIDE DEF to
    <3> QED BY <1>1, <2>1, <2>2, <3>2, OthersStay, PauseKeepsCount DEF Counted
  <2>3. CASE Enqueue(sub[s].key, 0) /\ Become(s, Resting)
    BY <1>1, <2>1, <2>3, EnqueueKeepsCount
  <2> QED BY <1>4, <2>2, <2>3 DEF EnqueueNew
<1>8. ASSUME NEW s \in Submitters, FetchExisting(s) PROVE Counted'
  BY <1>1, <1>8, OthersStay, RestingIsIdle, PauseKeepsCount DEF FetchExisting, Counted
<1>5. ASSUME NEW s \in Submitters, NEW k \in Keys, Push(s, k) PROVE Counted'
  <2> DEFINE to == [pc |-> "queued", key |-> k, commit |-> pushes + 1, queued |-> {}, old |-> 0]
  <2>1. to.pc = "queued" /\ Become(s, to) /\ UNCHANGED <<row, holds>>
    BY <1>5 DEF Push
  <2> HIDE DEF to
  <2> QED BY <1>1, <2>1, OthersStay, PauseKeepsCount DEF Counted
<1>6. CASE Tick \/ \E w \in Workers : Start(w) \/ Succeed(w) \/ Fail(w)
  <2>1. HandlersMove
    BY <1>6, TickIsHandled, StartIsHandled, SucceedIsHandled, FailIsHandled DEF Counted
  <2> QED BY <1>1, <2>1, HandlersKeepCount
<1>7. CASE UNCHANGED vars
  <2>1. UNCHANGED <<row, holds, sub>>
    BY <1>7 DEF vars
  <2>2. Tracked' /\ Armed' = Armed /\ Taken' = Taken
    BY <2>1, RowsUntouched DEF Counted, Tracked, Armed, Taken, ComingKeys
  <2> QED BY <1>1, <2>2, RoomKept DEF Counted
<1> QED BY <1>2, <1>3, <1>4, <1>5, <1>6, <1>7, <1>8 DEF Next, Submit

LEMMA CountInit ==
    ASSUME Init, IsFiniteSet(Submitters), Submitters # {}, IsFiniteSet(Workers)
    PROVE  Counted
<1>1. Used = {} /\ Taken = {} /\ Armed = {} /\ In("leased") = {}
  BY RestingIsIdle
  DEF Init, TableInit, Unused, Used, Taken, LiveKeys, LiveRows, HeldKeys, ComingKeys, Armed, Live, In
<1>2. Tracked
  BY <1>1, RestingIsIdle, FS_EmptySet DEF Init, TableInit, Unused, Tracked
<1>3. Cardinality(Submitters) >= 1 /\ Cardinality(Submitters) \in Nat /\ Cardinality(Workers) \in Nat
  BY FS_CardinalityType, FS_EmptySet
<1> QED BY <1>1, <1>2, <1>3, QueueInit, FS_EmptySet, QueueAssumption DEF Counted, RoomLeft

(* The queue stays under its cap but for the submits that overlap and the   *)
(* rows the workers hold, whichever builds fail late and come back          *)
(* (queue.rs, submit).  With no submit there is no queue.                   *)
THEOREM CapIsKept ==
    ASSUME IsFiniteSet(Submitters), Submitters # {}, IsFiniteSet(Workers)
    PROVE  Spec => []QueueSafe
<1>1. Init => Counted
  BY CountInit
<1>2. Counted /\ [Next]_vars => Counted'
  BY CountStep
<1>3. Counted => QueueSafe
  <2> SUFFICES ASSUME Counted PROVE QueueSafe
    OBVIOUS
  <2>1. TypeOK
    BY DEF Counted, QueueInv, TableInv, TypeOK
  <2>2. Cardinality(LiveRows) <= Cardinality(Taken) /\ IsFiniteSet(LiveRows)
        /\ Cardinality(Taken) \in Nat /\ Cardinality(Armed) \in Nat
    BY LiveRowsAreTaken, CountKeys DEF Counted
  <2>3. Cardinality(LiveRows) \in Nat /\ Cardinality(Submitters) \in Nat
        /\ Cardinality(Workers) \in Nat
    BY <2>2, FS_CardinalityType
  <2> QED BY <2>1, <2>2, <2>3, QueueAssumption DEF QueueSafe, CapHeld, LiveRows, Counted, RoomLeft
<1> QED BY <1>1, <1>2, <1>3, PTL DEF Spec

-----------------------------------------------------------------------------
(* The order of the queue.  A sequence is sorted by a relation, a set of    *)
(* pairs, that is a strict order of a set.                                  *)
Sorted(s, R) == \A m, n \in DOMAIN s : m < n => <<s[m], s[n]>> \in R
Elements(s) == {s[n] : n \in DOMAIN s}
Preceding(S, R, x) == {y \in S : <<y, x>> \in R}
Strict(S, R) ==
    /\ \A x \in S : <<x, x>> \notin R
    /\ \A x, y \in S : x # y => <<x, y>> \in R \/ <<y, x>> \in R
    /\ \A x, y, z \in S : <<x, y>> \in R /\ <<y, z>> \in R => <<x, z>> \in R

(* A set of numbers has a least one.                                        *)
LEMMA LeastOf ==
    ASSUME NEW S \in SUBSET Nat, S # {}
    PROVE  \E x \in S : \A y \in S : x <= y
<1> DEFINE LT == {ss \in Nat \X Nat : ss[1] < ss[2]}
<1>1. IsWellFoundedOn(LT, Nat)
  BY NatLessThanWellFounded, Zenon DEF OpToRel
<1>2. PICK x \in S : \A y \in S : ~ (<<y, x>> \in LT)
  <2> HIDE DEF LT
  <2> QED BY <1>1, WFMin
<1>3. ASSUME NEW y \in S PROVE x <= y
  <2>1. x \in Nat /\ y \in Nat /\ ~ (<<y, x>> \in LT)
    BY <1>2
  <2> QED BY <2>1
<1> QED BY <1>3

(* Of two elements, what is before the first is before the second too.      *)
LEMMA PrecedingGrows ==
    ASSUME NEW S, IsFiniteSet(S), NEW R, Strict(S, R), NEW x \in S, NEW y \in S, <<x, y>> \in R
    PROVE  Cardinality(Preceding(S, R, x)) < Cardinality(Preceding(S, R, y))
<1> DEFINE X == Preceding(S, R, x)
           Y == Preceding(S, R, y)
<1>1. X \subseteq Y /\ x \in Y /\ x \notin X /\ X \subseteq S /\ Y \subseteq S
  BY DEF Preceding, Strict
<1>2. IsFiniteSet(X) /\ IsFiniteSet(Y) /\ Cardinality(Y) \in Nat
  BY <1>1, FS_Subset, FS_CardinalityType
<1> HIDE DEF X, Y
<1>3. Cardinality(X) \in Nat /\ Cardinality(X \cup {x}) = Cardinality(X) + 1
  BY <1>1, <1>2, FS_AddElement, FS_CardinalityType
<1>4. Cardinality(X \cup {x}) <= Cardinality(Y)
  BY <1>1, <1>2, FS_Subset
<1> QED BY <1>2, <1>3, <1>4 DEF X, Y

LEMMA PrecedingType ==
    ASSUME NEW S, IsFiniteSet(S), NEW R, Strict(S, R), NEW x \in S
    PROVE  /\ Cardinality(S) \in Nat
           /\ Cardinality(Preceding(S, R, x)) \in 0 .. Cardinality(S) - 1
<1> DEFINE X == Preceding(S, R, x)
<1>1. X \subseteq S /\ X \subseteq S \ {x}
  BY DEF Preceding, Strict
<1>2. IsFiniteSet(S \ {x}) /\ Cardinality(S \ {x}) = Cardinality(S) - 1 /\ Cardinality(S) \in Nat
  BY FS_RemoveElement, FS_CardinalityType
<1>3. Cardinality(X) \in Nat /\ Cardinality(X) <= Cardinality(S \ {x})
  BY <1>1, <1>2, FS_Subset, FS_CardinalityType
<1> QED BY <1>2, <1>3

(* InOrder sorts: every element once, the n-th with n - 1 before it.        *)
LEMMA InOrderSorts ==
    ASSUME NEW S, IsFiniteSet(S), NEW R, Strict(S, R)
    PROVE  /\ InOrder(S, R) \in Seq(S) /\ Len(InOrder(S, R)) = Cardinality(S)
           /\ Cardinality(S) \in Nat
           /\ Elements(InOrder(S, R)) = S
           /\ Sorted(InOrder(S, R), R)
           /\ \A n \in DOMAIN InOrder(S, R) :
                Cardinality(Preceding(S, R, InOrder(S, R)[n])) = n - 1
           /\ \A x \in S : /\ Cardinality(Preceding(S, R, x)) + 1 \in DOMAIN InOrder(S, R)
                           /\ InOrder(S, R)[Cardinality(Preceding(S, R, x)) + 1] = x
<1> DEFINE c == Cardinality(S)
           place == [x \in S |-> Cardinality(Preceding(S, R, x)) + 1]
           o == InOrder(S, R)
<1>1. c \in Nat /\ \A x \in S : Cardinality(Preceding(S, R, x)) \in 0 .. c - 1
  BY PrecedingType, FS_CardinalityType
<1>2. place \in [S -> 1 .. c]
  <2>1. ASSUME NEW x \in S PROVE Cardinality(Preceding(S, R, x)) + 1 \in 1 .. c
    BY <1>1
  <2> QED BY <2>1
<1>3. ASSUME NEW x \in S, NEW y \in S, x # y PROVE place[x] # place[y]
  <2>1. Cardinality(Preceding(S, R, x)) \in Nat /\ Cardinality(Preceding(S, R, y)) \in Nat
    BY <1>1
  <2>2. <<x, y>> \in R \/ <<y, x>> \in R
    BY <1>3 DEF Strict
  <2>3. Cardinality(Preceding(S, R, x)) # Cardinality(Preceding(S, R, y))
    BY <2>1, <2>2, PrecedingGrows
  <2>4. place[x] = Cardinality(Preceding(S, R, x)) + 1 /\ place[y] = Cardinality(Preceding(S, R, y)) + 1
    OBVIOUS
  <2> HIDE DEF place
  <2> QED BY <2>1, <2>3, <2>4
<1>4. place \in Injection(S, 1 .. c)
  <2> HIDE DEF place
  <2> QED BY <1>2, <1>3 DEF Injection, IsInjective
<1>5. IsFiniteSet(1 .. c) /\ Cardinality(1 .. c) = c
  BY <1>1, FS_Interval
<1>6. place \in Surjection(S, 1 .. c)
  <2> HIDE DEF place
  <2>1. Cardinality(S) = Cardinality(1 .. c)
    BY <1>5
  <2> QED BY <1>4, <1>5, <2>1, FS_Injection
<1>7. ASSUME NEW n \in 1 .. c
      PROVE  o[n] \in S /\ Cardinality(Preceding(S, R, o[n])) = n - 1 /\ place[o[n]] = n
  <2>1. PICK x \in S : place[x] = n
    <3> HIDE DEF place
    <3> QED BY <1>6 DEF Surjection
  <2>2. Cardinality(Preceding(S, R, x)) + 1 = n /\ Cardinality(Preceding(S, R, x)) \in Nat
    BY <2>1, <1>1
  <2>3. Cardinality(Preceding(S, R, x)) = n - 1
    BY <2>2
  <2>4. o[n] = CHOOSE y \in S : Cardinality(Preceding(S, R, y)) = n - 1
    BY DEF InOrder, Preceding
  <2>5. o[n] \in S /\ Cardinality(Preceding(S, R, o[n])) = n - 1
    <3> HIDE DEF o
    <3> QED BY <2>3, <2>4
  <2>6. place[o[n]] = n - 1 + 1
    <3> HIDE DEF o
    <3> QED BY <2>5
  <2> QED BY <2>5, <2>6
<1>8. DOMAIN o = 1 .. c /\ o = [n \in 1 .. c |-> o[n]]
  <2> DEFINE h(n) == CHOOSE x \in S : Cardinality({y \in S : <<y, x>> \in R}) = n - 1
  <2>1. o = [n \in 1 .. c |-> h(n)]
    BY DEF InOrder
  <2> HIDE DEF o, h
  <2> QED BY <2>1
<1>9. o \in Seq(S) /\ Len(o) = c
  <2>1. o \in [1 .. c -> S]
    <3> HIDE DEF o
    <3> QED BY <1>7, <1>8
  <2> HIDE DEF o
  <2> QED BY <1>1, <2>1
<1>10. ASSUME NEW x \in S PROVE place[x] \in DOMAIN o /\ o[place[x]] = x
  <2>1. place[x] \in 1 .. c
    BY <1>2
  <2>2. o[place[x]] \in S /\ place[o[place[x]]] = place[x]
    BY <2>1, <1>7
  <2> HIDE DEF place, o
  <2> QED BY <1>3, <1>8, <2>1, <2>2
<1>11. Elements(o) = S
  <2> HIDE DEF place, o
  <2> QED BY <1>7, <1>8, <1>10 DEF Elements
<1>12. Sorted(o, R)
  <2> SUFFICES ASSUME NEW m \in 1 .. c, NEW n \in 1 .. c, m < n PROVE <<o[m], o[n]>> \in R
    <3> HIDE DEF o
    <3> QED BY <1>8 DEF Sorted
  <2>1. o[m] \in S /\ o[n] \in S
        /\ Cardinality(Preceding(S, R, o[m])) = m - 1 /\ Cardinality(Preceding(S, R, o[n])) = n - 1
    BY <1>7
  <2> HIDE DEF o
  <2>2. m - 1 < n - 1
    BY <1>1
  <2>3. ~ (n - 1 < m - 1) /\ m - 1 # n - 1
    BY <1>1
  <2>4. o[m] # o[n]
    BY <2>1, <2>3
  <2>5. CASE <<o[n], o[m]>> \in R
    BY <2>1, <2>3, <2>5, PrecedingGrows
  <2> QED BY <2>1, <2>4, <2>5 DEF Strict
<1>13. \A x \in S : place[x] = Cardinality(Preceding(S, R, x)) + 1
  OBVIOUS
<1> HIDE DEF o, place
<1> QED
  <2>1. \A n \in DOMAIN o : Cardinality(Preceding(S, R, o[n])) = n - 1
    BY <1>7, <1>8
  <2>2. \A x \in S : /\ Cardinality(Preceding(S, R, x)) + 1 \in DOMAIN o
                     /\ o[Cardinality(Preceding(S, R, x)) + 1] = x
    BY <1>10, <1>13
  <2> QED BY <1>1, <1>9, <1>11, <1>12, <2>1, <2>2 DEF o

-----------------------------------------------------------------------------
(* FlattenSeq concatenates: a partial sum per prefix.  No prefix is the     *)
(* least without one, and none the least whose sum is not sorted.           *)
Sums(seqs, f) ==
    f = [i \in 1 .. Len(seqs) |-> IF i = 1 THEN seqs[i] ELSE f[i - 1] \o seqs[i]]

LEMMA SumsExist == ASSUME NEW seqs, Len(seqs) \in Nat PROVE \E f : Sums(seqs, f)
<1> DEFINE Upto(n, f) == f = [i \in 1 .. n |-> IF i = 1 THEN seqs[i] ELSE f[i - 1] \o seqs[i]]
           Bad == {n \in Nat : ~ \E f : Upto(n, f)}
<1>1. Bad = {}
  <2> SUFFICES ASSUME Bad # {} PROVE FALSE
    OBVIOUS
  <2>1. PICK n \in Bad : \A k \in Bad : n <= k
    <3>1. Bad \in SUBSET Nat
      OBVIOUS
    <3> HIDE DEF Bad
    <3> QED BY <3>1, LeastOf
  <2>2. n \in Nat /\ ~ \E f : Upto(n, f)
    BY <2>1
  <2>3. n # 0
    <3> SUFFICES ASSUME n = 0 PROVE FALSE
      OBVIOUS
    <3> DEFINE e == [i \in 1 .. 0 |-> IF i = 1 THEN seqs[i] ELSE 0]
    <3>1. 1 .. 0 = {}
      OBVIOUS
    <3>2. e = [i \in 1 .. 0 |-> IF i = 1 THEN seqs[i] ELSE e[i - 1] \o seqs[i]]
      BY <3>1
    <3> QED BY <2>2, <3>2
  <2>4. n - 1 \in Nat /\ ~ (n - 1 \in Bad)
    <3>1. n - 1 \in Nat /\ ~ (n <= n - 1)
      BY <2>2, <2>3
    <3> HIDE DEF Bad
    <3> QED BY <3>1, <2>1
  <2>5. PICK f : Upto(n - 1, f)
    BY <2>4
  <2> DEFINE g == [i \in 1 .. n |-> IF i = 1 THEN seqs[i]
                                   ELSE IF i = n THEN f[n - 1] \o seqs[n] ELSE f[i]]
  <2>6. ASSUME NEW i \in 1 .. n PROVE g[i] = IF i = 1 THEN seqs[i] ELSE g[i - 1] \o seqs[i]
    <3>1. CASE i = 1
      BY <3>1
    <3>2. CASE i # 1 /\ i = n
      <4>1. i - 1 \in 1 .. n - 1 /\ i - 1 \in 1 .. n /\ i - 1 # n
        BY <2>2, <3>2
      <4>2. g[i] = f[n - 1] \o seqs[n]
        BY <3>2
      <4>3. f[i - 1] = g[i - 1]
        <5>1. CASE i - 1 = 1
          <6>1. f[i - 1] = seqs[i - 1]
            <7> HIDE DEF g
            <7> QED BY <2>5, <4>1, <5>1
          <6>2. g[i - 1] = seqs[i - 1]
            BY <4>1, <5>1
          <6> QED BY <6>1, <6>2
        <5>2. CASE i - 1 # 1
          BY <4>1, <5>2
        <5> QED BY <5>1, <5>2
      <4> HIDE DEF g
      <4> QED BY <3>2, <4>2, <4>3
    <3>3. CASE i # 1 /\ i # n
      <4>1. i \in 1 .. n - 1 /\ i - 1 \in 1 .. n - 1 /\ i - 1 \in 1 .. n /\ i - 1 # n
        BY <2>2, <3>3
      <4>2. g[i] = f[i]
        BY <3>3
      <4>3. f[i] = f[i - 1] \o seqs[i]
        <5> HIDE DEF g
        <5> QED BY <2>5, <3>3, <4>1
      <4>4. f[i - 1] = g[i - 1]
        <5>1. CASE i - 1 = 1
          <6>1. f[i - 1] = seqs[i - 1]
            <7> HIDE DEF g
            <7> QED BY <2>5, <4>1, <5>1
          <6>2. g[i - 1] = seqs[i - 1]
            BY <4>1, <5>1
          <6> QED BY <6>1, <6>2
        <5>2. CASE i - 1 # 1
          BY <4>1, <5>2
        <5> QED BY <5>1, <5>2
      <4> HIDE DEF g
      <4> QED BY <3>3, <4>2, <4>3, <4>4
    <3> HIDE DEF g
    <3> QED BY <3>1, <3>2, <3>3
  <2>7. g = [i \in 1 .. n |-> g[i]]
    OBVIOUS
  <2>8. Upto(n, g)
    <3> HIDE DEF g
    <3> QED BY <2>6, <2>7
  <2> QED BY <2>2, <2>8
<1>2. PICK f : Upto(Len(seqs), f)
  BY <1>1
<1> QED BY <1>2 DEF Sums

(* Joined in a row, sorted sequences of which each precedes the next are    *)
(* sorted, and nothing is lost.                                             *)
Ranked(seqs, R) ==
    /\ \A i \in DOMAIN seqs : Sorted(seqs[i], R)
    /\ \A i, j \in DOMAIN seqs : i < j =>
         \A x \in Elements(seqs[i]), y \in Elements(seqs[j]) : <<x, y>> \in R

LEMMA AppendRanked ==
    ASSUME NEW E, NEW s \in Seq(E), NEW t \in Seq(E), NEW R
    PROVE  /\ s \o t \in Seq(E) /\ Elements(s \o t) = Elements(s) \cup Elements(t)
           /\ (/\ Sorted(s, R) /\ Sorted(t, R)
               /\ \A x \in Elements(s), y \in Elements(t) : <<x, y>> \in R) => Sorted(s \o t, R)
<1>1. Len(s) \in Nat /\ Len(t) \in Nat /\ DOMAIN s = 1 .. Len(s) /\ DOMAIN t = 1 .. Len(t)
  OBVIOUS
<1>2. s \o t \in Seq(E) /\ DOMAIN (s \o t) = 1 .. Len(s) + Len(t)
  OBVIOUS
<1>3. \A n \in 1 .. Len(s) : (s \o t)[n] = s[n]
  OBVIOUS
<1>4. \A n \in 1 .. Len(s) + Len(t) : n > Len(s) => (s \o t)[n] = t[n - Len(s)]
  OBVIOUS
<1> DEFINE u == s \o t
<1> HIDE DEF u
<1>5. ASSUME NEW n \in DOMAIN u, n > Len(s) PROVE n - Len(s) \in DOMAIN t /\ u[n] = t[n - Len(s)]
  BY <1>1, <1>2, <1>4, <1>5 DEF u
<1>6. ASSUME NEW n \in DOMAIN u, ~ (n > Len(s)) PROVE n \in DOMAIN s /\ u[n] = s[n]
  BY <1>1, <1>2, <1>3, <1>6 DEF u
<1>7. ASSUME NEW n \in DOMAIN t PROVE n + Len(s) \in DOMAIN u /\ u[n + Len(s)] = t[n]
  <2>1. n + Len(s) \in 1 .. Len(s) + Len(t) /\ n + Len(s) > Len(s) /\ (n + Len(s)) - Len(s) = n
    BY <1>1
  <2> QED BY <2>1, <1>2, <1>4 DEF u
<1>8. ASSUME NEW n \in DOMAIN s PROVE n \in DOMAIN u /\ u[n] = s[n]
  BY <1>1, <1>2, <1>3 DEF u
<1>9. Elements(u) = Elements(s) \cup Elements(t)
  BY <1>5, <1>6, <1>7, <1>8 DEF Elements
<1>10. ASSUME /\ Sorted(s, R) /\ Sorted(t, R)
              /\ \A x \in Elements(s), y \in Elements(t) : <<x, y>> \in R
       PROVE  Sorted(u, R)
  <2> SUFFICES ASSUME NEW m \in DOMAIN u, NEW n \in DOMAIN u, m < n PROVE <<u[m], u[n]>> \in R
    BY DEF Sorted
  <2>1. m \in Nat /\ n \in Nat
    BY <1>1, <1>2 DEF u
  <2>2. CASE m > Len(s)
    <3>1. n > Len(s) /\ m - Len(s) < n - Len(s)
      BY <1>1, <2>1, <2>2
    <3> QED BY <1>5, <1>10, <2>2, <3>1 DEF Sorted
  <2>3. CASE ~ (n > Len(s))
    <3>1. ~ (m > Len(s))
      BY <1>1, <2>1, <2>3
    <3> QED BY <1>6, <1>10, <2>3, <3>1 DEF Sorted
  <2>4. CASE ~ (m > Len(s)) /\ n > Len(s)
    BY <1>5, <1>6, <1>10, <2>4 DEF Elements
  <2> QED BY <2>2, <2>3, <2>4
<1> QED BY <1>2, <1>9, <1>10 DEF u

LEMMA FlattenRanked ==
    ASSUME NEW E, NEW seqs \in Seq(Seq(E)), NEW R
    PROVE  /\ FlattenSeq(seqs) \in Seq(E)
           /\ Elements(FlattenSeq(seqs)) = UNION {Elements(seqs[i]) : i \in DOMAIN seqs}
           /\ Ranked(seqs, R) => Sorted(FlattenSeq(seqs), R)
<1>1. Len(seqs) \in Nat /\ DOMAIN seqs = 1 .. Len(seqs) /\ \A i \in 1 .. Len(seqs) : seqs[i] \in Seq(E)
  OBVIOUS
<1>2. CASE Len(seqs) = 0
  <2>1. seqs = <<>> /\ FlattenSeq(seqs) = seqs /\ DOMAIN seqs = {}
    BY <1>2 DEF FlattenSeq
  <2>2. <<>> \in Seq(E) /\ Elements(<<>>) = {} /\ Sorted(<<>>, R)
    BY DEF Elements, Sorted
  <2>3. {Elements(seqs[i]) : i \in DOMAIN seqs} = {}
    BY <2>1
  <2> QED BY <2>1, <2>2, <2>3
<1>3. CASE Len(seqs) # 0
  <2>1. PICK f : Sums(seqs, f) /\ FlattenSeq(seqs) = f[Len(seqs)]
    <3> DEFINE flatten == CHOOSE f : Sums(seqs, f)
    <3>1. Sums(seqs, flatten)
      BY <1>1, SumsExist
    <3>2. FlattenSeq(seqs) = flatten[Len(seqs)]
      BY <1>3 DEF FlattenSeq, Sums
    <3> QED BY <3>1, <3>2
  <2> DEFINE Upto(i) == UNION {Elements(seqs[j]) : j \in 1 .. i}
             Good(i) == /\ f[i] \in Seq(E) /\ Elements(f[i]) = Upto(i)
                        /\ Ranked(seqs, R) => Sorted(f[i], R)
             Bad == {i \in 1 .. Len(seqs) : ~ Good(i)}
  <2>2. Bad = {}
    <3> SUFFICES ASSUME Bad # {} PROVE FALSE
      OBVIOUS
    <3>1. PICK i \in Bad : \A k \in Bad : i <= k
      <4>1. Bad \in SUBSET Nat
        BY <1>1
      <4> HIDE DEF Bad
      <4> QED BY <4>1, LeastOf
    <3>2. i \in 1 .. Len(seqs) /\ ~ Good(i)
      BY <3>1
    <3>3. f[i] = IF i = 1 THEN seqs[i] ELSE f[i - 1] \o seqs[i]
      BY <2>1, <3>2 DEF Sums
    <3>4. CASE i = 1
      <4>1. f[i] = seqs[i] /\ Upto(i) = Elements(seqs[i])
        BY <3>3, <3>4
      <4>2. Ranked(seqs, R) => Sorted(seqs[i], R)
        BY <1>1, <3>2 DEF Ranked
      <4> QED BY <1>1, <3>2, <4>1, <4>2
    <3>5. CASE i # 1
      <4>1. i - 1 \in 1 .. Len(seqs) /\ ~ (i <= i - 1)
        BY <1>1, <3>2, <3>5
      <4>2. Good(i - 1)
        BY <3>1, <4>1
      <4>3. Upto(i) = Upto(i - 1) \cup Elements(seqs[i])
        <5>1. 1 .. i = (1 .. i - 1) \cup {i}
          BY <1>1, <3>2
        <5> QED BY <5>1
      <4>4. ASSUME Ranked(seqs, R)
            PROVE  \A x \in Upto(i - 1), y \in Elements(seqs[i]) : <<x, y>> \in R
        <5> SUFFICES ASSUME NEW j \in 1 .. i - 1, NEW x \in Elements(seqs[j]), NEW y \in Elements(seqs[i])
                     PROVE  <<x, y>> \in R
          OBVIOUS
        <5>1. j \in DOMAIN seqs /\ i \in DOMAIN seqs /\ j < i
          BY <1>1, <3>2
        <5> QED BY <4>4, <5>1 DEF Ranked
      <4>5. Ranked(seqs, R) => Sorted(seqs[i], R)
        BY <1>1, <3>2 DEF Ranked
      <4>6. f[i] = f[i - 1] \o seqs[i] /\ f[i - 1] \in Seq(E) /\ seqs[i] \in Seq(E)
        BY <1>1, <3>2, <3>3, <3>5, <4>2
      <4>7. f[i] \in Seq(E) /\ Elements(f[i]) = Upto(i)
        <5>1. Elements(f[i - 1]) = Upto(i - 1)
          BY <4>2
        <5>2. f[i] \in Seq(E) /\ Elements(f[i]) = Elements(f[i - 1]) \cup Elements(seqs[i])
          <6>1. /\ f[i - 1] \o seqs[i] \in Seq(E)
                /\ Elements(f[i - 1] \o seqs[i]) = Elements(f[i - 1]) \cup Elements(seqs[i])
            <7>1. f[i - 1] \in Seq(E) /\ seqs[i] \in Seq(E)
              BY <4>6
            <7> QED BY ONLY <7>1, AppendRanked, Zenon
          <6> QED BY ONLY <6>1, <4>6, Zenon
        <5> QED BY <4>3, <5>1, <5>2, Zenon
      <4>8. ASSUME Ranked(seqs, R) PROVE Sorted(f[i], R)
        <5> HIDE DEF Upto
        <5> QED BY <4>2, <4>4, <4>5, <4>6, <4>8, AppendRanked
      <4> QED BY <3>2, <4>7, <4>8
    <3> QED BY <3>4, <3>5
  <2>3. Good(Len(seqs))
    <3>1. Len(seqs) \in 1 .. Len(seqs)
      BY <1>1, <1>3
    <3> QED BY <2>2, <3>1
  <2> QED BY <1>1, <2>1, <2>3
<1> QED BY <1>2, <1>3

-----------------------------------------------------------------------------
(* A set of builds that order can be asked about.                           *)
Builds(B) ==
    /\ IsFiniteSet(B)
    /\ \A x \in B : x.priority \in Int /\ x.created \in Int /\ x.id \in Int
    /\ \A x, y \in B : x.id = y.id => x = y

AgePairs(S) == {p \in S \X S : Older(p[1], p[2])}
OfClass(B, r) == {x \in B : x.priority = r}
OfProject(C, p) == {x \in C : x.project = p}

LEMMA PartOfBuilds == ASSUME NEW B, Builds(B), NEW S \in SUBSET B PROVE Builds(S)
BY FS_Subset DEF Builds

LEMMA OlderIsStrict ==
    ASSUME NEW B, Builds(B)
    PROVE  /\ \A x \in B : ~ Older(x, x)
           /\ \A x, y \in B : x # y => Older(x, y) \/ Older(y, x)
           /\ \A x, y, z \in B : Older(x, y) /\ Older(y, z) => Older(x, z)
BY DEF Builds, Older

LEMMA ByAgeSorts ==
    ASSUME NEW S, Builds(S)
    PROVE  /\ ByAge(S) \in Seq(S) /\ Len(ByAge(S)) = Cardinality(S)
           /\ Elements(ByAge(S)) = S
           /\ \A m, n \in DOMAIN ByAge(S) : m < n => Older(ByAge(S)[m], ByAge(S)[n])
           /\ \A n \in DOMAIN ByAge(S) :
                Cardinality({y \in S : Older(y, ByAge(S)[n])}) = n - 1
           /\ \A x \in S : /\ Cardinality({y \in S : Older(y, x)}) + 1 \in DOMAIN ByAge(S)
                           /\ ByAge(S)[Cardinality({y \in S : Older(y, x)}) + 1] = x
<1>1. \A x, y \in S : <<x, y>> \in AgePairs(S) <=> Older(x, y)
  BY DEF AgePairs
<1>2. Strict(S, AgePairs(S)) /\ IsFiniteSet(S)
  BY <1>1, OlderIsStrict DEF Strict, Builds
<1>3. ASSUME NEW x \in S PROVE Preceding(S, AgePairs(S), x) = {y \in S : Older(y, x)}
  BY <1>1 DEF Preceding
<1> DEFINE o == InOrder(S, AgePairs(S))
<1>4. ByAge(S) = o
  BY DEF ByAge, AgePairs
<1>5. /\ o \in Seq(S) /\ Len(o) = Cardinality(S) /\ Elements(o) = S /\ Sorted(o, AgePairs(S))
      /\ \A n \in DOMAIN o : Cardinality(Preceding(S, AgePairs(S), o[n])) = n - 1
      /\ \A x \in S : /\ Cardinality(Preceding(S, AgePairs(S), x)) + 1 \in DOMAIN o
                      /\ o[Cardinality(Preceding(S, AgePairs(S), x)) + 1] = x
  BY <1>2, InOrderSorts
<1> HIDE DEF o
<1>6. \A n \in DOMAIN o : o[n] \in S
  BY <1>5
<1>7. \A m, n \in DOMAIN o : m < n => Older(o[m], o[n])
  BY <1>1, <1>5, <1>6 DEF Sorted
<1>8. ASSUME NEW n \in DOMAIN o PROVE Cardinality({y \in S : Older(y, o[n])}) = n - 1
  <2>1. Preceding(S, AgePairs(S), o[n]) = {y \in S : Older(y, o[n])}
    BY <1>3, <1>6
  <2> QED BY <2>1, <1>5
<1>9. ASSUME NEW x \in S
      PROVE  /\ Cardinality({y \in S : Older(y, x)}) + 1 \in DOMAIN o
             /\ o[Cardinality({y \in S : Older(y, x)}) + 1] = x
  <2>1. Preceding(S, AgePairs(S), x) = {y \in S : Older(y, x)}
    BY <1>3
  <2> QED BY <2>1, <1>5
<1> QED BY <1>4, <1>5, <1>7, <1>8, <1>9

-----------------------------------------------------------------------------
(* A lane holds its project's builds, the n-th with n - 1 ahead of it.      *)
LEMMA LaneHolds ==
    ASSUME NEW B, Builds(B), NEW r, NEW p
    PROVE  /\ Len(Lane(OfClass(B, r), p)) \in Nat
           /\ DOMAIN Lane(OfClass(B, r), p) = 1 .. Len(Lane(OfClass(B, r), p))
           /\ \A n \in DOMAIN Lane(OfClass(B, r), p) :
                /\ Lane(OfClass(B, r), p)[n] \in OfClass(B, r)
                /\ Lane(OfClass(B, r), p)[n].project = p
                /\ Ahead(B, Lane(OfClass(B, r), p)[n]) = n - 1
           /\ \A x \in OfClass(B, r) : x.project = p =>
                /\ Ahead(B, x) + 1 \in DOMAIN Lane(OfClass(B, r), p)
                /\ Lane(OfClass(B, r), p)[Ahead(B, x) + 1] = x
<1> DEFINE L == OfProject(OfClass(B, r), p)
           o == ByAge(L)
<1>1. Builds(L) /\ L \subseteq OfClass(B, r) /\ \A x \in L : x.project = p
  BY PartOfBuilds DEF OfProject, OfClass
<1>2. Lane(OfClass(B, r), p) = o
  BY DEF Lane, OfProject
<1>3. ASSUME NEW x \in L PROVE Ahead(B, x) = Cardinality({y \in L : Older(y, x)})
  <2>1. {y \in B : y.priority = x.priority /\ y.project = x.project /\ Older(y, x)}
          = {y \in L : Older(y, x)}
    BY DEF OfProject, OfClass
  <2> QED BY <2>1 DEF Ahead
<1>4. /\ o \in Seq(L)
      /\ \A n \in DOMAIN o : Cardinality({y \in L : Older(y, o[n])}) = n - 1
      /\ \A x \in L : /\ Cardinality({y \in L : Older(y, x)}) + 1 \in DOMAIN o
                      /\ o[Cardinality({y \in L : Older(y, x)}) + 1] = x
  <2> HIDE DEF L
  <2> QED BY <1>1, ByAgeSorts
<1>5. \A x \in OfClass(B, r) : x.project = p => x \in L
  BY DEF OfProject
<1> HIDE DEF L, o
<1>6. Len(o) \in Nat /\ DOMAIN o = 1 .. Len(o) /\ \A n \in DOMAIN o : o[n] \in L
  BY <1>4
<1> QED BY <1>1, <1>2, <1>3, <1>4, <1>5, <1>6

LEMMA AheadType == ASSUME NEW B, Builds(B), NEW x \in B PROVE Ahead(B, x) \in Nat
<1>1. x \in OfClass(B, x.priority)
  BY DEF OfClass
<1> DEFINE l == Lane(OfClass(B, x.priority), x.project)
<1>2. Ahead(B, x) + 1 \in DOMAIN l /\ l[Ahead(B, x) + 1] = x
  BY <1>1, LaneHolds
<1>3. Ahead(B, l[Ahead(B, x) + 1]) = (Ahead(B, x) + 1) - 1 /\ DOMAIN l = 1 .. Len(l) /\ Len(l) \in Nat
  BY <1>2, LaneHolds
<1>4. IsFiniteSet(B)
  BY DEF Builds
<1> DEFINE S == {y \in B : y.priority = x.priority /\ y.project = x.project /\ Older(y, x)}
<1>5. Ahead(B, x) = Cardinality(S) /\ S \subseteq B
  BY DEF Ahead
<1> HIDE DEF S
<1> QED BY <1>4, <1>5, FS_Subset, FS_CardinalityType

(* The first build of its project's lane: Waiting.                          *)
LEMMA WaitingIsFirst ==
    ASSUME NEW B, Builds(B), NEW x \in B
    PROVE  /\ Waiting(B, x) \in B /\ Waiting(B, x).priority = x.priority
           /\ Waiting(B, x).project = x.project /\ Ahead(B, Waiting(B, x)) = 0
           /\ \A y \in B : y.priority = x.priority /\ y.project = x.project /\ Ahead(B, y) = 0
                            => y = Waiting(B, x)
<1> DEFINE l == Lane(OfClass(B, x.priority), x.project)
<1>1. x \in OfClass(B, x.priority)
  BY DEF OfClass
<1>2. Ahead(B, x) + 1 \in DOMAIN l /\ DOMAIN l = 1 .. Len(l) /\ Len(l) \in Nat
  BY <1>1, LaneHolds
<1>3. 1 \in DOMAIN l
  BY <1>2, AheadType
<1>4. l[1] \in OfClass(B, x.priority) /\ l[1].project = x.project /\ Ahead(B, l[1]) = 1 - 1
  BY <1>3, LaneHolds
<1>5. \A y \in OfClass(B, x.priority) : y.project = x.project => l[Ahead(B, y) + 1] = y
  BY LaneHolds
<1> HIDE DEF l
<1>6. \A y \in B : y.priority = x.priority /\ y.project = x.project /\ Ahead(B, y) = 0
                    => y = l[1]
  BY <1>5 DEF OfClass
<1>7. l[1] \in B /\ l[1].priority = x.priority /\ Ahead(B, l[1]) = 0
  BY <1>4 DEF OfClass
<1>8. \E y \in B : y.priority = x.priority /\ y.project = x.project /\ Ahead(B, y) = 0
  BY <1>4, <1>7
<1>9. /\ Waiting(B, x) \in B /\ Waiting(B, x).priority = x.priority
      /\ Waiting(B, x).project = x.project /\ Ahead(B, Waiting(B, x)) = 0
  BY <1>8 DEF Waiting
<1> QED BY <1>6, <1>9

LEMMA HeadsAreFirst ==
    ASSUME NEW B, Builds(B), NEW r, NEW x \in OfClass(B, r)
    PROVE  (\A y \in OfClass(B, r) : y.project = x.project => ~ Older(y, x)) <=> Ahead(B, x) = 0
<1> DEFINE S == {y \in B : y.priority = x.priority /\ y.project = x.project /\ Older(y, x)}
<1>1. Ahead(B, x) = Cardinality(S) /\ S \subseteq B
  BY DEF Ahead
<1>2. IsFiniteSet(S)
  BY <1>1, FS_Subset DEF Builds
<1>3. Cardinality(S) = 0 <=> S = {}
  <2> HIDE DEF S
  <2> QED BY <1>2, FS_EmptySet
<1>4. S = {} <=> \A y \in OfClass(B, r) : y.project = x.project => ~ Older(y, x)
  BY DEF OfClass
<1> QED BY <1>1, <1>3, <1>4

-----------------------------------------------------------------------------
(* The sorts of numbers.                                                    *)
LEMMA AscendingSorts ==
    ASSUME NEW S \in SUBSET Int, IsFiniteSet(S)
    PROVE  /\ Ascending(S) \in Seq(S) /\ Elements(Ascending(S)) = S
           /\ \A m, n \in DOMAIN Ascending(S) : m < n => Ascending(S)[m] < Ascending(S)[n]
<1> DEFINE R == {p \in S \X S : p[1] < p[2]}
<1>1. \A x, y \in S : <<x, y>> \in R <=> x < y
  OBVIOUS
<1>2. Ascending(S) = InOrder(S, R)
  BY DEF Ascending
<1> HIDE DEF R
<1>3. Strict(S, R)
  BY <1>1 DEF Strict
<1> DEFINE o == InOrder(S, R)
<1>4. o \in Seq(S) /\ Elements(o) = S /\ Sorted(o, R)
  BY <1>3, InOrderSorts
<1> HIDE DEF o
<1>5. \A n \in DOMAIN o : o[n] \in S
  BY <1>4
<1> QED BY <1>1, <1>2, <1>4, <1>5 DEF Sorted, o

LEMMA DescendingSorts ==
    ASSUME NEW S \in SUBSET Int, IsFiniteSet(S)
    PROVE  /\ Descending(S) \in Seq(S) /\ Elements(Descending(S)) = S
           /\ \A m, n \in DOMAIN Descending(S) : m < n => Descending(S)[m] > Descending(S)[n]
<1> DEFINE R == {p \in S \X S : p[1] > p[2]}
<1>1. \A x, y \in S : <<x, y>> \in R <=> x > y
  OBVIOUS
<1>2. Descending(S) = InOrder(S, R)
  BY DEF Descending
<1> HIDE DEF R
<1>3. Strict(S, R)
  BY <1>1 DEF Strict
<1> DEFINE o == InOrder(S, R)
<1>4. o \in Seq(S) /\ Elements(o) = S /\ Sorted(o, R)
  BY <1>3, InOrderSorts
<1> HIDE DEF o
<1>5. \A n \in DOMAIN o : o[n] \in S
  BY <1>4
<1> QED BY <1>1, <1>2, <1>4, <1>5 DEF Sorted, o

(* The turns follow the age of the builds that wait longest.                *)
FollowsAge(B, C, aged) ==
    /\ Len(aged) \in Nat /\ DOMAIN aged = 1 .. Len(aged)
    /\ DOMAIN Turns(C) = 1 .. Len(aged)
    /\ \A m \in DOMAIN aged : /\ aged[m] \in C /\ Ahead(B, aged[m]) = 0
                              /\ Turns(C)[m] = aged[m].project
    /\ \A m, n \in DOMAIN aged : m < n => Older(aged[m], aged[n])
    /\ \A x \in C : \E m \in DOMAIN aged : aged[m] = Waiting(B, x)

LEMMA TurnsFollowAge ==
    ASSUME NEW B, Builds(B), NEW r
    PROVE  \E aged : FollowsAge(B, OfClass(B, r), aged)
<1> DEFINE C == OfClass(B, r)
           H == {x \in C : \A y \in C : y.project = x.project => ~ Older(y, x)}
           a == ByAge(H)
<1>1. \A x \in C : x \in H <=> Ahead(B, x) = 0
  BY HeadsAreFirst
<1>2. Turns(C) = [n \in DOMAIN a |-> a[n].project]
  BY DEF Turns
<1>3. H \subseteq C /\ C \subseteq B /\ \A x \in B : x \in C <=> x.priority = r
  BY DEF OfClass
<1> HIDE DEF C, H
<1>4. Builds(H)
  BY <1>3, PartOfBuilds
<1>5. /\ a \in Seq(H) /\ Elements(a) = H
      /\ \A m, n \in DOMAIN a : m < n => Older(a[m], a[n])
  BY <1>4, ByAgeSorts
<1> HIDE DEF a
<1>6. Len(a) \in Nat /\ DOMAIN a = 1 .. Len(a) /\ \A m \in DOMAIN a : a[m] \in H
  BY <1>5
<1>7. ASSUME NEW x \in C PROVE \E m \in DOMAIN a : a[m] = Waiting(B, x)
  <2>1. Waiting(B, x) \in B /\ Waiting(B, x).priority = x.priority /\ Ahead(B, Waiting(B, x)) = 0
    BY <1>3, WaitingIsFirst
  <2>2. Waiting(B, x) \in C
    BY <1>3, <2>1
  <2>3. Waiting(B, x) \in H
    BY <1>1, <2>1, <2>2
  <2> QED BY <1>5, <2>3 DEF Elements
<1>8. FollowsAge(B, C, a)
  BY <1>1, <1>2, <1>3, <1>5, <1>6, <1>7 DEF FollowsAge
<1> QED BY <1>8 DEF C

RankPairs(B) == {p \in B \X B : Outranks(B, p[1], p[2])}

(* A round: of every project the build with n - 1 ahead of it, in turn.     *)
LEMMA RoundHolds ==
    ASSUME NEW B, Builds(B), NEW r, NEW n \in Nat, n # 0
    PROVE  /\ Round(OfClass(B, r), n) \in Seq(OfClass(B, r))
           /\ Elements(Round(OfClass(B, r), n)) = {x \in OfClass(B, r) : Ahead(B, x) = n - 1}
           /\ Sorted(Round(OfClass(B, r), n), RankPairs(B))
<1> DEFINE C == OfClass(B, r)
           T == Turns(C)
           D == {m \in DOMAIN T : n \in DOMAIN Lane(C, T[m])}
           deep == Ascending(D)
           o == Round(C, n)
<1>1. PICK aged : FollowsAge(B, C, aged)
  BY TurnsFollowAge
<1>2. o = [m \in DOMAIN deep |-> Lane(C, T[deep[m]])[n]]
  BY DEF Round
<1>3. C \subseteq B /\ \A x \in C : x.priority = r
  BY DEF OfClass
<1>4. /\ \A p : \A k \in DOMAIN Lane(C, p) :
           Lane(C, p)[k] \in C /\ Lane(C, p)[k].project = p /\ Ahead(B, Lane(C, p)[k]) = k - 1
      /\ \A p : \A x \in C : x.project = p =>
           Ahead(B, x) + 1 \in DOMAIN Lane(C, p) /\ Lane(C, p)[Ahead(B, x) + 1] = x
  BY LaneHolds
<1> HIDE DEF C
<1>5. D \subseteq 1 .. Len(aged) /\ Len(aged) \in Nat
  BY <1>1 DEF FollowsAge
<1>6. D \in SUBSET Int /\ IsFiniteSet(D)
  <2> HIDE DEF D
  <2>1. IsFiniteSet(1 .. Len(aged)) /\ 1 .. Len(aged) \subseteq Int
    BY <1>5, FS_Interval
  <2> QED BY <1>5, <2>1, FS_Subset
<1>7. \A m \in D : m \in DOMAIN aged /\ n \in DOMAIN Lane(C, T[m]) /\ T[m] = aged[m].project
  BY <1>1 DEF FollowsAge
<1>8. \A m \in DOMAIN aged : n \in DOMAIN Lane(C, T[m]) => m \in D
  BY <1>1 DEF FollowsAge
<1> HIDE DEF D, T
<1>9. /\ deep \in Seq(D) /\ Elements(deep) = D
      /\ \A k, m \in DOMAIN deep : k < m => deep[k] < deep[m]
  BY <1>6, AscendingSorts
<1> HIDE DEF deep
<1>10. Len(deep) \in Nat /\ DOMAIN deep = 1 .. Len(deep) /\ \A m \in DOMAIN deep : deep[m] \in D
  BY <1>9
<1>11. ASSUME NEW m \in DOMAIN deep
       PROVE  /\ o[m] \in C /\ Ahead(B, o[m]) = n - 1 /\ deep[m] \in DOMAIN aged
              /\ Waiting(B, o[m]) = aged[deep[m]]
  <2>1. deep[m] \in D /\ o[m] = Lane(C, T[deep[m]])[n]
    BY <1>2, <1>10
  <2>2. o[m] \in C /\ o[m].project = T[deep[m]] /\ Ahead(B, o[m]) = n - 1
    BY <1>4, <1>7, <2>1
  <2> DEFINE h == aged[deep[m]]
  <2>3. h \in C /\ h.project = o[m].project /\ Ahead(B, h) = 0 /\ deep[m] \in DOMAIN aged
    BY <1>1, <1>7, <2>1, <2>2 DEF FollowsAge
  <2> HIDE DEF h
  <2>4. o[m] \in B /\ h \in B /\ h.priority = o[m].priority
    BY <1>3, <2>2, <2>3
  <2>5. h = Waiting(B, o[m])
    BY <2>3, <2>4, WaitingIsFirst
  <2> QED BY <2>2, <2>3, <2>5 DEF h
<1>12. DOMAIN o = DOMAIN deep
  BY <1>2
<1> HIDE DEF o
<1>13. o \in Seq(C)
  <2>1. o \in [1 .. Len(deep) -> C]
    BY <1>2, <1>10, <1>11, <1>12
  <2> QED BY <1>10, <2>1
<1>14. ASSUME NEW x \in C, Ahead(B, x) = n - 1 PROVE \E m \in DOMAIN o : o[m] = x
  <2>1. PICK k \in DOMAIN aged : aged[k] = Waiting(B, x)
    BY <1>1 DEF FollowsAge
  <2>2. aged[k].project = x.project /\ T[k] = aged[k].project
    BY <1>1, <1>3, <2>1, WaitingIsFirst DEF FollowsAge, T
  <2>3. n \in DOMAIN Lane(C, T[k]) /\ Lane(C, T[k])[n] = x
    <3>1. (n - 1) + 1 = n
      OBVIOUS
    <3> QED BY <1>4, <1>14, <2>2, <3>1
  <2>4. k \in D
    BY <1>8, <2>3
  <2>5. PICK m \in DOMAIN deep : deep[m] = k
    BY <1>9, <2>4 DEF Elements
  <2> QED BY <1>2, <1>12, <2>3, <2>5
<1>15. Elements(o) = {x \in C : Ahead(B, x) = n - 1}
  BY <1>11, <1>12, <1>14 DEF Elements
<1>16. ASSUME NEW k \in DOMAIN o, NEW m \in DOMAIN o, k < m PROVE <<o[k], o[m]>> \in RankPairs(B)
  <2>1. deep[k] < deep[m]
    BY <1>9, <1>12, <1>16
  <2>2. /\ o[k] \in C /\ Ahead(B, o[k]) = n - 1 /\ Waiting(B, o[k]) = aged[deep[k]]
        /\ o[m] \in C /\ Ahead(B, o[m]) = n - 1 /\ Waiting(B, o[m]) = aged[deep[m]]
        /\ deep[k] \in DOMAIN aged /\ deep[m] \in DOMAIN aged
    BY <1>11, <1>12
  <2>3. Older(aged[deep[k]], aged[deep[m]])
    BY <1>1, <2>1, <2>2 DEF FollowsAge
  <2>4. Outranks(B, o[k], o[m])
    BY <1>3, <2>2, <2>3 DEF Outranks
  <2> QED BY <1>3, <2>2, <2>4 DEF RankPairs
<1> QED BY <1>13, <1>15, <1>16 DEF Sorted, o, C

LEMMA RoundsHold ==
    ASSUME NEW B, Builds(B), NEW r
    PROVE  /\ Rounds(OfClass(B, r)) \in Seq(OfClass(B, r))
           /\ Elements(Rounds(OfClass(B, r))) = OfClass(B, r)
           /\ Sorted(Rounds(OfClass(B, r)), RankPairs(B))
<1> DEFINE C == OfClass(B, r)
           c == Cardinality(C)
           seqs == [n \in 1 .. c |-> Round(C, n)]
<1>1. Rounds(C) = FlattenSeq(seqs)
  BY DEF Rounds
<1>2. C \subseteq B /\ \A x \in C : x.priority = r
  BY DEF OfClass
<1>3. IsFiniteSet(C) /\ c \in Nat
  <2>1. IsFiniteSet(C)
    BY <1>2, FS_Subset DEF Builds
  <2> HIDE DEF C
  <2> QED BY <2>1, FS_CardinalityType
<1>4. \A n \in 1 .. c : /\ Round(C, n) \in Seq(C)
                        /\ Elements(Round(C, n)) = {x \in C : Ahead(B, x) = n - 1}
                        /\ Sorted(Round(C, n), RankPairs(B))
  <2> SUFFICES ASSUME NEW n \in 1 .. c
               PROVE  /\ Round(C, n) \in Seq(C)
                      /\ Elements(Round(C, n)) = {x \in C : Ahead(B, x) = n - 1}
                      /\ Sorted(Round(C, n), RankPairs(B))
    OBVIOUS
  <2>1. n \in Nat /\ n # 0
    OBVIOUS
  <2> QED BY <2>1, RoundHolds
<1>5. ASSUME NEW x \in C PROVE Ahead(B, x) \in Nat /\ Ahead(B, x) + 1 \in 1 .. c
  <2> DEFINE S == {y \in B : y.priority = x.priority /\ y.project = x.project /\ Older(y, x)}
  <2>1. Ahead(B, x) = Cardinality(S) /\ S \subseteq C \ {x}
    BY <1>2, OlderIsStrict DEF Ahead, OfClass
  <2> HIDE DEF S, C
  <2>2. IsFiniteSet(C \ {x}) /\ Cardinality(C \ {x}) = c - 1
    BY <1>3, FS_RemoveElement
  <2>3. Cardinality(S) \in Nat /\ Cardinality(S) <= c - 1
    BY <2>1, <2>2, FS_Subset, FS_CardinalityType
  <2> QED BY <1>3, <2>1, <2>3
<1> HIDE DEF C, c
<1>6. seqs \in Seq(Seq(C)) /\ DOMAIN seqs = 1 .. c /\ \A n \in 1 .. c : seqs[n] = Round(C, n)
  <2>1. seqs \in [1 .. c -> Seq(C)]
    BY <1>4
  <2> HIDE DEF seqs
  <2>2. seqs \in Seq(Seq(C))
    BY <1>3, <2>1
  <2> QED BY <2>1, <2>2 DEF seqs
<1> HIDE DEF seqs
<1>7. ASSUME NEW i \in 1 .. c, NEW j \in 1 .. c, i < j,
             NEW x \in Elements(seqs[i]), NEW y \in Elements(seqs[j])
      PROVE  <<x, y>> \in RankPairs(B)
  <2>1. x \in C /\ Ahead(B, x) = i - 1 /\ y \in C /\ Ahead(B, y) = j - 1
    BY <1>4, <1>6
  <2>2. Ahead(B, x) < Ahead(B, y)
    BY <1>3, <1>7, <2>1
  <2>3. x \in B /\ y \in B /\ Outranks(B, x, y)
    BY <1>2, <2>1, <2>2 DEF Outranks
  <2> QED BY <2>3 DEF RankPairs
<1>8. Ranked(seqs, RankPairs(B))
  BY <1>4, <1>6, <1>7 DEF Ranked
<1>9. UNION {Elements(seqs[n]) : n \in DOMAIN seqs} = C
  <2>1. ASSUME NEW x \in C PROVE \E n \in DOMAIN seqs : x \in Elements(seqs[n])
    <3> DEFINE n == Ahead(B, x) + 1
    <3>1. n \in 1 .. c /\ Ahead(B, x) = n - 1
      BY <1>5
    <3> HIDE DEF n
    <3> QED BY <1>4, <1>6, <3>1
  <2>2. ASSUME NEW n \in DOMAIN seqs PROVE Elements(seqs[n]) \subseteq C
    BY <1>4, <1>6
  <2> QED BY <2>1, <2>2
<1>10. /\ FlattenSeq(seqs) \in Seq(C) /\ Elements(FlattenSeq(seqs)) = C
       /\ Sorted(FlattenSeq(seqs), RankPairs(B))
  BY <1>6, <1>8, <1>9, FlattenRanked
<1> QED BY <1>1, <1>10 DEF C

LEMMA OutranksIsStrict ==
    ASSUME NEW B, Builds(B), NEW x \in B, NEW y \in B, Outranks(B, x, y)
    PROVE  x # y /\ ~ Outranks(B, y, x)
<1>1. x.priority \in Int /\ y.priority \in Int /\ Ahead(B, x) \in Nat /\ Ahead(B, y) \in Nat
  BY AheadType DEF Builds
<1>2. Waiting(B, x) \in B /\ Waiting(B, y) \in B
  BY WaitingIsFirst
<1>3. Older(Waiting(B, x), Waiting(B, y)) =>
        Waiting(B, x) # Waiting(B, y) /\ ~ Older(Waiting(B, y), Waiting(B, x))
  BY <1>2, OlderIsStrict
<1> QED BY <1>1, <1>3 DEF Outranks

(* Of any set of builds, order shows every one once, and none before one    *)
(* that outranks it: the flattened rounds of the lanes of the classes are   *)
(* sorted by the rule of the file's first lines (queue.rs, order).          *)
THEOREM OrderRanks ==
    ASSUME NEW B, Builds(B)
    PROVE  Order(B) \in Seq(B) /\ IsRanked(B)
<1> DEFINE P == {x.priority : x \in B}
           ranks == Descending(P)
           seqs == [n \in DOMAIN ranks |-> Rounds(OfClass(B, ranks[n]))]
           o == FlattenSeq(seqs)
<1>1. Order(B) = o
  BY DEF Order, OfClass
<1>2. P \in SUBSET Int /\ IsFiniteSet(P)
  <2> DEFINE f == [x \in B |-> x.priority]
  <2>1. f \in Surjection(B, P)
    BY DEF Surjection
  <2>2. IsFiniteSet(P)
    <3> HIDE DEF f, P
    <3> QED BY <2>1, FS_Surjection DEF Builds
  <2> QED BY <2>2 DEF Builds
<1>3. \A x \in B : x.priority \in P
  OBVIOUS
<1> HIDE DEF P
<1>4. /\ ranks \in Seq(P) /\ Elements(ranks) = P
      /\ \A m, n \in DOMAIN ranks : m < n => ranks[m] > ranks[n]
  BY <1>2, DescendingSorts
<1> HIDE DEF ranks
<1>5. Len(ranks) \in Nat /\ DOMAIN ranks = 1 .. Len(ranks)
  BY <1>4
<1>6. \A n \in DOMAIN ranks : /\ seqs[n] \in Seq(B)
                              /\ Elements(seqs[n]) = OfClass(B, ranks[n])
                              /\ Sorted(seqs[n], RankPairs(B))
  <2> SUFFICES ASSUME NEW n \in DOMAIN ranks
               PROVE  /\ seqs[n] \in Seq(B)
                      /\ Elements(seqs[n]) = OfClass(B, ranks[n])
                      /\ Sorted(seqs[n], RankPairs(B))
    OBVIOUS
  <2>1. seqs[n] = Rounds(OfClass(B, ranks[n]))
    OBVIOUS
  <2>2. /\ Rounds(OfClass(B, ranks[n])) \in Seq(OfClass(B, ranks[n]))
        /\ Elements(Rounds(OfClass(B, ranks[n]))) = OfClass(B, ranks[n])
        /\ Sorted(Rounds(OfClass(B, ranks[n])), RankPairs(B))
    BY RoundsHold
  <2>3. OfClass(B, ranks[n]) \subseteq B
    BY DEF OfClass
  <2>4. Rounds(OfClass(B, ranks[n])) \in Seq(B)
    BY <2>2, <2>3
  <2> HIDE DEF seqs
  <2> QED BY <2>1, <2>2, <2>4
<1>7. seqs \in Seq(Seq(B)) /\ DOMAIN seqs = DOMAIN ranks
  <2>1. seqs \in [1 .. Len(ranks) -> Seq(B)] /\ DOMAIN seqs = DOMAIN ranks
    BY <1>5, <1>6
  <2> HIDE DEF seqs
  <2> QED BY <1>5, <2>1
<1> HIDE DEF seqs
<1>8. ASSUME NEW i \in DOMAIN seqs, NEW j \in DOMAIN seqs, i < j,
             NEW x \in Elements(seqs[i]), NEW y \in Elements(seqs[j])
      PROVE  <<x, y>> \in RankPairs(B)
  <2>1. x \in B /\ x.priority = ranks[i] /\ y \in B /\ y.priority = ranks[j]
    BY <1>6, <1>7 DEF OfClass
  <2>2. x.priority > y.priority
    BY <1>4, <1>7, <1>8, <2>1
  <2> QED BY <2>1, <2>2 DEF RankPairs, Outranks
<1>9. Ranked(seqs, RankPairs(B))
  BY <1>6, <1>7, <1>8 DEF Ranked
<1>10. UNION {Elements(seqs[n]) : n \in DOMAIN seqs} = B
  <2>1. ASSUME NEW x \in B PROVE \E n \in DOMAIN seqs : x \in Elements(seqs[n])
    <3>1. PICK n \in DOMAIN ranks : ranks[n] = x.priority
      BY <1>3, <1>4 DEF Elements
    <3> QED BY <1>6, <1>7, <3>1 DEF OfClass
  <2>2. ASSUME NEW n \in DOMAIN seqs PROVE Elements(seqs[n]) \subseteq B
    BY <1>6, <1>7 DEF OfClass
  <2> QED BY <2>1, <2>2
<1>11. o \in Seq(B) /\ Elements(o) = B /\ Sorted(o, RankPairs(B))
  BY <1>7, <1>9, <1>10, FlattenRanked
<1> HIDE DEF o
<1>12. Len(o) \in Nat /\ DOMAIN o = 1 .. Len(o) /\ \A n \in DOMAIN o : o[n] \in B
  BY <1>11
<1>13. ASSUME NEW m \in DOMAIN o, NEW n \in DOMAIN o, m < n
       PROVE  Outranks(B, o[m], o[n]) /\ o[m] # o[n]
  <2>1. Outranks(B, o[m], o[n])
    BY <1>11, <1>13 DEF Sorted, RankPairs
  <2> QED BY <1>12, <2>1, OutranksIsStrict
<1>14. Len(o) = Cardinality(B)
  <2>1. o \in [1 .. Len(o) -> B]
    BY <1>11, <1>12
  <2>2. ASSUME NEW m \in 1 .. Len(o), NEW n \in 1 .. Len(o), o[m] = o[n] PROVE m = n
    BY <1>12, <1>13, <2>2
  <2>3. \A b \in B : \E n \in 1 .. Len(o) : o[n] = b
    BY <1>11, <1>12 DEF Elements
  <2>4. o \in Bijection(1 .. Len(o), B)
    BY <2>1, <2>2, <2>3 DEF Bijection, Injection, Surjection, IsInjective
  <2> QED BY <1>12, <2>4, FS_CountingElements DEF ExistsBijection
<1>15. /\ Len(o) = Cardinality(B) /\ {o[n] : n \in DOMAIN o} = B
       /\ \A m, n \in DOMAIN o : m < n => Outranks(B, o[m], o[n])
  BY <1>11, <1>13, <1>14 DEF Elements
<1> QED BY <1>1, <1>11, <1>15 DEF IsRanked

(* next names the one build, of those it may start, that no other outranks. *)
LEMMA NextRanks ==
    ASSUME NEW B, Builds(B), NEW running, NEW limit
    PROVE  LET free == {x \in B : running[x.project] < limit}
           IN  ToStart(B, running, limit)
                 = {x.id : x \in {y \in free : \A z \in free \ {y} : Outranks(B, y, z)}}
<1> DEFINE free == {x \in B : running[x.project] < limit}
           first == {y \in free : \A z \in free \ {y} : Outranks(B, y, z)}
           o == Order(B)
           F == {n \in DOMAIN o : running[o[n].project] < limit}
           G == {m \in F : \A k \in F : m <= k}
<1>1. ToStart(B, running, limit) = {o[n].id : n \in G}
  BY DEF ToStart
<1>2. o \in Seq(B) /\ {o[n] : n \in DOMAIN o} = B
      /\ \A m, n \in DOMAIN o : m < n => Outranks(B, o[m], o[n])
  BY OrderRanks DEF IsRanked
<1> HIDE DEF o
<1>3. DOMAIN o = 1 .. Len(o) /\ Len(o) \in Nat /\ \A n \in DOMAIN o : o[n] \in B
  BY <1>2
<1>4. \A n \in F : n \in Nat /\ o[n] \in free
  BY <1>3
<1>5. \A x \in free : \E n \in F : o[n] = x
  BY <1>2
<1>6. F \subseteq DOMAIN o /\ free \subseteq B
  OBVIOUS
<1> HIDE DEF F, free
<1>7. ASSUME NEW n \in G PROVE o[n] \in first
  <2> SUFFICES ASSUME NEW z \in free, z # o[n] PROVE Outranks(B, o[n], z)
    BY <1>4
  <2>1. PICK m \in F : o[m] = z
    BY <1>5
  <2>2. n \in F /\ n <= m /\ n # m
    BY <2>1
  <2>3. n < m
    BY <1>4, <2>1, <2>2
  <2> QED BY <1>2, <1>6, <2>1, <2>2, <2>3
<1>8. ASSUME NEW x \in first PROVE \E n \in G : o[n] = x
  <2>1. PICK n \in F : o[n] = x
    BY <1>5
  <2>2. ASSUME NEW k \in F PROVE n <= k
    <3> SUFFICES ASSUME k < n PROVE FALSE
      BY <1>4
    <3>1. Outranks(B, o[k], o[n])
      BY <1>2, <1>6, <2>2
    <3>2. o[k] \in B /\ o[n] \in B /\ o[k] \in free
      BY <1>4, <1>6
    <3>3. o[k] # o[n] /\ ~ Outranks(B, o[n], o[k])
      BY <3>1, <3>2, OutranksIsStrict
    <3> QED BY <2>1, <3>2, <3>3
  <2> QED BY <2>1, <2>2
<1>9. {o[n].id : n \in G} = {x.id : x \in first}
  <2> HIDE DEF G, first
  <2> QED BY <1>7, <1>8
<1> QED BY <1>1, <1>9 DEF free

(* Rows are of known keys, and however long the queue, there are finitely   *)
(* many.                                                                    *)
Recorded == IsFiniteSet(Used) /\ \A i \in Used : row[i].key \in Keys

LEMMA RecordedStep == QueueInv /\ Recorded /\ [Next]_vars => Recorded'
<1> SUFFICES ASSUME QueueInv, Recorded, [Next]_vars PROVE Recorded'
  OBVIOUS
<1>1. CASE SameRows
  <2>1. Used' = Used
    BY <1>1 DEF SameRows, Used
  <2>2. \A i \in Used : row'[i].key \in Keys
    BY <1>1 DEF SameRows, Recorded, Used
  <2> QED BY <2>1, <2>2 DEF Recorded
<1>2. ASSUME NEW k \in Keys, Enqueue(k, 0) PROVE Recorded'
  <2>1. PICK i \in Ids : row[i].state = "unused" /\ row' = [row EXCEPT ![i] = New(k, 0)]
    BY <1>2 DEF Enqueue
  <2>2. row'[i].state = "queued" /\ row'[i].key = k /\ \A j \in Ids \ {i} : row'[j] = row[j]
    BY <2>1 DEF New, QueueInv, TableInv, RowOK
  <2>3. Used' = Used \cup {i}
    BY <2>2 DEF Used
  <2>4. IsFiniteSet(Used')
    BY <2>3, FS_AddElement DEF Recorded
  <2>5. \A j \in Used' : row'[j].key \in Keys
    BY <2>2, <2>3 DEF Recorded, Used
  <2> QED BY <2>4, <2>5 DEF Recorded
<1> QED BY <1>1, <1>2, RowsStayOrOneIsAdded

LEMMA RecordedInit == Init => Recorded
<1> SUFFICES ASSUME Init PROVE Recorded
  OBVIOUS
<1>1. Used = {}
  BY DEF Init, TableInit, Unused, Used
<1> QED BY <1>1, FS_EmptySet DEF Recorded

(* What the dashboard shows is a set of builds.                             *)
LEMMA PendingAreBuilds == ASSUME Recorded PROVE Builds(Pending)
<1> DEFINE f == [i \in In("queued") |->
                   [id |-> i, project |-> Project[row[i].key],
                    priority |-> Priority[row[i].key], created |-> i]]
<1>1. In("queued") \subseteq Used /\ In("queued") \subseteq Ids
  BY DEF In, Used
<1>2. IsFiniteSet(In("queued"))
  BY <1>1, FS_Subset DEF Recorded
<1>3. ASSUME NEW i \in In("queued")
      PROVE  /\ f[i].id = i /\ f[i].created = i /\ i \in Int
             /\ f[i].priority \in Int
  <2>1. i \in Nat /\ row[i].key \in Keys
    BY <1>1, IdsAssumption DEF Recorded
  <2>2. Priority[row[i].key] \in Int
    BY <2>1, KeysAssumption
  <2> QED BY <2>1, <2>2
<1>4. Pending = {f[i] : i \in In("queued")}
  BY DEF Pending
<1> HIDE DEF f
<1>5. IsFiniteSet(Pending)
  BY <1>2, <1>4, ImageIsNoLarger
<1> QED BY <1>3, <1>4, <1>5 DEF Builds

LEMMA RecordedAlways == Spec => []Recorded
BY QueueAlways, RecordedInit, RecordedStep, PTL DEF Spec

(* Whatever has been pushed, cancelled, claimed and handed back, order puts *)
(* every pending build behind those that outrank it (queue.rs, order).      *)
THEOREM PendingAreRanked == Spec => []OrderIsRanked
<1>1. Recorded => OrderIsRanked
  BY PendingAreBuilds, OrderRanks DEF OrderIsRanked
<1> QED BY <1>1, RecordedAlways, PTL

(* next picks the best of the builds whose project has room, and picks one  *)
(* whenever there is one (queue.rs, next).                                  *)
THEOREM NextPicksBest == Spec => []NextIsRanked
<1>1. Recorded => NextIsRanked
  <2> DEFINE running == [p \in {Project[k] : k \in Keys} |->
                           Cardinality({i \in In("leased") : Project[row[i].key] = p})]
             Picked(r) == LET free == {x \in Pending : r[x.project] < Limit}
                          IN  ToStart(Pending, r, Limit)
                                = {x.id : x \in {y \in free : \A z \in free \ {y} :
                                                               Outranks(Pending, y, z)}}
  <2>1. ASSUME Recorded, NEW r PROVE Picked(r)
    BY <2>1, PendingAreBuilds, NextRanks
  <2>2. NextIsRanked <=> Picked(running)
    BY DEF NextIsRanked
  <2> HIDE DEF Picked, running
  <2> QED BY <2>1, <2>2
<1> QED BY <1>1, RecordedAlways, PTL
=============================================================================
