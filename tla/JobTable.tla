------------------------------ MODULE JobTable ------------------------------
(***************************************************************************)
(* The job table of crates/liyasa-store/src/jobs.rs: rows claimed with a    *)
(* lease and renewed by heartbeat.  One action is one SQL statement, which  *)
(* the store runs atomically; the operations that take two statements       *)
(* (claim, fail) appear here as the statement that writes, and module       *)
(* JobWorker shows that the worker loop, statement by statement, does       *)
(* nothing but these actions.                                               *)
(*                                                                          *)
(* Time is relative, so the clock is unbounded and the state is not: "wait" *)
(* is run_at - now and "left" is lease_until - now.  Both stop counting     *)
(* once nothing can tell the values apart: left at -1 (the lease lapsed,    *)
(* lease_until < now), wait at -MaxLate (rows that have been runnable for   *)
(* longer than MaxLate are ordered by id alone).                            *)
(*                                                                          *)
(* Not modelled: payload, result and error columns, project_id, paging.     *)
(***************************************************************************)
EXTENDS Integers, Sequences, FiniteSets

CONSTANTS
    Ids,          \* job ids: ULIDs, increasing in the order of creation
    Keys,         \* the (name, key) pairs jobs are enqueued under
    Handled,      \* the keys whose name some registered kind handles
    Priority,     \* the priority a key is enqueued with
    Delays,       \* how far in the future enqueue may put run_at
    Workers,      \* worker names, one per replica
    NoWorker,     \* worker IS NULL
    NoKey,        \* the key of an id not yet used
    Lease,        \* the lease, in ticks
    Ladder,       \* the backoff ladder, in ticks
    MaxAttempts,  \* max_attempts
    MaxLate       \* how late a runnable row's run_at is told apart

ASSUME IdsAssumption == Ids \subseteq Nat
ASSUME KeysAssumption ==
    /\ NoKey \notin Keys
    /\ Handled \subseteq Keys
    /\ Priority \in [Keys -> Int]
    /\ Delays \subseteq Nat /\ 0 \in Delays   \* run_at None is now
ASSUME WorkersAssumption == NoWorker \notin Workers
ASSUME TimesAssumption ==
    /\ Lease \in Nat
    /\ MaxAttempts \in Nat
    /\ MaxLate \in Nat
    /\ Ladder \in Seq(Nat)
    /\ Ladder # <<>>

VARIABLE row      \* the table: one record per id ever used

States == {"unused", "queued", "leased", "done", "failed", "dead", "deleted"}

Row == [state : States, key : Keys \cup {NoKey}, wait : Int, left : Int,
        att : Nat, worker : Workers \cup {NoWorker}, ver : Nat]

Unused == [state |-> "unused", key |-> NoKey, wait |-> 0, left |-> 0,
           att |-> 0, worker |-> NoWorker, ver |-> 0]

Stored(i) == row[i].state \notin {"unused", "deleted"}
Live(i) == row[i].state \in {"queued", "leased"}

(* Slip: the index covers queued rows only.                                 *)
IndexOverQueued(i, k) ==
    \A j \in Ids \ {i} : row[j].state = "queued" => row[j].key # k

(* The partial unique index job_live_key of migrations/0001_init.sql: a     *)
(* write that would leave two live rows under one key is refused.           *)
IndexAllows(i, k) == \A j \in Ids \ {i} : Live(j) => row[j].key # k

(* backoff(attempt): the ladder's rung, the first for attempt 0, the last   *)
(* for every attempt past its end.                                          *)
Backoff(a) ==
    Ladder[IF a < 1 THEN 1 ELSE IF a > Len(Ladder) THEN Len(Ladder) ELSE a]

-----------------------------------------------------------------------------
(* The row an UPDATE leaves behind.  Every one but the heartbeat's advances *)
(* the version.                                                             *)
New(k, d) ==
    [state |-> "queued", key |-> k, wait |-> d, left |-> 0, att |-> 0,
     worker |-> NoWorker, ver |-> 1]
Written(r, state, wait, left, att, worker) ==
    [state |-> state, key |-> r.key, wait |-> wait, left |-> left, att |-> att,
     worker |-> worker, ver |-> r.ver + 1]

Leased(r, w, left) == Written(r, "leased", r.wait, left, r.att + 1, w)
(* Slip: finish leaves worker as it is. *)
FinishedByWorker(r, s) == Written(r, s, r.wait, 0, r.att, r.worker)
Finished(r, s) == Written(r, s, r.wait, 0, r.att, NoWorker)
Requeued(r, wait) == Written(r, "queued", wait, 0, r.att, NoWorker)
(* Slip: retry hands one attempt back instead of starting over. *)
RetriedOnce(r) == Written(r, "queued", 0, r.left, r.att - 1, r.worker)
Retried(r) == Written(r, "queued", 0, r.left, 0, r.worker)
(* Slip: the row is handed back under the version of the claim. *)
ReleasedSameVersion(r) ==
    [state |-> "queued", key |-> r.key, wait |-> r.wait, left |-> 0,
     att |-> IF r.att > 0 THEN r.att - 1 ELSE 0, worker |-> NoWorker, ver |-> r.ver]
Released(r) ==
    Written(r, "queued", r.wait, 0, IF r.att > 0 THEN r.att - 1 ELSE 0, NoWorker)
(* Slip: the heartbeat touches updated_at only. *)
Touched(r) == r
Renewed(r) == [r EXCEPT !.left = Lease]

Aged(r) ==
    IF r.state \notin {"queued", "leased"} THEN r
    ELSE [r EXCEPT !.wait = IF @ > -MaxLate THEN @ - 1 ELSE @,
                   !.left = IF r.state = "leased" /\ @ > -1 THEN @ - 1 ELSE @]

-----------------------------------------------------------------------------
(* The claim's WHERE: a queued row whose run_at has passed, or a leased one *)
(* whose lease lapsed.                                                      *)
Runnable(i) ==
    \/ row[i].state = "queued" /\ row[i].wait <= 0
    \/ row[i].state = "leased" /\ row[i].left < 0

(* ORDER BY priority DESC, run_at ASC, id ASC.                              *)
Before(i, j) ==
    LET p(x) == Priority[row[x].key] IN
    \/ p(i) > p(j)
    \/ p(i) = p(j) /\ row[i].wait < row[j].wait
    \/ p(i) = p(j) /\ row[i].wait = row[j].wait /\ i < j

(* Slip: the claim takes the top row and only then looks at its name.       *)
TopOfAll(i, H) ==
    /\ Runnable(i) /\ row[i].key \in H
    /\ \A j \in Ids \ {i} : Runnable(j) => Before(i, j)

(* The row a claim that handles the keys in H selects.                      *)
Candidate(i, H) ==
    /\ Runnable(i) /\ row[i].key \in H
    /\ \A j \in Ids \ {i} : Runnable(j) /\ row[j].key \in H => Before(i, j)

-----------------------------------------------------------------------------
(* ON CONFLICT ... DO NOTHING: a key with a live row adds nothing, and so   *)
(* takes no step.                                                           *)
Enqueue(k, d) ==
    \E i \in Ids :
      /\ row[i].state = "unused"
      /\ \A j \in Ids : j < i => row[j].state # "unused"
      /\ IndexAllows(i, k)
      /\ row' = [row EXCEPT ![i] = New(k, d)]

(* The claim as its callers see it: some runnable row becomes w's.  "left"  *)
(* is below Lease when the select's clock was read before this statement.   *)
Claim(w, i, left) ==
    /\ Runnable(i)
    /\ row' = [row EXCEPT ![i] = Leased(@, w, left)]

(* Slip: the heartbeat does not look at lease_until. *)
HeartbeatAnyLease(i) ==
    /\ row[i].state = "leased"
    /\ row' = [row EXCEPT ![i] = Renewed(@)]

Heartbeat(i) ==
    /\ row[i].state = "leased" /\ row[i].left >= 0
    /\ row' = [row EXCEPT ![i] = Renewed(@)]

Complete(i) ==
    /\ Stored(i)
    /\ row' = [row EXCEPT ![i] = Finished(@, "done")]

Bury(i) ==
    /\ Stored(i)
    /\ row' = [row EXCEPT ![i] = Finished(@, "dead")]

(* fail's write when the attempts it had read, a, had not run out.          *)
Requeue(i, a) ==
    /\ Stored(i) /\ IndexAllows(i, row[i].key)
    /\ row' = [row EXCEPT ![i] = Requeued(@, Backoff(a))]

Cancel(i) ==
    /\ Live(i)
    /\ row' = [row EXCEPT ![i] = Finished(@, "failed")]

Retry(i) ==
    /\ row[i].state \in {"failed", "dead"} /\ IndexAllows(i, row[i].key)
    /\ row' = [row EXCEPT ![i] = Retried(@)]

ReleaseOne(i) ==
    /\ row[i].state = "leased"
    /\ row' = [row EXCEPT ![i] = Released(@)]

Release(w) ==
    row' = [i \in Ids |-> IF row[i].state = "leased" /\ row[i].worker = w
                          THEN Released(row[i]) ELSE row[i]]

Delete(i) ==
    /\ Stored(i)
    /\ row' = [row EXCEPT ![i] = [Unused EXCEPT !.state = "deleted",
                                                !.ver = row[i].ver + 1]]

Elapse == row' = [i \in Ids |-> Aged(row[i])]

-----------------------------------------------------------------------------
TableInit == row = [i \in Ids |-> Unused]

TableNext ==
    \/ \E k \in Keys, d \in Delays : Enqueue(k, d)
    \/ \E w \in Workers, i \in Ids, left \in -1 .. Lease : Claim(w, i, left)
    \/ \E i \in Ids : Heartbeat(i)
    \/ \E i \in Ids : Complete(i)
    \/ \E i \in Ids : Bury(i)
    \/ \E i \in Ids, a \in 0 .. MaxAttempts : Requeue(i, a)
    \/ \E i \in Ids : Cancel(i)
    \/ \E i \in Ids : Retry(i)
    \/ \E i \in Ids : ReleaseOne(i)
    \/ \E w \in Workers : Release(w)
    \/ \E i \in Ids : Delete(i)
    \/ Elapse

TableSpec == TableInit /\ [][TableNext]_row

-----------------------------------------------------------------------------
RowOK == row \in [Ids -> Row]

(* A row names a worker exactly while it is leased, and a lease that has    *)
(* not lapsed never runs longer than Lease: what drain's release by worker  *)
(* name and the claim's lease_until test both rest on.                      *)
LeaseMatchesState ==
    \A i \in Ids :
      /\ row[i].state = "leased" <=> row[i].worker # NoWorker
      /\ row[i].left \in -1 .. Lease

(* However enqueue, fail, retry, cancel and complete interleave, a key has  *)
(* at most one live job (jobs.rs:73, "A live job with the same name and key *)
(* exists; nothing was added").                                             *)
OneLivePerKey ==
    \A i, j \in Ids : Live(i) /\ Live(j) /\ row[i].key = row[j].key => i = j

(* What lets a claim select first and update later: a runnable row stays    *)
(* runnable for as long as its version does not move.  Only the heartbeat   *)
(* leaves the version alone, so this is why a lapsed lease may not be       *)
(* renewed (jobs.rs:323).                                                   *)
RunnableUntilVersionMoves ==
    [][\A i \in Ids : Runnable(i) /\ row'[i].ver = row[i].ver => Runnable(i)']_row
=============================================================================
