------------------------------ MODULE JobWorker -----------------------------
(***************************************************************************)
(* The worker loop of crates/liyasa-server/src/routes/work.rs and the drain *)
(* of routes/serve.rs over the job table, one statement at a time: each     *)
(* replica runs one loop (fire the timers, claim, run the handler under a   *)
(* heartbeat task, complete or fail), and between any two statements of one *)
(* replica the others, the clients and the clock may move.                  *)
(*                                                                          *)
(* A step that something outside the program decides (a process crashes, a  *)
(* process stalls past a deadline, a statement fails, an operator cancels   *)
(* or retries, a replica drains) spends one unit of "budget".               *)
(* Clocks of replicas are taken to agree.                                   *)
(***************************************************************************)
EXTENDS JobTable

CONSTANTS
    Timers,          \* the keys the scheduled kinds enqueue, one per bucket
    Disturbances,    \* the kinds of disturbance that happen, and ...
    MaxDisturbances  \* ... how many of them at most

Kinds == {"crash", "stall", "db", "cancel", "retry", "drain"}

ASSUME TimersAssumption == Timers \subseteq Keys
ASSUME DisturbancesAssumption ==
    Disturbances \subseteq Kinds /\ MaxDisturbances \in Nat

VARIABLES
    wk,      \* the local state of every replica's worker task
    budget   \* the disturbances still to come

vars == <<row, wk, budget>>

(* pc: idle (between jobs), picked (claim has selected), run (the handler   *)
(* is running), failing (fail has read the row).  id and ver are the row    *)
(* selected and, from run on, the version the claim wrote; lag the ticks    *)
(* since the claim read the clock; beat the ticks until the heartbeat task  *)
(* wakes, Quiet when it has ended; att the attempts fail read; slow says    *)
(* that the task's statements for this job are held up past their ticks;    *)
(* mute that its heartbeat task ended because a renewal failed.             *)
Quiet == -1
WorkerState ==
    [pc : {"idle", "picked", "run", "failing"}, id : Ids \cup {0}, ver : Nat,
     lag : Nat, beat : Int, att : Nat, slow : BOOLEAN, mute : BOOLEAN]
Idle == [pc |-> "idle", id |-> 0, ver |-> 0, lag |-> 0, beat |-> Quiet, att |-> 0,
         slow |-> FALSE, mute |-> FALSE]

(* let every = lease / 3                                                    *)
Every == Lease \div 3

Busy(w) == wk[w].pc \in {"run", "failing"}

Spend(kind) ==
    /\ kind \in Disturbances /\ budget > 0
    /\ budget' = budget - 1

Become(w, s) == wk' = [wk EXCEPT ![w] = s]

-----------------------------------------------------------------------------
(* Clients, and fire_timers in the loop of any idle replica: which replica  *)
(* fires does not show in the table.  A bucket's key stays the same for the *)
(* whole of the behaviour (a day is long).                                  *)
Submit(k, d) == k \notin Timers /\ Enqueue(k, d) /\ UNCHANGED <<wk, budget>>

FireTimers(w) ==
    /\ wk[w].pc = "idle"
    /\ \E k \in Timers : Enqueue(k, 0)
    /\ UNCHANGED <<wk, budget>>

CancelJob(i) == Spend("cancel") /\ Cancel(i) /\ UNCHANGED wk
RetryJob(i) == Spend("retry") /\ Retry(i) /\ UNCHANGED wk

-----------------------------------------------------------------------------
(* claim_runnable, its SELECT.                                              *)
Select(w) ==
    /\ wk[w].pc = "idle"
    /\ \E i \in Ids :
         /\ Candidate(i, Handled)
         /\ Become(w, [Idle EXCEPT !.pc = "picked", !.id = i, !.ver = row[i].ver])
    /\ UNCHANGED <<row, budget>>

LeaseLeft(w) == IF wk[w].lag > Lease THEN -1 ELSE Lease - wk[w].lag

(* Slip: the UPDATE names the row by its id alone.                          *)
WinById(w) ==
    LET i == wk[w].id IN
    /\ wk[w].pc = "picked"
    /\ Stored(i)
    /\ row' = [row EXCEPT ![i] = Leased(@, w, LeaseLeft(w))]
    /\ Become(w, [wk[w] EXCEPT !.pc = "run", !.ver = row[i].ver + 1, !.lag = 0, !.beat = Every])
    /\ UNCHANGED budget

(* The version still matches: the UPDATE changes one row, and the handler   *)
(* starts with a fresh heartbeat task.                                      *)
Win(w) ==
    LET i == wk[w].id IN
    /\ wk[w].pc = "picked"
    /\ Stored(i) /\ row[i].ver = wk[w].ver
    /\ row' = [row EXCEPT ![i] = Leased(@, w, LeaseLeft(w))]
    /\ Become(w, [wk[w] EXCEPT !.pc = "run", !.ver = @ + 1, !.lag = 0, !.beat = Every])
    /\ UNCHANGED budget

(* Another worker won the row; pick the next one.                           *)
Lose(w) ==
    /\ wk[w].pc = "picked"
    /\ row[wk[w].id].ver # wk[w].ver
    /\ Become(w, Idle)
    /\ UNCHANGED <<row, budget>>

(* Slip: the heartbeat task renews the lease it took, lapsed or not.        *)
BeatRegardless(w) ==
    LET i == wk[w].id IN
    /\ wk[w].pc = "run" /\ wk[w].beat = 0
    /\ row' = [row EXCEPT ![i] = IF @.state = "leased" THEN Renewed(@) ELSE @]
    /\ Become(w, [wk[w] EXCEPT !.beat = Every])
    /\ UNCHANGED budget

(* The heartbeat task wakes and its statement runs: a row that is not       *)
(* leased any more, or whose lease has lapsed, ends the task.               *)
Beat(w) ==
    LET i == wk[w].id IN
    /\ wk[w].pc = "run" /\ wk[w].beat = 0
    /\ IF row[i].state = "leased" /\ row[i].left >= 0
       THEN Heartbeat(i) /\ Become(w, [wk[w] EXCEPT !.beat = Every])
       ELSE UNCHANGED row /\ Become(w, [wk[w] EXCEPT !.beat = Quiet])
    /\ UNCHANGED budget

(* The heartbeat task wakes and its statement fails (the database is locked *)
(* or out of reach): any error ends the task, whatever the row is, and the  *)
(* handler goes on with nothing to renew its lease.                         *)
BeatLost(w) ==
    /\ wk[w].pc = "run" /\ wk[w].beat = 0
    /\ Spend("db")
    /\ Become(w, [wk[w] EXCEPT !.beat = Quiet, !.mute = TRUE])
    /\ UNCHANGED row

(* The handler returned Done or Skipped.                                    *)
Succeed(w) ==
    /\ wk[w].pc = "run"
    /\ Complete(wk[w].id)
    /\ Become(w, Idle)
    /\ UNCHANGED budget

(* The handler returned Failed: fail reads the row, ...                     *)
FailRead(w) ==
    /\ wk[w].pc = "run"
    /\ Become(w, [wk[w] EXCEPT !.pc = "failing", !.beat = Quiet,
                               !.att = row[wk[w].id].att])
    /\ UNCHANGED <<row, budget>>

(* ... and then writes what the attempts it read call for.  The index       *)
(* refuses a requeue beside another live job of the key: the error ends the *)
(* pass and the row stays as it is.                                         *)
FailWrite(w) ==
    LET i == wk[w].id IN
    /\ wk[w].pc = "failing"
    /\ CASE wk[w].att >= MaxAttempts -> Bury(i)
         [] wk[w].att < MaxAttempts /\ IndexAllows(i, row[i].key) ->
              Requeue(i, wk[w].att)
         [] OTHER -> UNCHANGED row
    /\ Become(w, Idle)
    /\ UNCHANGED budget

(* A statement of the pass fails (the database is locked, the disk is       *)
(* full): the pass ends, and a row it had claimed is still leased.          *)
WriteLost(w) ==
    /\ wk[w].pc # "idle"
    /\ Spend("db")
    /\ Become(w, Idle)
    /\ UNCHANGED row

(* The process dies, and comes back under the same worker name.             *)
Crash(w) ==
    /\ wk[w].pc # "idle"
    /\ Spend("crash")
    /\ Become(w, Idle)
    /\ UNCHANGED row

(* drain: the wait for the worker task timed out, or it was between passes; *)
(* either way the leases held under the name go back to the queue, and a    *)
(* handler still running goes on until the process exits (Crash) or it      *)
(* returns first.                                                           *)
Drain(w) ==
    /\ \E i \in Ids : row[i].state = "leased" /\ row[i].worker = w
    /\ Spend("drain")
    /\ Release(w)
    /\ UNCHANGED wk

-----------------------------------------------------------------------------
(* The process (or the disk under it) stalls.                               *)
Stall(w) ==
    /\ wk[w].pc # "idle" /\ ~wk[w].slow
    /\ Spend("stall")
    /\ wk' = [wk EXCEPT ![w].slow = TRUE]
    /\ UNCHANGED row

(* A tick is long against a statement: time passes once every statement due *)
(* in it has run, but for those of a stalled task.                          *)
Prompt(w) == wk[w].slow \/ (wk[w].pc \in {"idle", "run"} /\ wk[w].beat # 0)

WorkerAged(s) ==
    [s EXCEPT !.lag = IF s.pc = "picked" /\ @ <= Lease THEN @ + 1 ELSE @,
              !.beat = IF @ > 0 THEN @ - 1 ELSE @]

Tick ==
    /\ \A w \in Workers : Prompt(w)
    /\ Elapse
    /\ wk' = [w \in Workers |-> WorkerAged(wk[w])]
    /\ UNCHANGED budget

-----------------------------------------------------------------------------
Init ==
    /\ TableInit
    /\ wk = [w \in Workers |-> Idle]
    /\ budget = MaxDisturbances

Work(w) ==
    Select(w) \/ Win(w) \/ Lose(w) \/ Beat(w) \/ Succeed(w) \/ FailRead(w) \/ FailWrite(w)

Next ==
    \/ \E k \in Keys, d \in Delays : Submit(k, d)
    \/ \E i \in Ids : CancelJob(i) \/ RetryJob(i)
    \/ \E w \in Workers : Work(w) \/ FireTimers(w) \/ Drain(w)
    \/ \E w \in Workers : BeatLost(w) \/ WriteLost(w) \/ Crash(w) \/ Stall(w)
    \/ Tick

Spec == Init /\ [][Next]_vars

(* Each replica's loop wakes again and again (TICK) and its statements and  *)
(* its heartbeat task run; a handler returns; time passes.                  *)
Fairness ==
    /\ WF_vars(Tick)
    /\ \A w \in Workers :
         /\ WF_vars(Select(w))
         /\ WF_vars(Win(w) \/ Lose(w))
         /\ WF_vars(Beat(w))
         /\ WF_vars(Succeed(w) \/ FailRead(w))
         /\ WF_vars(FailWrite(w))

FairSpec == Spec /\ Fairness

-----------------------------------------------------------------------------
TypeOK ==
    /\ RowOK
    /\ wk \in [Workers -> WorkerState]
    /\ budget \in Nat

(* "two workers racing for one row cannot both win" (jobs.rs:6): two        *)
(* handlers on one job hold it from two different claims, no claim is from  *)
(* the future, and a handler whose claim is the row's last write still has  *)
(* the row leased in its own name.  It covers the select/update window, the *)
(* crash, the stalled worker and the lapsed lease.                          *)
ClaimsAreExclusive ==
    \A v, w \in Workers :
      Busy(w) =>
        /\ wk[w].ver <= row[wk[w].id].ver
        /\ wk[w].ver = row[wk[w].id].ver =>
             row[wk[w].id].state = "leased" /\ row[wk[w].id].worker = w
        /\ v # w /\ Busy(v) /\ wk[v].id = wk[w].id => wk[v].ver # wk[w].ver

(* "a job that takes longer than one lease is not stolen from underneath    *)
(* it" (work.rs:267), as far as it holds: a claim takes a row whose last    *)
(* write is the claim of a handler still running only if that handler's     *)
(* replica stalled, or one of its renewals failed.                          *)
Steals(w, v) ==
    /\ Win(w) /\ wk[w].id = wk[v].id
    /\ Busy(v) /\ wk[v].ver = row[wk[v].id].ver
NeverStolen ==
    [][\A v, w \in Workers : Steals(w, v) => wk[v].slow \/ wk[v].mute]_vars

(* Does not hold (README, other departures).  The sentence as it stands:    *)
(* one failed renewal ends the heartbeat task (work.rs:276), and the lease  *)
(* of a replica that keeps up lapses.                                       *)
NeverStolenAlive ==
    [][\A v, w \in Workers : Steals(w, v) => wk[v].slow]_vars

(* A job whose key some binary handles does not sit in the queue forever,   *)
(* whatever is enqueued above it and whatever crashes: it is done, or it is *)
(* cancelled, or its attempts run out.                                      *)
Settled(i) == ~Live(i)
HandledJobsSettle ==
    \A i \in Ids : (Live(i) /\ row[i].key \in Handled) ~> Settled(i)

(* A job that is done, cancelled or dead is written again by an operator's  *)
(* retry, and otherwise only by the late end of a handler that had it when  *)
(* it was ended (jobs.rs:385): nothing else revives it, a claim, a drain    *)
(* or a lapse in between included.                                          *)
Over(i) == row[i].state \in {"done", "failed", "dead"}
LateEnd(i) ==
    \E w \in Workers : /\ Busy(w) /\ wk[w].id = i /\ wk[w].ver < row[i].ver
                       /\ Succeed(w) \/ FailWrite(w)
FinishedStays ==
    [][\A i \in Ids : Over(i) /\ row'[i] # row[i] => RetryJob(i) \/ LateEnd(i)]_vars

(* Does not hold (README, other departures).  jobs.rs:402 says of cancel    *)
(* "a queued or leased job stops": only a retry brings a cancelled job back. *)
CancelledStays ==
    [][\A i \in Ids : row[i].state = "failed" /\ row'[i].state # "failed" => RetryJob(i)]_vars

(* Does not hold (README, other departures).  work.rs:314 says of           *)
(* fire_timers "At most one row exists per bucket however many replicas     *)
(* fire".                                                                   *)
OneRowPerBucket ==
    \A i, j \in Ids :
      row[i].key \in Timers /\ row[j].key = row[i].key => i = j
=============================================================================
