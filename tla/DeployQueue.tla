----------------------------- MODULE DeployQueue ----------------------------
(***************************************************************************)
(* Queueing builds (crates/liyasa-server/src/deploy/queue.rs) over the job  *)
(* table: submit reads the live rows in two statements, cancels the one     *)
(* under its key and enqueues, while other requests do the same and the     *)
(* worker loops claim, finish and fail builds.                              *)
(*                                                                          *)
(* A key is a project's branch or pull request, a commit is the number of   *)
(* the push.  The workers' statements are whole actions here (JobWorker     *)
(* takes them apart), their heartbeats keep every lease, and no operator    *)
(* retries a job.  Not modelled: the page limit of 500 rows, messages,      *)
(* webhooks, the estimate of the start.                                     *)
(***************************************************************************)
EXTENDS JobTable, BuildOrder

CONSTANTS
    Submitters,   \* requests and webhooks under way at once
    Project,      \* the project of a key
    Cap,          \* server.builds.queue
    Limit,        \* server.builds.concurrencyPerProject
    MaxPushes,    \* bound: pushes in all
    MaxFailures   \* bound: builds that fail

ASSUME ProjectAssumption == \A k \in Keys : Project[k] \in Nat
ASSUME QueueAssumption == {Cap, Limit, MaxPushes, MaxFailures} \subseteq Nat
ASSUME NoRowAssumption == 0 \notin Ids   \* 0 is no row, in sub and in holds

VARIABLES
    commit,     \* the commit in the payload of each row, 0 for none
    sub,        \* what each submit is at
    pushes,     \* pushes so far
    promised,   \* the newest commit of a key that submit has found room for
    holds,      \* the row each worker's handler runs, 0 for none
    failures,   \* failures so far
    since       \* history: the rows of its key that were put in the queue, by
                \* an insert or by a failed build, while a submit was under way

vars == <<row, commit, sub, pushes, promised, holds, failures, since>>

(* commit is the push asked for, queued what the first list held, old the   *)
(* row to cancel.                                                           *)
Resting == [pc |-> "idle"]
Submitting == [pc : {"queued", "leased", "cancel", "enqueue", "existing"}, key : Keys, commit : Nat,
               queued : SUBSET Ids, old : Ids \cup {0}]

Become(s, to) == sub' = [sub EXCEPT ![s] = to]
Goto(s, pc) == Become(s, [sub[s] EXCEPT !.pc = pc])

(* live lists the rows of one state and then of the other; slip: a build    *)
(* that is claimed in between is in neither list.                           *)
LeasedFirst == <<"leased", "queued">>
Listed == <<"queued", "leased">>

In(state) == {i \in Ids : row[i].state = state}

(* The rows of the key of s that this step puts in the queue.               *)
PutInQueue(s) ==
    {i \in Ids : row'[i].state = "queued" /\ row[i].state # "queued" /\ row'[i].key = sub[s].key}

Watch ==
    since' = [s \in Submitters |-> IF sub[s].pc = "idle" \/ sub'[s].pc = "idle" THEN {}
                                   ELSE since[s] \cup PutInQueue(s)]

-----------------------------------------------------------------------------
(* A push, a pull request or POST builds asks for a build.                  *)
Push(s, k) ==
    /\ sub[s].pc = "idle" /\ pushes < MaxPushes
    /\ pushes' = pushes + 1
    /\ Become(s, [pc |-> "queued", key |-> k, commit |-> pushes + 1, queued |-> {}, old |-> 0])
    /\ UNCHANGED <<row, commit, promised, holds, failures>>
    /\ Watch

(* live, its first statement, ...                                           *)
ListQueued(s) ==
    /\ sub[s].pc = "queued"
    /\ Become(s, [sub[s] EXCEPT !.pc = "leased", !.queued = In(Listed[1])])
    /\ UNCHANGED <<row, commit, pushes, promised, holds, failures>>
    /\ Watch

(* Slip: the cap is one build late.                                         *)
RoomAtCap(depth) == depth <= Cap
Room(depth) == depth < Cap

(* The first row of the key, in a list where the queued rows come first.    *)
OfKey(s, ids) == {i \in ids : row[i].key = sub[s].key}

Existing(s, leased) ==
    IF OfKey(s, sub[s].queued) # {} THEN OfKey(s, sub[s].queued) ELSE OfKey(s, leased)

(* ... and its second.  A row that was leased in between is counted twice.  *)
ListLeased(s) ==
    LET leased == In(Listed[2])
        depth == Cardinality(sub[s].queued) + Cardinality(leased)
        existing == Existing(s, leased)
    IN
    /\ sub[s].pc = "leased"
    /\ \/ /\ existing # {}
          /\ \E i \in existing : Become(s, [sub[s] EXCEPT !.pc = "cancel", !.old = i])
       \/ existing = {} /\ Room(depth) /\ Goto(s, "enqueue")
       \/ existing = {} /\ ~Room(depth) /\ Become(s, Resting)
    /\ promised' = IF (existing # {} \/ Room(depth)) /\ promised[sub[s].key] < sub[s].commit
                   THEN [promised EXCEPT ![sub[s].key] = sub[s].commit] ELSE promised
    /\ UNCHANGED <<row, commit, pushes, holds, failures>>
    /\ Watch

(* A row no longer live is NotFound, and the submit ends with that error.   *)
CancelOld(s) ==
    LET i == sub[s].old IN
    /\ sub[s].pc = "cancel"
    /\ IF Live(i) THEN Cancel(i) /\ Goto(s, "enqueue")
                  ELSE UNCHANGED row /\ Become(s, Resting)
    /\ UNCHANGED <<commit, pushes, promised, holds, failures>>
    /\ Watch

(* enqueue, its INSERT: beside a live row of the key it inserts nothing.    *)
EnqueueNew(s) ==
    LET k == sub[s].key IN
    /\ sub[s].pc = "enqueue"
    /\ IF \E i \in Ids : Live(i) /\ row[i].key = k
       THEN UNCHANGED <<row, commit>> /\ Goto(s, "existing")
       ELSE /\ Enqueue(k, 0)
            /\ commit' = [i \in Ids |-> IF row[i].state = "unused" /\ row'[i].state = "queued"
                                        THEN sub[s].commit ELSE commit[i]]
            /\ Become(s, Resting)
    /\ UNCHANGED <<pushes, promised, holds, failures>>
    /\ Watch

(* Its SELECT: the live row of the key is a Duplicate, which submit answers *)
(* as queued; a row no longer live is an error, and nothing is answered.    *)
FetchExisting(s) ==
    /\ sub[s].pc = "existing"
    /\ Become(s, Resting)
    /\ UNCHANGED <<row, commit, pushes, promised, holds, failures>>
    /\ Watch

-----------------------------------------------------------------------------
(* The worker loops.                                                        *)
Start(w) ==
    /\ holds[w] = 0
    /\ \E i \in Ids :
         /\ Candidate(i, Handled)
         /\ Claim(w, i, Lease)
         /\ holds' = [holds EXCEPT ![w] = i]
    /\ UNCHANGED <<commit, sub, pushes, promised, failures>>
    /\ Watch

Succeed(w) ==
    /\ holds[w] # 0
    /\ Complete(holds[w])
    /\ holds' = [holds EXCEPT ![w] = 0]
    /\ UNCHANGED <<commit, sub, pushes, promised, failures>>
    /\ Watch

Fail(w) ==
    LET i == holds[w] IN
    /\ i # 0 /\ failures < MaxFailures
    /\ failures' = failures + 1
    /\ CASE row[i].att >= MaxAttempts -> Bury(i)
         [] row[i].att < MaxAttempts /\ IndexAllows(i, row[i].key) -> Requeue(i, row[i].att)
         [] OTHER -> UNCHANGED row
    /\ holds' = [holds EXCEPT ![w] = 0]
    /\ UNCHANGED <<commit, sub, pushes, promised>>
    /\ Watch

(* A backoff runs out.  Leases are renewed as it does.                      *)
Tick ==
    /\ \E i \in Ids : row[i].state = "queued" /\ row[i].wait > 0
    /\ row' = [i \in Ids |-> [Aged(row[i]) EXCEPT !.left = row[i].left]]
    /\ UNCHANGED <<commit, sub, pushes, promised, holds, failures>>
    /\ Watch

-----------------------------------------------------------------------------
Init ==
    /\ TableInit
    /\ commit = [i \in Ids |-> 0]
    /\ sub = [s \in Submitters |-> Resting]
    /\ pushes = 0
    /\ promised = [k \in Keys |-> 0]
    /\ holds = [w \in Workers |-> 0]
    /\ failures = 0
    /\ since = [s \in Submitters |-> {}]

Submit(s) ==
    ListQueued(s) \/ ListLeased(s) \/ CancelOld(s) \/ EnqueueNew(s) \/ FetchExisting(s)

Next ==
    \/ \E s \in Submitters : Submit(s) \/ \E k \in Keys : Push(s, k)
    \/ \E w \in Workers : Start(w) \/ Succeed(w) \/ Fail(w)
    \/ Tick

Spec == Init /\ [][Next]_vars

-----------------------------------------------------------------------------
TypeOK ==
    /\ RowOK
    /\ commit \in [Ids -> Nat]
    /\ sub \in [Submitters -> {Resting} \cup Submitting]
    /\ pushes \in Nat /\ failures \in Nat
    /\ promised \in [Keys -> Nat]
    /\ holds \in [Workers -> Ids \cup {0}]
    /\ since \in [Submitters -> SUBSET Ids]

(* server.builds.queue: the depth submit reads may be stale by the other    *)
(* submits between their read and their write, and short of what a worker   *)
(* had leased when the queued rows were listed and has handed back since;   *)
(* the queue is over its cap by no more than that.                          *)
CapHeld ==
    Cardinality({i \in Ids : Live(i)})
      <= Cap + Cardinality(Submitters) - 1 + Cardinality(Workers)

QueueSafe == TypeOK /\ CapHeld

(* A submit that is answered with a job id has queued the commit it was     *)
(* given, "a second push to the same branch supersedes the first"           *)
(* (queue.rs:220); or the id is that of a build of its branch that came     *)
(* into the queue while the submit was under way, from another submit or    *)
(* from a build that failed.  It is never that of a build the submit has    *)
(* read, or should have, and has left where it was.                         *)
Answers(s, i) ==
    \/ EnqueueNew(s) /\ row[i].state = "unused" /\ row'[i].state = "queued"
    \/ FetchExisting(s) /\ Live(i) /\ row[i].key = sub[s].key
AnsweredIsQueued ==
    [][\A s \in Submitters, i \in Ids :
         Answers(s, i) => commit'[i] = sub[s].commit \/ i \in since[s]]_vars

(* Does not hold (README, other departures): the second half of the above.  *)
AnsweredIsItsOwn ==
    [][\A s \in Submitters, i \in Ids : Answers(s, i) => commit'[i] = sub[s].commit]_vars

(* Does not hold (README, other departures).                                *)
(* With no submit of the key under way, the newest push there was room for  *)
(* has its row: a supersede does not cancel, or find, a build and then      *)
(* leave nothing in its place (queue.rs:525).                               *)
NewestHasItsRow ==
    \A k \in Keys :
      (\A s \in Submitters : sub[s].pc = "idle" \/ sub[s].key # k) =>
        promised[k] = 0 \/ \E i \in Ids : commit[i] = promised[k]

(* What the dashboard shows: the pending rows, in the order of queue.rs.    *)
Pending ==
    {[id |-> i, project |-> Project[row[i].key], priority |-> Priority[row[i].key],
      created |-> i] : i \in In("queued")}

(* queue.rs:3 "production outranks preview ...; within a class projects     *)
(* take turns": order shows every pending build once, and none before one   *)
(* that its class, its project's turn or its age puts ahead.                *)
OrderIsRanked == IsRanked(Pending)

(* "a project runs concurrencyPerProject builds at a time" (queue.rs:5): of *)
(* the projects under the limit, next names the build none of theirs        *)
(* outranks, and it names one whenever such a project has a build waiting.  *)
NextIsRanked ==
    LET running == [p \in {Project[k] : k \in Keys} |->
                      Cardinality({i \in In("leased") : Project[row[i].key] = p})]
        free == {x \in Pending : running[x.project] < Limit}
    IN  ToStart(Pending, running, Limit)
          = {x.id : x \in {y \in free : \A z \in free \ {y} : Outranks(Pending, y, z)}}
=============================================================================
