----------------------------- MODULE RenderPool -----------------------------
(***************************************************************************)
(* The render pool (crates/liyasa-build/src/pool.rs): requests are counted  *)
(* in or refused, threads of the pool run them and fill one-shot slots, and *)
(* callers wait on the slots, as tasks of an executor or parked in          *)
(* block_on.                                                                *)
(*                                                                          *)
(* An action is what happens under one lock.  A caller is one request.  The *)
(* order in which the pool starts tasks is left open, and so is whether a   *)
(* task has waited too long or overruns its budget: both answer Budget.     *)
(* Not modelled: poisoned locks (a panic in a task aborts the process), a   *)
(* pool without a renderer, the histogram of waits.                         *)
(***************************************************************************)
EXTENDS Naturals, FiniteSets

CONSTANTS
    Callers,
    Threads,    \* of the pool
    Queue,      \* requests counted in at once
    Blocking    \* the callers that wait in block_on

ASSUME PoolAssumption ==
    /\ IsFiniteSet(Callers) /\ Blocking \subseteq Callers
    /\ Queue \in Nat \ {0}

VARIABLES
    depth,    \* metrics.depth
    caller,   \* what each caller is at
    task,     \* what became of its task
    value,    \* its slot's value, "none", "rendered" or "budget"
    locked,   \* whether its future holds the value lock
    waker,    \* whether its slot holds a waker
    woken,    \* the waker's flag: scheduled, or Parker.woken
    answer,   \* what the future resolved to
    refused   \* history: the callers refused at submit

slots == <<value, locked, waker>>
vars == <<depth, caller, task, slots, woken, answer, refused>>

Answers == {"rendered", "budget"}

Set(f, c, v) == [f EXCEPT ![c] = v]

-----------------------------------------------------------------------------
(* Slip: the queue is full one request late.                                *)
FullLate == depth > Queue
Full == depth >= Queue

(* submit: counted in under the metrics lock and handed to the pool, or     *)
(* answered at once.                                                        *)
Submit(c) ==
    /\ caller[c] = "new"
    /\ IF Full
       THEN /\ caller' = Set(caller, c, "done")
            /\ answer' = Set(answer, c, "budget")
            /\ refused' = refused \cup {c}
            /\ UNCHANGED <<depth, task>>
       ELSE /\ depth' = depth + 1
            /\ task' = Set(task, c, "queued")
            /\ caller' = Set(caller, c, "poll")
            /\ UNCHANGED <<answer, refused>>
    /\ UNCHANGED <<slots, woken>>

-----------------------------------------------------------------------------
(* A thread of the pool.                                                    *)
Running == {c \in Callers : task[c] \in {"running", "counted", "filled", "waking"}}

StartTask(c) ==
    /\ task[c] = "queued" /\ Cardinality(Running) < Threads
    /\ task' = Set(task, c, "running")
    /\ UNCHANGED <<depth, caller, slots, woken, answer, refused>>

(* Slip: only a render that was in time is counted out.                     *)
CountOutRendered(c) ==
    /\ task[c] = "running"
    /\ task' = Set(task, c, "counted")
    /\ depth' \in {depth, depth - 1}
    /\ UNCHANGED <<caller, slots, woken, answer, refused>>

(* Slip: a request that waited too long is counted out and not answered.    *)
CountOutForgetful(c) ==
    /\ task[c] = "running"
    /\ task' \in {Set(task, c, "counted"), Set(task, c, "over")}
    /\ depth' = depth - 1
    /\ UNCHANGED <<caller, slots, woken, answer, refused>>

(* Rendered or not, the request is counted out; saturating_sub.             *)
CountOut(c) ==
    /\ task[c] = "running"
    /\ task' = Set(task, c, "counted")
    /\ depth' = IF depth = 0 THEN 0 ELSE depth - 1
    /\ UNCHANGED <<caller, slots, woken, answer, refused>>

(* fill, its three steps.                                                   *)
FillValue(c) ==
    /\ task[c] = "counted" /\ ~locked[c]
    /\ \E v \in Answers : value' = Set(value, c, v)
    /\ task' = Set(task, c, "filled")
    /\ UNCHANGED <<depth, caller, locked, waker, woken, answer, refused>>

TakeWaker(c) ==
    /\ task[c] = "filled"
    /\ task' = Set(task, c, IF waker[c] THEN "waking" ELSE "over")
    /\ waker' = Set(waker, c, FALSE)
    /\ UNCHANGED <<depth, caller, value, locked, woken, answer, refused>>

(* A dropped future's waker wakes nobody.                                   *)
Wake(c) ==
    /\ task[c] = "waking"
    /\ task' = Set(task, c, "over")
    /\ woken' = Set(woken, c, TRUE)
    /\ UNCHANGED <<depth, caller, slots, answer, refused>>

-----------------------------------------------------------------------------
(* Slip: the value lock is given back before the waker is stored.           *)
PollUnlocked(c) ==
    /\ caller[c] = "poll"
    /\ IF value[c] # "none"
       THEN /\ answer' = Set(answer, c, value[c])
            /\ value' = Set(value, c, "none")
            /\ caller' = Set(caller, c, "done")
       ELSE caller' = Set(caller, c, "store") /\ UNCHANGED <<value, answer>>
    /\ UNCHANGED <<depth, task, locked, waker, woken, refused>>

(* poll takes the value lock and looks.  It keeps the lock while it stores  *)
(* the waker.                                                               *)
Poll(c) ==
    /\ caller[c] = "poll" /\ ~locked[c]
    /\ IF value[c] # "none"
       THEN /\ answer' = Set(answer, c, value[c])
            /\ value' = Set(value, c, "none")
            /\ caller' = Set(caller, c, "done")
            /\ UNCHANGED locked
       ELSE /\ locked' = Set(locked, c, TRUE)
            /\ caller' = Set(caller, c, "store")
            /\ UNCHANGED <<value, answer>>
    /\ UNCHANGED <<depth, task, waker, woken, refused>>

StoreWaker(c) ==
    /\ caller[c] = "store"
    /\ waker' = Set(waker, c, TRUE)
    /\ locked' = Set(locked, c, FALSE)
    /\ caller' = Set(caller, c, "parked")
    /\ UNCHANGED <<depth, task, value, woken, answer, refused>>

(* The executor polls a task that was woken; park returns when the flag is  *)
(* up.  Either takes the flag down first.                                   *)
Resume(c) ==
    /\ caller[c] = "parked" /\ woken[c]
    /\ woken' = Set(woken, c, FALSE)
    /\ caller' = Set(caller, c, "poll")
    /\ UNCHANGED <<depth, task, slots, answer, refused>>

(* A task may also be polled for something else it waits for, or dropped    *)
(* with its request.                                                        *)
PolledAnyway(c) ==
    /\ caller[c] = "parked" /\ c \notin Blocking
    /\ caller' = Set(caller, c, "poll")
    /\ UNCHANGED <<depth, task, slots, woken, answer, refused>>

Drop(c) ==
    /\ caller[c] \in {"poll", "parked"} /\ c \notin Blocking
    /\ caller' = Set(caller, c, "dropped")
    /\ UNCHANGED <<depth, task, slots, woken, answer, refused>>

-----------------------------------------------------------------------------
Init ==
    /\ depth = 0
    /\ caller = [c \in Callers |-> "new"]
    /\ task = [c \in Callers |-> "none"]
    /\ value = [c \in Callers |-> "none"]
    /\ locked = [c \in Callers |-> FALSE]
    /\ waker = [c \in Callers |-> FALSE]
    /\ woken = [c \in Callers |-> FALSE]
    /\ answer = [c \in Callers |-> "none"]
    /\ refused = {}

Work(c) == StartTask(c) \/ CountOut(c) \/ FillValue(c) \/ TakeWaker(c) \/ Wake(c)
Await(c) == Poll(c) \/ StoreWaker(c) \/ Resume(c)

Next == \E c \in Callers : Submit(c) \/ Work(c) \/ Await(c) \/ PolledAnyway(c) \/ Drop(c)

(* The pool's threads run what they have, with strong fairness because a    *)
(* caller polled over and over takes the lock a task waits for and gives it *)
(* back each time; the executor, or the calling thread, runs what was       *)
(* woken.  Nothing obliges anyone to poll a caller that was not woken.      *)
Spec ==
    /\ Init /\ [][Next]_vars
    /\ \A c \in Callers : SF_vars(Work(c)) /\ WF_vars(Await(c))

-----------------------------------------------------------------------------
(* Types, and the bound of the queue.                                       *)
TypeOK ==
    /\ depth \in 0..Queue
    /\ caller \in [Callers -> {"new", "poll", "store", "parked", "done", "dropped"}]
    /\ task \in [Callers -> {"none", "queued", "running", "counted", "filled", "waking", "over"}]
    /\ value \in [Callers -> Answers \cup {"none"}]
    /\ locked \in [Callers -> BOOLEAN]
    /\ waker \in [Callers -> BOOLEAN]
    /\ woken \in [Callers -> BOOLEAN]
    /\ answer \in [Callers -> Answers \cup {"none"}]
    /\ refused \subseteq Callers

(* metrics.depth is the number of tasks not yet counted out, through        *)
(* timeouts, overruns and dropped requests: it never drifts, so the queue   *)
(* does not end up refusing everything (or nothing).                        *)
DepthIsWork == depth = Cardinality({c \in Callers : task[c] \in {"queued", "running"}})

(* A parked caller whose slot has been filled has its wake-up coming: a     *)
(* waker stored too late to be taken would leave it asleep.                 *)
WakerInTime ==
    \A c \in Callers :
        caller[c] = "parked" /\ value[c] # "none" /\ task[c] = "over" => woken[c]

(* What a caller of the pool sees: a refusal, or in the end one answer that *)
(* is neither taken twice nor changed, unless it drops the request.         *)
SeenBy(c) ==
    CASE caller[c] = "new" -> "none"
      [] caller[c] \in {"poll", "store", "parked"} -> "pending"
      [] caller[c] = "dropped" -> "dropped"
      [] caller[c] = "done" -> IF c \in refused THEN "refused" ELSE answer[c]

Seen == [c \in Callers |-> SeenBy(c)]

Future == INSTANCE OneShot WITH state <- Seen

FutureSpec == Future!Spec
=============================================================================
