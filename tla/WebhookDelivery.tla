--------------------------- MODULE WebhookDelivery --------------------------
(***************************************************************************)
(* Outgoing webhooks (crates/liyasa-server/src/routes/webhooks.rs over the  *)
(* tables of crates/liyasa-store/src/repos.rs): an event queues a delivery  *)
(* row per subscription, the worker of every replica reads the rows that    *)
(* are due, posts each and records the attempt, and subscriptions come to   *)
(* an end or are paused meanwhile.                                          *)
(*                                                                          *)
(* Nothing is claimed: a pass works from the rows it read.  The age order   *)
(* of a pass and its limit of 32 rows are left open (any order, all rows);  *)
(* wait is next_at - now, cut off at zero.  Payloads, signatures and event  *)
(* filters are not modelled, and a stored URL always parses (subscribe).    *)
(***************************************************************************)
EXTENDS Naturals, Sequences, FiniteSets, FiniteSetsExt

CONSTANTS
    Subscriptions,  \* their ids, numbers in the order of the ids
    Events,
    Replicas,
    MaxAttempts,
    RETRIES,        \* the ladder, in ticks
    PauseAt,        \* failures in a row that pause a subscription (20)
    MaxCrashes      \* bound: passes cut short

ASSUME SizeAssumption ==
    /\ Subscriptions \subseteq Nat /\ IsFiniteSet(Replicas)
    /\ {MaxAttempts, PauseAt} \subseteq Nat \ {0} /\ MaxCrashes \in Nat
ASSUME LadderAssumption == RETRIES \in Seq(Nat) /\ RETRIES # <<>>

VARIABLES
    sub,       \* webhook_subscription
    delivery,  \* webhook_delivery, a row per event and subscription
    task,      \* the task that queues an event's deliveries
    pass,      \* what the worker of each replica is at
    posts,     \* history: requests made for a delivery
    forgotten, \* history: requests that were never recorded
    crashes

rows == <<sub, delivery>>
history == <<posts, forgotten, crashes>>
vars == <<rows, task, pass, history>>

Deliveries == Events \X Subscriptions

Exists(s) == sub[s].state # "gone"
(* Slip: a paused subscription's deliveries are not read.                   *)
DueIfActive(d) ==
    delivery[d].status = "pending" /\ delivery[d].wait = 0 /\ sub[d[2]].state = "active"
Due(d) == delivery[d].status = "pending" /\ delivery[d].wait = 0

-----------------------------------------------------------------------------
(* queue: the subscriptions are listed, then a row is inserted for each     *)
(* that is active, in the order of the ids.                                 *)
Notify(e) ==
    LET wanted == {s \in Subscriptions : sub[s].state = "active"} IN
    /\ task[e].pc = "none"
    /\ task' = [task EXCEPT ![e] = [pc |-> "queueing", wanted |-> wanted, left |-> wanted]]
    /\ UNCHANGED <<rows, pass, history>>

NewRow == [status |-> "pending", attempt |-> 0, wait |-> 0]

Ends(e, pc) == task' = [task EXCEPT ![e].pc = pc] /\ UNCHANGED delivery

(* Slip: a refused insert is taken for the end of the list.                 *)
InsertQuietly(e) ==
    LET s == Min(task[e].left) IN
    /\ task[e].pc = "queueing"
    /\ IF task[e].left # {} /\ Exists(s)
       THEN /\ delivery' = [delivery EXCEPT ![<<e, s>>] = NewRow]
            /\ task' = [task EXCEPT ![e].left = @ \ {s}]
       ELSE Ends(e, "done")
    /\ UNCHANGED <<sub, pass, history>>

(* The foreign key refuses a row whose subscription has been removed since  *)
(* the list, and the error ends queue ...                                   *)
Insert(e) ==
    LET s == Min(task[e].left) IN
    /\ task[e].pc = "queueing"
    /\ IF task[e].left # {} /\ Exists(s)
       THEN /\ delivery' = [delivery EXCEPT ![<<e, s>>] = NewRow]
            /\ task' = [task EXCEPT ![e].left = @ \ {s}]
       ELSE Ends(e, IF task[e].left = {} THEN "done" ELSE "refused")
    /\ UNCHANGED <<sub, pass, history>>

(* ... as does any other error of its statements, or the end of the process *)
(* before it is done: nothing queues the event again.                       *)
QueueFails(e) ==
    /\ task[e].pc = "none" \/ (task[e].pc = "queueing" /\ task[e].left # {})
    /\ Ends(e, "cut")
    /\ UNCHANGED <<sub, pass, history>>

(* The subscription and its deliveries go in one transaction.               *)
Unsubscribe(s) ==
    /\ Exists(s)
    /\ sub' = [sub EXCEPT ![s].state = "gone"]
    /\ delivery' = [d \in Deliveries |->
                      IF d[2] = s /\ delivery[d].status # "none"
                      THEN [delivery[d] EXCEPT !.status = "removed", !.wait = 0] ELSE delivery[d]]
    /\ UNCHANGED <<task, pass, history>>

-----------------------------------------------------------------------------
(* deliver_due.  read holds the rows of the pass as they were read.         *)
Resting == [pc |-> "idle", read |-> {}, at |-> <<>>]
Become(r, to) == pass' = [pass EXCEPT ![r] = to]

ReadDue(r) ==
    /\ pass[r].pc = "idle"
    /\ \E d \in Deliveries : Due(d)
    /\ Become(r, [Resting EXCEPT !.pc = "next",
                    !.read = {[d |-> d, attempt |-> delivery[d].attempt]
                                : d \in {x \in Deliveries : Due(x)}}])
    /\ UNCHANGED <<rows, task, history>>

(* Where a pass goes on: to its next row, or to rest.                       *)
Onward(read) == [Resting EXCEPT !.pc = IF read = {} THEN "idle" ELSE "next", !.read = read]

(* Slip: one attempt less.                                                  *)
retry_or_fail_early(attempt) == IF attempt + 2 >= MaxAttempts THEN "failed" ELSE "pending"
retry_or_fail(attempt) == IF attempt + 1 >= MaxAttempts THEN "failed" ELSE "pending"

(* A row whose subscription is gone is passed over; for another the request *)
(* is made.                                                                 *)
Post(r) ==
    /\ pass[r].pc = "next"
    /\ \E x \in pass[r].read :
         \/ /\ ~Exists(x.d[2])
            /\ Become(r, Onward(pass[r].read \ {x}))
            /\ UNCHANGED posts
         \/ /\ Exists(x.d[2])
            /\ posts' = [posts EXCEPT ![x.d] = @ + 1]
            /\ Become(r, [pc |-> "record", read |-> pass[r].read \ {x}, at |-> <<x>>])
    /\ UNCHANGED <<rows, task, forgotten, crashes>>

next_delay(attempt) ==
    LET index == Max({attempt, 1}) IN RETRIES[Min({index, Len(RETRIES)})]

(* Slip: the count of attempts is written from what was read.               *)
AttemptAsRead(x) == x.attempt + 1
Attempt(x) == delivery[x.d].attempt + 1

Attempted(x, outcome) ==
    [status |-> outcome, attempt |-> Attempt(x),
     wait |-> IF outcome = "pending" THEN next_delay(x.attempt + 1) ELSE 0]

Counted(s, outcome) ==
    LET n == IF outcome = "delivered" THEN 0 ELSE Min({sub[s].failures + 1, PauseAt})
    IN  [state |-> IF n >= PauseAt THEN "paused" ELSE sub[s].state, failures |-> n]

(* Slip: the row is written back whatever became of it.                     *)
RecordAnyway(r) ==
    LET x == pass[r].at[1] IN
    /\ pass[r].pc = "record"
    /\ \E outcome \in {"delivered", retry_or_fail(x.attempt)} :
         delivery' = [delivery EXCEPT ![x.d] = Attempted(x, outcome)]
    /\ Become(r, Onward(pass[r].read))
    /\ UNCHANGED <<sub, task, history>>

(* The receiver took it, or the request or the receiver failed;             *)
(* record_attempt is one transaction of two updates by id.                  *)
Record(r) ==
    LET x == pass[r].at[1] IN
    /\ pass[r].pc = "record"
    /\ IF Exists(x.d[2])
       THEN \E outcome \in {"delivered", retry_or_fail(x.attempt)} :
              /\ delivery' = [delivery EXCEPT ![x.d] = Attempted(x, outcome)]
              /\ sub' = [sub EXCEPT ![x.d[2]] = Counted(x.d[2], outcome)]
       ELSE UNCHANGED rows
    /\ Become(r, Onward(pass[r].read))
    /\ UNCHANGED <<task, history>>

(* The process dies, or a statement of the pass fails.                      *)
CutShort(r) ==
    /\ pass[r].pc # "idle" /\ crashes < MaxCrashes
    /\ crashes' = crashes + 1
    /\ forgotten' = IF pass[r].pc = "record"
                    THEN [forgotten EXCEPT ![pass[r].at[1].d] = @ + 1] ELSE forgotten
    /\ Become(r, Resting)
    /\ UNCHANGED <<rows, task, posts>>

Tick ==
    /\ \E d \in Deliveries : delivery[d].wait > 0
    /\ delivery' = [d \in Deliveries |-> [delivery[d] EXCEPT !.wait = Max({@, 1}) - 1]]
    /\ UNCHANGED <<sub, task, pass, history>>

-----------------------------------------------------------------------------
Init ==
    /\ sub = [s \in Subscriptions |-> [state |-> "active", failures |-> 0]]
    /\ delivery = [d \in Deliveries |-> [NewRow EXCEPT !.status = "none"]]
    /\ task = [e \in Events |-> [pc |-> "none", wanted |-> {}, left |-> {}]]
    /\ pass = [r \in Replicas |-> Resting]
    /\ posts = [d \in Deliveries |-> 0]
    /\ forgotten = [d \in Deliveries |-> 0]
    /\ crashes = 0

Pass(r) == ReadDue(r) \/ Post(r) \/ Record(r)

Next ==
    \/ \E e \in Events : Notify(e) \/ Insert(e) \/ QueueFails(e)
    \/ \E s \in Subscriptions : Unsubscribe(s)
    \/ \E r \in Replicas : Pass(r) \/ CutShort(r)
    \/ Tick

(* The workers wake every ten seconds, a request has a timeout, and time    *)
(* passes.                                                                  *)
Spec == Init /\ [][Next]_vars /\ WF_vars(Tick) /\ \A r \in Replicas : WF_vars(Pass(r))

-----------------------------------------------------------------------------
(* Types, and the foreign key: no delivery of a subscription that is gone,  *)
(* whichever way its removal, an insert and a late record are interleaved.  *)
TypeOK ==
    /\ \A d \in Deliveries : delivery[d].status \notin {"none", "removed"} => Exists(d[2])
    /\ sub \in [Subscriptions -> [state : {"active", "paused", "gone"}, failures : 0..PauseAt]]
    /\ delivery \in [Deliveries -> [status : {"none", "pending", "delivered", "failed", "removed"},
                                    attempt : Nat, wait : Nat]]
    /\ task \in [Events -> [pc : {"none", "queueing", "done", "refused", "cut"},
                            wanted : SUBSET Subscriptions, left : SUBSET Subscriptions]]
    /\ \A r \in Replicas :
         /\ pass[r].pc \in {"idle", "next", "record"}
         /\ pass[r].read \subseteq [d : Deliveries, attempt : Nat]
         /\ pass[r].pc = "record" <=> pass[r].at # <<>>
    /\ posts \in [Deliveries -> Nat] /\ forgotten \in [Deliveries -> Nat]
    /\ crashes \in 0..MaxCrashes

InHand(d) == {r \in Replicas : pass[r].pc = "record" /\ pass[r].at[1].d = d}

(* The attempt of a row counts every request made for it, whichever         *)
(* replicas made them from however stale a row, but those a crash kept from *)
(* being recorded.                                                          *)
AttemptsCounted ==
    \A d \in Deliveries : delivery[d].status # "removed" =>
        posts[d] = delivery[d].attempt + forgotten[d] + Cardinality(InHand(d))

(* The five attempts of REST-10: nothing is given up before them, and two   *)
(* replicas that work from each other's stale rows go past them only        *)
(* once for each row read too early and once for each reading of a row that *)
(* such a pass reopens, besides what a crash repeats.                       *)
TriesBounded ==
    \A d \in Deliveries :
        /\ delivery[d].status = "failed" => posts[d] >= MaxAttempts
        /\ posts[d] <= MaxAttempts + crashes
                        + (Cardinality(Replicas) - 1) * (Cardinality(Replicas) + 1)

(* "Queues one delivery per active subscription" (repos.rs:908), as far as  *)
(* the code goes: a listed subscription that goes on is without its row     *)
(* only while its turn is still to come, or when queue came to an error,    *)
(* and the foreign key is that error only when another was removed          *)
(* meanwhile.  An answer of Ok has left nobody out.                         *)
QueuedOrReported ==
    \A e \in Events : \A s \in task[e].wanted :
        delivery[<<e, s>>].status = "none" /\ Exists(s) =>
          \/ task[e].pc = "queueing" /\ s \in task[e].left
          \/ task[e].pc = "refused" /\ \E t \in task[e].wanted : ~Exists(t)
          \/ task[e].pc = "cut"

(* What is queued is delivered, given up or removed, whatever the receiver  *)
(* does and with passes cut short: none is left pending.                    *)
Pending == {d \in Deliveries : delivery[d].status = "pending"}
DeliveriesSettle == Pending # {} ~> Pending = {}

(* Does not hold (README, other departures).                                *)
(* The sentence at repos.rs:908 without the errors.                         *)
EachSubscriberQueued ==
    \A e \in Events : \A s \in task[e].wanted :
        task[e].pc \in {"done", "refused", "cut"} /\ Exists(s) => delivery[<<e, s>>].status # "none"
=============================================================================
