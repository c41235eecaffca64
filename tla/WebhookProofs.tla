---------------------------- MODULE WebhookProofs ---------------------------
(***************************************************************************)
(* For any number of subscriptions, events and replicas, any ladder and any *)
(* number of passes cut short: the rows count the requests made, none is    *)
(* given up early nor tried beyond a bound that depends on the replicas, no *)
(* subscriber is left out without an error of queue, and the foreign key    *)
(* holds.                                                                   *)
(***************************************************************************)
EXTENDS WebhookDelivery, FiniteSetTheorems, WellFoundedInduction, TLAPS

Reading == [d : Deliveries, attempt : Nat]

(* TypeOK, with what a pass holds spelled out.                              *)
PassOK ==
    /\ pass \in [Replicas -> [pc : {"idle", "next", "record"}, read : SUBSET Reading,
                              at : {<<>>} \cup {<<x>> : x \in Reading}]]
    /\ \A r \in Replicas : pass[r].pc = "record" <=> pass[r].at # <<>>

RowTypeOK ==
    /\ sub \in [Subscriptions -> [state : {"active", "paused", "gone"}, failures : 0..PauseAt]]
    /\ delivery \in [Deliveries -> [status : {"none", "pending", "delivered", "failed", "removed"},
                                    attempt : Nat, wait : Nat]]
    /\ task \in [Events -> [pc : {"none", "queueing", "done", "refused", "cut"},
                            wanted : SUBSET Subscriptions, left : SUBSET Subscriptions]]

HistoryOK ==
    /\ posts \in [Deliveries -> Nat] /\ forgotten \in [Deliveries -> Nat]
    /\ crashes \in 0..MaxCrashes

ForeignKey ==
    \A d \in Deliveries :
        /\ delivery[d].status \notin {"none", "removed"} => Exists(d[2])
        /\ delivery[d].status = "removed" => ~Exists(d[2])

(* What a pass has read is of a row that was there, and no newer than it is *)
(* now.                                                                     *)
Older(x) == delivery[x.d].status # "none" /\ x.attempt <= delivery[x.d].attempt
ReadIsOld ==
    \A r \in Replicas :
        /\ \A x \in pass[r].read : Older(x)
        /\ pass[r].pc = "record" => Older(pass[r].at[1])

Fresh == \A d \in Deliveries : delivery[d].status = "none" =>
            delivery[d].attempt = 0 /\ posts[d] = 0 /\ forgotten[d] = 0

(* The rows an event's task still has to insert are not there.              *)
ToInsert ==
    \A e \in Events :
        /\ task[e].pc = "none" => \A s \in Subscriptions : delivery[<<e, s>>].status = "none"
        /\ \A s \in task[e].left : delivery[<<e, s>>].status = "none"

GivenUpAtLimit ==
    \A d \in Deliveries : delivery[d].status = "failed" => delivery[d].attempt >= MaxAttempts

HookTypeOK == RowTypeOK /\ PassOK /\ HistoryOK
HookInv ==
    /\ HookTypeOK /\ ForeignKey
    /\ ReadIsOld /\ Fresh /\ ToInsert
    /\ AttemptsCounted /\ GivenUpAtLimit

-----------------------------------------------------------------------------
(* The helpers on sets of two numbers, and on lists of subscriptions.       *)
LEMMA MaxOfTwo ==
    ASSUME NEW a \in Nat, NEW b \in Nat
    PROVE  Max({a, b}) \in {a, b} /\ Max({a, b}) >= a /\ Max({a, b}) >= b
<1>1. \E x \in {a, b} : \A y \in {a, b} : x >= y
  BY SMT
<1> QED BY <1>1 DEF Max

LEMMA MinOfTwo ==
    ASSUME NEW a \in Nat, NEW b \in Nat
    PROVE  Min({a, b}) \in {a, b} /\ Min({a, b}) <= a /\ Min({a, b}) <= b
<1>1. \E x \in {a, b} : \A y \in {a, b} : x <= y
  BY SMT
<1> QED BY <1>1 DEF Min

LEMMA LeastOfSome ==
    ASSUME NEW S \in SUBSET Nat, S # {}
    PROVE  Min(S) \in S /\ \A y \in S : Min(S) <= y
<1> DEFINE LT == {ss \in Nat \X Nat : ss[1] < ss[2]}
<1>1. IsWellFoundedOn(LT, Nat)
  BY NatLessThanWellFounded, Zenon DEF OpToRel
<1>2. PICK x \in S : \A y \in S : ~ (<<y, x>> \in LT)
  <2> HIDE DEF LT
  <2> QED BY <1>1, WFMin
<1>3. ASSUME NEW y \in S PROVE x <= y
  <2>1. x \in Nat /\ y \in Nat /\ ~ (<<y, x>> \in LT)
    BY <1>2
  <2> QED BY <2>1
<1> QED BY <1>3 DEF Min

LEMMA DelayIsNat == ASSUME NEW n \in Nat PROVE next_delay(n) \in Nat
<1>1. PICK i \in Nat : i = Max({n, 1}) /\ i >= 1
  BY MaxOfTwo
<1>2. PICK l \in Nat : l = Len(RETRIES) /\ l >= 1
  BY LadderAssumption
<1>3. Min({i, l}) \in {i, l} /\ Min({i, l}) <= l
  BY ONLY MinOfTwo, i \in Nat, l \in Nat
<1>4. Min({i, l}) \in 1..l
  BY <1>1, <1>2, <1>3
<1>5. RETRIES[Min({i, l})] \in Nat
  BY <1>2, <1>4, LadderAssumption
<1> QED BY <1>1, <1>2, <1>5 DEF next_delay

(* InHand of a delivery: which replicas have a request of it unrecorded.    *)
LEMMA InHandFinite == ASSUME NEW d PROVE IsFiniteSet(InHand(d)) /\ InHand(d) \subseteq Replicas
BY SizeAssumption, FS_Subset DEF InHand

LEMMA InHandKept ==
    ASSUME NEW d, \A r \in Replicas : pass'[r].pc = "record" /\ pass'[r].at[1].d = d
                                        <=> pass[r].pc = "record" /\ pass[r].at[1].d = d
    PROVE  InHand(d)' = InHand(d)
BY DEF InHand

(* A step that leaves the passes alone leaves what is in hand.              *)
LEMMA CountKept ==
    ASSUME HookInv, UNCHANGED <<pass, posts, forgotten>>,
           \A d \in Deliveries : delivery'[d].status # "removed"
             => delivery[d].status # "removed" /\ delivery'[d].attempt = delivery[d].attempt
    PROVE  AttemptsCounted'
<1>1. \A d \in Deliveries : InHand(d)' = InHand(d)
  BY InHandKept
<1> QED BY <1>1 DEF HookInv, AttemptsCounted

-----------------------------------------------------------------------------
LEMMA InitHook == Init => HookInv
<1> SUFFICES ASSUME Init PROVE HookInv
  OBVIOUS
<1>1. RowTypeOK
  BY SizeAssumption DEF Init, RowTypeOK, NewRow
<1>2. PassOK
  BY DEF Init, PassOK, Resting, Reading
<1>3. HistoryOK
  BY SizeAssumption DEF Init, HistoryOK
<1>4. ForeignKey /\ ReadIsOld /\ Fresh /\ ToInsert /\ GivenUpAtLimit
  BY DEF Init, ForeignKey, ReadIsOld, Fresh, ToInsert, GivenUpAtLimit, NewRow, Resting, Deliveries
<1>5. AttemptsCounted
  <2>1. \A d \in Deliveries : InHand(d) = {}
    BY DEF Init, InHand, Resting
  <2>2. Cardinality({}) = 0
    BY FS_EmptySet
  <2>3. \A d \in Deliveries : delivery[d].attempt = 0 /\ posts[d] = 0 /\ forgotten[d] = 0
    BY DEF Init, NewRow
  <2> QED BY <2>1, <2>2, <2>3 DEF AttemptsCounted
<1> QED BY <1>1, <1>2, <1>3, <1>4, <1>5 DEF HookInv, HookTypeOK

-----------------------------------------------------------------------------
(* Queueing, and the end of a subscription.                                 *)
LEMMA NotifyKeeps == ASSUME HookInv, NEW e \in Events, Notify(e) PROVE HookInv'
<1> USE DEF HookInv, HookTypeOK, RowTypeOK
<1>1. RowTypeOK'
  BY DEF Notify, rows
<1>2. PassOK' /\ HistoryOK' /\ ForeignKey' /\ ReadIsOld' /\ Fresh' /\ GivenUpAtLimit'
  BY DEF Notify, rows, history, PassOK, HistoryOK, ForeignKey, Exists, ReadIsOld, Older, Fresh,
         GivenUpAtLimit
<1>3. ToInsert'
  BY DEF Notify, rows, ToInsert
<1>4. AttemptsCounted'
  BY CountKept DEF Notify, rows, history
<1> QED BY <1>1, <1>2, <1>3, <1>4

LEMMA EndsKeeps ==
    ASSUME HookInv, NEW e \in Events, task[e].pc \in {"none", "queueing"},
           NEW pc \in {"done", "refused", "cut"}, Ends(e, pc), UNCHANGED <<sub, pass, history>>
    PROVE  HookInv'
<1> USE DEF HookInv, HookTypeOK, RowTypeOK
<1>1. /\ task' = [task EXCEPT ![e].pc = pc]
      /\ UNCHANGED <<delivery, sub, pass, history>>
  BY DEF Ends
<1>2. AttemptsCounted'
  BY <1>1, CountKept DEF history
<1>3. /\ \A f \in Events : task'[f].left = task[f].left /\ task'[f].wanted = task[f].wanted
      /\ \A f \in Events : task'[f].pc \in {task[f].pc, pc}
      /\ task' \in [Events -> [pc : {"none", "queueing", "done", "refused", "cut"},
                               wanted : SUBSET Subscriptions, left : SUBSET Subscriptions]]
  BY <1>1
<1>4. RowTypeOK' /\ ToInsert'
  BY <1>1, <1>3 DEF ToInsert
<1>5. PassOK' /\ HistoryOK' /\ ForeignKey' /\ ReadIsOld' /\ Fresh' /\ GivenUpAtLimit'
  BY <1>1 DEF history, PassOK, HistoryOK, ForeignKey, Exists, ReadIsOld, Older, Fresh,
              GivenUpAtLimit
<1> QED BY <1>2, <1>4, <1>5

LEMMA InsertKeeps == ASSUME HookInv, NEW e \in Events, Insert(e) PROVE HookInv'
<1> USE DEF HookInv, HookTypeOK, RowTypeOK
<1> DEFINE s == Min(task[e].left)
           d0 == <<e, s>>
<1>1. CASE task[e].left # {} /\ Exists(s)
  <2>1. s \in task[e].left /\ s \in Subscriptions /\ d0 \in Deliveries
    BY <1>1, LeastOfSome, SizeAssumption DEF Deliveries
  <2>2. delivery[d0].status = "none"
    BY <2>1 DEF ToInsert
  <2>3. /\ delivery' = [delivery EXCEPT ![d0] = NewRow]
        /\ task' = [task EXCEPT ![e].left = @ \ {s}]
        /\ UNCHANGED <<sub, pass, history>>
    BY <1>1 DEF Insert
  <2>4. RowTypeOK'
    BY <2>1, <2>3 DEF NewRow
  <2>5. PassOK' /\ HistoryOK'
    BY <2>3 DEF history, PassOK, HistoryOK
  <2>6. ForeignKey'
    <3>1. delivery'[d0] = NewRow /\ d0[2] = s /\ \A d \in Deliveries \ {d0} : delivery'[d] = delivery[d]
      BY <2>1, <2>3
    <3>2. \A t : Exists(t)' <=> Exists(t)
      BY <2>3 DEF Exists
    <3>3. delivery'[d0].status = "pending" /\ sub'[d0[2]].state # "gone"
      BY <1>1, <2>3, <3>1 DEF NewRow, Exists
    <3>4. ASSUME NEW d \in Deliveries, d # d0
          PROVE  /\ delivery'[d].status \notin {"none", "removed"} => Exists(d[2])'
                 /\ delivery'[d].status = "removed" => ~Exists(d[2])'
      BY <3>1, <3>2, <3>4 DEF ForeignKey
    <3> QED BY <3>3, <3>4 DEF ForeignKey, Exists
  <2>7. \A x \in Reading : Older(x) => Older(x)'
    BY <2>1, <2>2, <2>3 DEF Older, Reading
  <2>8. ReadIsOld'
    <3>1. \A r \in Replicas : pass[r].pc = "record" => pass[r].at[1] \in Reading
      BY DEF PassOK
    <3> QED BY <2>3, <2>7, <3>1 DEF ReadIsOld, PassOK
  <2>9. Fresh' /\ GivenUpAtLimit'
    BY <2>1, <2>3, SizeAssumption DEF Fresh, GivenUpAtLimit, NewRow, history
  <2>10. ToInsert'
    BY <2>1, <2>3 DEF ToInsert, Insert, Deliveries
  <2>11. AttemptsCounted'
    BY <2>1, <2>2, <2>3, CountKept DEF NewRow, Fresh, history
  <2> QED BY <2>4, <2>5, <2>6, <2>8, <2>9, <2>10, <2>11
<1>2. CASE ~(task[e].left # {} /\ Exists(s))
  BY <1>2, EndsKeeps DEF Insert
<1> QED BY <1>1, <1>2

LEMMA QueueFailsKeeps == ASSUME HookInv, NEW e \in Events, QueueFails(e) PROVE HookInv'
BY EndsKeeps DEF QueueFails

LEMMA UnsubscribeKeeps == ASSUME HookInv, NEW s \in Subscriptions, Unsubscribe(s) PROVE HookInv'
<1> USE DEF HookInv, HookTypeOK, RowTypeOK
<1>1. /\ sub' = [sub EXCEPT ![s].state = "gone"]
      /\ \A d \in Deliveries :
           delivery'[d] = IF d[2] = s /\ delivery[d].status # "none"
                          THEN [delivery[d] EXCEPT !.status = "removed", !.wait = 0]
                          ELSE delivery[d]
      /\ UNCHANGED <<task, pass, history>>
  BY DEF Unsubscribe
<1>2. \A d \in Deliveries :
        /\ delivery'[d].attempt = delivery[d].attempt
        /\ delivery'[d].status \in {delivery[d].status, "removed"}
        /\ delivery'[d].status = "none" <=> delivery[d].status = "none"
        /\ d[2] = s => delivery'[d].status \in {"none", "removed"}
        /\ delivery[d].status = "removed" => delivery'[d].status = "removed"
  BY <1>1
<1>3. RowTypeOK'
  <2>1. \A d \in Deliveries :
          delivery'[d] \in [status : {"none", "pending", "delivered", "failed", "removed"},
                            attempt : Nat, wait : Nat]
    <3> SUFFICES ASSUME NEW d \in Deliveries
                 PROVE  delivery'[d] \in [status : {"none", "pending", "delivered", "failed", "removed"},
                                          attempt : Nat, wait : Nat]
      OBVIOUS
    <3>1. [delivery[d] EXCEPT !.status = "removed", !.wait = 0]
            \in [status : {"none", "pending", "delivered", "failed", "removed"},
                attempt : Nat, wait : Nat]
      OBVIOUS
    <3> QED BY <1>1, <3>1
  <2>2. delivery' = [d \in Deliveries |-> delivery'[d]]
    BY DEF Unsubscribe
  <2>3. delivery' \in [Deliveries ->
                         [status : {"none", "pending", "delivered", "failed", "removed"},
                          attempt : Nat, wait : Nat]]
    BY <2>1, <2>2
  <2>4. sub' \in [Subscriptions -> [state : {"active", "paused", "gone"}, failures : 0..PauseAt]]
    <3>1. [sub[s] EXCEPT !.state = "gone"]
            \in [state : {"active", "paused", "gone"}, failures : 0..PauseAt]
      OBVIOUS
    <3>2. sub' = [sub EXCEPT ![s] = [sub[s] EXCEPT !.state = "gone"]]
      BY <1>1
    <3> QED BY ONLY <3>1, <3>2, RowTypeOK DEF RowTypeOK
  <2> QED BY <1>1, <2>3, <2>4
<1>4. PassOK' /\ HistoryOK'
  BY <1>1 DEF history, PassOK, HistoryOK
<1>5. ForeignKey'
  <2> SUFFICES ASSUME NEW d \in Deliveries
               PROVE  /\ delivery'[d].status \notin {"none", "removed"} => Exists(d[2])'
                      /\ delivery'[d].status = "removed" => ~Exists(d[2])'
    BY DEF ForeignKey
  <2>1. d[2] \in Subscriptions
    BY DEF Deliveries
  <2>2. CASE d[2] = s
    <3>1. sub[s] \in [state : {"active", "paused", "gone"}, failures : 0..PauseAt]
          /\ sub'[s] = [sub[s] EXCEPT !.state = "gone"]
      BY <1>1
    <3>2. ~Exists(s)'
      BY ONLY <3>1 DEF Exists
    <3> QED BY <1>2, <2>2, <3>2
  <2>3. CASE d[2] # s
    <3>1. delivery'[d] = delivery[d]
      BY <1>1, <2>3
    <3>2. Exists(d[2])' <=> Exists(d[2])
      BY <1>1, <2>1, <2>3 DEF Exists
    <3> QED BY <3>1, <3>2 DEF ForeignKey
  <2> QED BY <2>2, <2>3
<1>6. ReadIsOld'
  <2>1. \A x \in Reading : Older(x) => Older(x)'
    BY <1>2 DEF Older, Reading
  <2>2. \A r \in Replicas : pass[r].pc = "record" => pass[r].at[1] \in Reading
    BY DEF PassOK
  <2> QED BY <1>1, <2>1, <2>2 DEF ReadIsOld, PassOK
<1>7. Fresh' /\ GivenUpAtLimit'
  <2>1. Fresh'
    BY <1>1, <1>2 DEF Fresh, history
  <2>2. GivenUpAtLimit'
    BY <1>2 DEF GivenUpAtLimit
  <2> QED BY <2>1, <2>2
<1>8. ToInsert'
  <2>1. \A e \in Events, t \in Subscriptions : <<e, t>> \in Deliveries
    BY DEF Deliveries
  <2>2. \A e \in Events : task'[e] = task[e] /\ task[e].left \subseteq Subscriptions
    BY <1>1
  <2> QED BY <1>2, <2>1, <2>2 DEF ToInsert
<1>9. AttemptsCounted'
  BY <1>1, <1>2, CountKept DEF history
<1> QED BY <1>3, <1>4, <1>5, <1>6, <1>7, <1>8, <1>9

LEMMA TickKeeps == ASSUME HookInv, Tick PROVE HookInv'
<1> USE DEF HookInv, HookTypeOK, RowTypeOK
<1>1. \A n \in Nat : Max({n, 1}) - 1 \in Nat
  BY MaxOfTwo
<1>2. \A d \in Deliveries :
        /\ delivery'[d] = [delivery[d] EXCEPT !.wait = Max({delivery[d].wait, 1}) - 1]
        /\ delivery'[d].attempt = delivery[d].attempt
        /\ delivery'[d].status = delivery[d].status
  BY DEF Tick
<1>3. RowTypeOK'
  <2>1. \A d \in Deliveries : Max({delivery[d].wait, 1}) - 1 \in Nat
    BY <1>1
  <2>2. delivery' \in [Deliveries ->
                         [status : {"none", "pending", "delivered", "failed", "removed"},
                          attempt : Nat, wait : Nat]]
    BY <2>1 DEF Tick
  <2> QED BY <2>2 DEF Tick
<1>4. PassOK' /\ HistoryOK' /\ ForeignKey' /\ Fresh' /\ GivenUpAtLimit' /\ ToInsert'
  <2>1. \A e \in Events, t \in Subscriptions : <<e, t>> \in Deliveries
    BY DEF Deliveries
  <2>2. PassOK' /\ HistoryOK'
    BY DEF Tick, history, PassOK, HistoryOK
  <2>3. ForeignKey' /\ GivenUpAtLimit'
    BY <1>2 DEF Tick, ForeignKey, Exists, GivenUpAtLimit
  <2>4. Fresh'
    BY <1>2 DEF Tick, history, Fresh
  <2>5. \A e \in Events : task'[e] = task[e] /\ task[e].left \subseteq Subscriptions
    BY DEF Tick
  <2>6. ToInsert'
    BY <1>2, <2>1, <2>5 DEF ToInsert
  <2> QED BY <2>2, <2>3, <2>4, <2>6
<1>5. ReadIsOld'
  <2>1. \A x \in Reading : Older(x) => Older(x)'
    BY <1>2 DEF Older, Reading
  <2>2. \A r \in Replicas : pass[r].pc = "record" => pass[r].at[1] \in Reading
    BY DEF PassOK
  <2> QED BY <2>1, <2>2 DEF ReadIsOld, PassOK, Tick
<1>6. AttemptsCounted'
  BY <1>2, CountKept DEF history, Tick
<1> QED BY <1>3, <1>4, <1>5, <1>6

-----------------------------------------------------------------------------
(* The passes.  A step of one replica changes what it holds alone.          *)
LEMMA OnwardType ==
    ASSUME NEW read \in SUBSET Reading
    PROVE  /\ Onward(read) \in [pc : {"idle", "next", "record"}, read : SUBSET Reading,
                              at : {<<>>} \cup {<<x>> : x \in Reading}]
           /\ Onward(read).pc # "record" /\ Onward(read).at = <<>> /\ Onward(read).read = read
BY DEF Onward, Resting

LEMMA PassTypes ==
    ASSUME PassOK, NEW r \in Replicas
    PROVE  /\ pass[r].read \in SUBSET Reading
           /\ pass[r].pc = "record" => \E x \in Reading : pass[r].at = <<x>> /\ pass[r].at[1] = x
BY DEF PassOK

LEMMA StartedPass ==
    ASSUME NEW read
    PROVE  [Resting EXCEPT !.pc = "next", !.read = read]
             = [pc |-> "next", read |-> read, at |-> <<>>]
<1>1. [Resting EXCEPT !.pc = "next"] = [pc |-> "next", read |-> {}, at |-> <<>>]
  BY SMT DEF Resting
<1>2. [[Resting EXCEPT !.pc = "next"] EXCEPT !.read = read]
        = [Resting EXCEPT !.pc = "next", !.read = read]
  BY SMT DEF Resting
<1>3. [[pc |-> "next", read |-> {}, at |-> <<>>] EXCEPT !.read = read]
        = [pc |-> "next", read |-> read, at |-> <<>>]
  BY SMT
<1> QED BY <1>1, <1>2, <1>3

LEMMA ReadDueKeeps == ASSUME HookInv, NEW r \in Replicas, ReadDue(r) PROVE HookInv'
<1> USE DEF HookInv, HookTypeOK
<1> DEFINE new == {[d |-> d, attempt |-> delivery[d].attempt] : d \in {x \in Deliveries : Due(x)}}
<1>1. /\ pass' = [pass EXCEPT ![r] = [Resting EXCEPT !.pc = "next", !.read = new]]
      /\ pass[r].pc = "idle"
      /\ UNCHANGED <<sub, delivery, task, posts, forgotten, crashes>>
  BY DEF ReadDue, Become, rows, history
<1>2. new \in SUBSET Reading /\ \A x \in new : Older(x)
  <2>1. \A d \in Deliveries : delivery[d].attempt \in Nat
    BY DEF RowTypeOK
  <2>2. new \in SUBSET Reading
    BY <2>1 DEF Reading
  <2>3. ASSUME NEW x \in new PROVE Older(x)
    <3>1. PICK d \in Deliveries : Due(d) /\ x = [d |-> d, attempt |-> delivery[d].attempt]
      OBVIOUS
    <3>2. x.d = d /\ x.attempt = delivery[d].attempt /\ delivery[d].status = "pending"
      BY <3>1 DEF Due
    <3> QED BY <2>1, <3>1, <3>2 DEF Older
  <2> QED BY <2>2, <2>3
<1>3. [Resting EXCEPT !.pc = "next", !.read = new]
        = [pc |-> "next", read |-> new, at |-> <<>>]
  <2> HIDE DEF new
  <2> QED BY StartedPass
<1>4. PassOK'
  <2> HIDE DEF new
  <2> QED BY <1>1, <1>2, <1>3 DEF PassOK
<1>5. ReadIsOld'
  <2> HIDE DEF new
  <2>1. \A x \in new : Older(x)'
    BY <1>1, <1>2 DEF Older
  <2>2. \A q \in Replicas \ {r} : pass'[q] = pass[q]
    BY <1>1 DEF PassOK
  <2>3. pass'[r] = [pc |-> "next", read |-> new, at |-> <<>>]
    BY <1>1, <1>3 DEF PassOK
  <2> QED BY <1>1, <2>1, <2>2, <2>3 DEF ReadIsOld, Older
<1>6. AttemptsCounted'
  <2> HIDE DEF new
  <2>1. \A d \in Deliveries : InHand(d)' = InHand(d)
    <3>1. \A q \in Replicas : pass'[q].pc = "record" <=> pass[q].pc = "record"
      BY <1>1, <1>3 DEF PassOK
    <3>2. \A q \in Replicas : pass[q].pc = "record" => pass'[q] = pass[q]
      BY <1>1 DEF PassOK
    <3> QED BY <3>1, <3>2, InHandKept
  <2> QED BY <1>1, <2>1 DEF AttemptsCounted
<1>7. RowTypeOK' /\ HistoryOK' /\ ForeignKey' /\ Fresh' /\ ToInsert' /\ GivenUpAtLimit'
  BY <1>1 DEF RowTypeOK, HistoryOK, ForeignKey, Exists, Fresh, ToInsert, GivenUpAtLimit
<1> QED BY <1>4, <1>5, <1>6, <1>7

(* A replica that does not go to record, or leaves it, with what it still   *)
(* holds.                                                                   *)
LEMMA Elsewhere ==
    ASSUME PassOK, ReadIsOld, NEW r \in Replicas, NEW read \in SUBSET Reading,
           read \subseteq pass[r].read, pass' = [pass EXCEPT ![r] = Onward(read)],
           \A x \in Reading : Older(x) => Older(x)'
    PROVE  PassOK' /\ ReadIsOld' /\ \A d : InHand(d)' = InHand(d) \ {r}
<1>1. pass'[r] = Onward(read) /\ \A q \in Replicas \ {r} : pass'[q] = pass[q]
  BY DEF PassOK
<1>2. PassOK'
  BY <1>1, OnwardType DEF PassOK
<1>3. ReadIsOld'
  BY <1>1, OnwardType, PassTypes DEF ReadIsOld
<1>4. \A d : InHand(d)' = InHand(d) \ {r}
  BY <1>1, OnwardType DEF InHand
<1> QED BY <1>2, <1>3, <1>4

(* A row of a subscription that is gone is passed over.                     *)
LEMMA SkipKeeps ==
    ASSUME HookInv, NEW r \in Replicas, pass[r].pc = "next", NEW x \in pass[r].read,
           Become(r, Onward(pass[r].read \ {x})), UNCHANGED <<rows, task, history>>
    PROVE  HookInv'
<1> USE DEF HookInv, HookTypeOK
<1> DEFINE read == pass[r].read \ {x}
<1>1. read \in SUBSET Reading /\ read \subseteq pass[r].read
  BY PassTypes
<1>2. UNCHANGED <<sub, delivery, task, posts, forgotten, crashes>>
  BY DEF rows, history
<1>3. PassOK' /\ ReadIsOld' /\ \A d : InHand(d)' = InHand(d) \ {r}
  <2>1. \A y \in Reading : Older(y) => Older(y)'
    BY <1>2 DEF Older
  <2>2. pass' = [pass EXCEPT ![r] = Onward(read)]
    BY DEF Become
  <2> HIDE DEF read
  <2> QED BY <1>1, <2>1, <2>2, Elsewhere
<1>4. \A d : InHand(d)' = InHand(d)
  BY <1>3 DEF InHand
<1>5. RowTypeOK' /\ HistoryOK' /\ ForeignKey' /\ Fresh' /\ ToInsert' /\ GivenUpAtLimit'
  BY <1>2 DEF RowTypeOK, HistoryOK, ForeignKey, Exists, Fresh, ToInsert, GivenUpAtLimit
<1>6. AttemptsCounted'
  BY <1>2, <1>4 DEF AttemptsCounted
<1> QED BY <1>3, <1>5, <1>6

LEMMA PostKeeps == ASSUME HookInv, NEW r \in Replicas, Post(r) PROVE HookInv'
<1> USE DEF HookInv, HookTypeOK
<1>1. PICK x \in pass[r].read :
        \/ Become(r, Onward(pass[r].read \ {x})) /\ UNCHANGED posts
        \/ /\ posts' = [posts EXCEPT ![x.d] = @ + 1]
           /\ Become(r, [pc |-> "record", read |-> pass[r].read \ {x}, at |-> <<x>>])
  BY DEF Post
<1>2. CASE Become(r, Onward(pass[r].read \ {x})) /\ UNCHANGED posts
  BY <1>1, <1>2, SkipKeeps DEF Post, history
<1>3. CASE /\ posts' = [posts EXCEPT ![x.d] = @ + 1]
           /\ Become(r, [pc |-> "record", read |-> pass[r].read \ {x}, at |-> <<x>>])
  <2>1. x \in Reading /\ x.d \in Deliveries /\ pass[r].read \ {x} \in SUBSET Reading
    BY PassTypes DEF Reading
  <2>2. pass[r].pc = "next" /\ UNCHANGED <<sub, delivery, task, forgotten, crashes>>
    BY DEF Post, rows
  <2>3. /\ pass'[r] = [pc |-> "record", read |-> pass[r].read \ {x}, at |-> <<x>>]
        /\ \A q \in Replicas \ {r} : pass'[q] = pass[q]
    BY <1>3 DEF Become, PassOK
  <2>4. PassOK'
    BY <1>3, <2>1 DEF Become, PassOK
  <2>5. ReadIsOld'
    BY <2>2, <2>3 DEF ReadIsOld, Older
  <2>6. InHand(x.d)' = InHand(x.d) \cup {r} /\ r \notin InHand(x.d)
    BY <2>2, <2>3 DEF InHand
  <2>7. \A d \in Deliveries \ {x.d} : InHand(d)' = InHand(d)
    BY <2>2, <2>3 DEF InHand
  <2>8. Cardinality(InHand(x.d) \cup {r}) = Cardinality(InHand(x.d)) + 1
    BY <2>6, InHandFinite, FS_AddElement
  <2>9. posts'[x.d] = posts[x.d] + 1 /\ \A d \in Deliveries \ {x.d} : posts'[d] = posts[d]
    BY <1>3, <2>1 DEF HistoryOK
  <2>10. HistoryOK'
    BY <1>3, <2>1, <2>2 DEF HistoryOK
  <2>11. AttemptsCounted'
    <3> SUFFICES ASSUME NEW d \in Deliveries, delivery[d].status # "removed"
                 PROVE  posts'[d] = delivery[d].attempt + forgotten[d] + Cardinality(InHand(d)')
      BY <2>2 DEF AttemptsCounted
    <3>1. posts[d] = delivery[d].attempt + forgotten[d] + Cardinality(InHand(d))
      BY DEF AttemptsCounted
    <3>2. Cardinality(InHand(d)) \in Nat /\ delivery[d].attempt \in Nat /\ forgotten[d] \in Nat
      BY InHandFinite, FS_CardinalityType DEF RowTypeOK, HistoryOK
    <3>3. CASE d = x.d
      BY <3>1, <3>2, <3>3, <2>6, <2>8, <2>9
    <3>4. CASE d # x.d
      BY <3>1, <3>4, <2>7, <2>9
    <3> QED BY <3>3, <3>4
  <2>12. Older(x)
    BY DEF ReadIsOld
  <2>13. Fresh'
    BY <2>2, <2>9, <2>12 DEF Fresh, Older
  <2>14. RowTypeOK' /\ ForeignKey' /\ ToInsert' /\ GivenUpAtLimit'
    BY <2>2 DEF RowTypeOK, ForeignKey, Exists, ToInsert, GivenUpAtLimit
  <2> QED BY <2>4, <2>5, <2>10, <2>11, <2>13, <2>14
<1> QED BY <1>1, <1>2, <1>3

LEMMA RecordKeeps == ASSUME HookInv, NEW r \in Replicas, Record(r) PROVE HookInv'
<1> USE DEF HookInv, HookTypeOK
<1> DEFINE read == pass[r].read
<1>1. PICK x \in Reading : pass[r].at = <<x>> /\ pass[r].at[1] = x
  BY PassTypes DEF Record
<1>2. /\ pass[r].pc = "record" /\ pass' = [pass EXCEPT ![r] = Onward(read)]
      /\ UNCHANGED <<task, posts, forgotten, crashes>>
  BY DEF Record, Become, history
<1>3. read \in SUBSET Reading /\ x.d \in Deliveries /\ x.attempt \in Nat
  BY PassTypes DEF Reading
<1>4. Older(x) /\ r \in InHand(x.d)
  BY <1>1, <1>2 DEF ReadIsOld, InHand
<1>5. CASE Exists(x.d[2])
  <2>1. PICK outcome \in {"delivered", retry_or_fail(x.attempt)} :
          /\ delivery' = [delivery EXCEPT ![x.d] = Attempted(x, outcome)]
          /\ sub' = [sub EXCEPT ![x.d[2]] = Counted(x.d[2], outcome)]
    BY <1>1, <1>5 DEF Record
  <2>2. outcome \in {"delivered", "failed", "pending"}
        /\ (outcome = "failed" => x.attempt + 1 >= MaxAttempts)
    BY <1>3, SizeAssumption DEF retry_or_fail
  <2>3. delivery[x.d].attempt \in Nat /\ x.attempt <= delivery[x.d].attempt
        /\ delivery[x.d].status # "none"
    BY <1>3, <1>4 DEF Older, RowTypeOK
  <2>4. Attempted(x, outcome).wait \in Nat
    BY <1>3, DelayIsNat DEF Attempted
  <2>5. /\ Attempted(x, outcome) \in [status : {"none", "pending", "delivered", "failed", "removed"},
                                      attempt : Nat, wait : Nat]
        /\ Attempted(x, outcome).status = outcome
        /\ Attempted(x, outcome).attempt = delivery[x.d].attempt + 1
    BY <2>2, <2>3, <2>4 DEF Attempted, Attempt
  <2>6. x.d[2] \in Subscriptions /\ sub[x.d[2]].state \in {"active", "paused"}
        /\ sub[x.d[2]].failures \in 0..PauseAt
    BY <1>3, <1>5 DEF Deliveries, RowTypeOK, Exists
  <2>7. Counted(x.d[2], outcome) \in [state : {"active", "paused"}, failures : 0..PauseAt]
    <3>1. PICK n \in Nat : n = sub[x.d[2]].failures + 1
      BY <2>6, SizeAssumption
    <3>2. Min({n, PauseAt}) \in 0..PauseAt
      BY <3>1, MinOfTwo, SizeAssumption
    <3>3. 0 \in 0..PauseAt
      BY SizeAssumption
    <3> QED BY <2>6, <3>1, <3>2, <3>3 DEF Counted
  <2>8. RowTypeOK'
    BY <1>2, <2>1, <2>5, <2>7 DEF RowTypeOK
  <2>9. \A s \in Subscriptions : Exists(s) <=> Exists(s)'
    BY <1>5, <2>1, <2>6, <2>7 DEF Exists, RowTypeOK
  <2>10. /\ delivery'[x.d] = Attempted(x, outcome)
         /\ \A d \in Deliveries \ {x.d} : delivery'[d] = delivery[d]
    BY <1>3, <2>1 DEF RowTypeOK
  <2>11. ForeignKey'
    <3>1. \A d \in Deliveries : d[2] \in Subscriptions
      BY DEF Deliveries
    <3>2. delivery'[x.d].status = outcome
      BY <2>5, <2>10
    <3> QED BY <1>5, <2>2, <2>6, <2>9, <2>10, <3>1, <3>2 DEF ForeignKey
  <2>12. \A y \in Reading : Older(y) => Older(y)'
    BY <2>2, <2>3, <2>5, <2>10 DEF Older, Reading
  <2>13. PassOK' /\ ReadIsOld' /\ \A d : InHand(d)' = InHand(d) \ {r}
    BY <1>2, <1>3, <2>12, Elsewhere
  <2>14. AttemptsCounted'
    <3> SUFFICES ASSUME NEW d \in Deliveries, delivery'[d].status # "removed"
                 PROVE  posts[d] = delivery'[d].attempt + forgotten[d] + Cardinality(InHand(d)')
      BY <1>2 DEF AttemptsCounted
    <3>1. CASE d = x.d
      <4>1. posts[d] = delivery[d].attempt + forgotten[d] + Cardinality(InHand(d))
        BY <1>3, <1>5, <3>1 DEF ForeignKey, AttemptsCounted
      <4>2. Cardinality(InHand(d) \ {r}) = Cardinality(InHand(d)) - 1
        BY <1>4, <3>1, InHandFinite, FS_RemoveElement
      <4>3. Cardinality(InHand(d)) \in Nat /\ forgotten[d] \in Nat
        BY InHandFinite, FS_CardinalityType DEF HistoryOK
      <4>4. InHand(d)' = InHand(d) \ {r} /\ delivery'[d].attempt = delivery[d].attempt + 1
        BY <2>5, <2>10, <2>13, <3>1
      <4> QED BY <2>3, <3>1, <4>1, <4>2, <4>3, <4>4
    <3>2. CASE d # x.d
      <4>1. InHand(d)' = InHand(d)
        BY <1>1, <2>13, <3>2 DEF InHand
      <4> QED BY <2>10, <3>2, <4>1 DEF AttemptsCounted
    <3> QED BY <3>1, <3>2
  <2>15. HistoryOK'
    BY <1>2 DEF HistoryOK
  <2>16. delivery'[x.d].status = outcome /\ delivery'[x.d].attempt = delivery[x.d].attempt + 1
    BY <2>5, <2>10
  <2>17. Fresh'
    BY <1>2, <2>2, <2>10, <2>16 DEF Fresh
  <2>18. GivenUpAtLimit'
    <3>1. MaxAttempts \in Nat
      BY SizeAssumption
    <3>2. outcome = "failed" => delivery[x.d].attempt + 1 >= MaxAttempts
      BY <1>3, <2>2, <2>3, <3>1
    <3> QED BY <2>10, <2>16, <3>2 DEF GivenUpAtLimit
  <2>19. ToInsert'
    <3>1. \A e \in Events, t \in Subscriptions : <<e, t>> \in Deliveries
      BY DEF Deliveries
    <3>2. \A d \in Deliveries : delivery[d].status = "none" => delivery'[d] = delivery[d]
      BY <2>3, <2>10
    <3>3. \A e \in Events : task[e].left \subseteq Subscriptions
      BY DEF RowTypeOK
    <3> QED BY <1>2, <3>1, <3>2, <3>3 DEF ToInsert
  <2> QED BY <2>8, <2>11, <2>13, <2>14, <2>15, <2>17, <2>18, <2>19
<1>6. CASE ~Exists(x.d[2])
  <2>1. UNCHANGED <<sub, delivery>>
    BY <1>1, <1>6 DEF Record, rows
  <2>2. delivery[x.d].status = "removed"
    BY <1>3, <1>4, <1>6 DEF ForeignKey, Older
  <2>3. \A y \in Reading : Older(y) => Older(y)'
    BY <2>1 DEF Older
  <2>4. PassOK' /\ ReadIsOld' /\ \A d : InHand(d)' = InHand(d) \ {r}
    BY <1>2, <1>3, <2>3, Elsewhere
  <2>5. \A d \in Deliveries \ {x.d} : InHand(d)' = InHand(d)
    BY <1>1, <2>4 DEF InHand
  <2>6. AttemptsCounted'
    BY <1>2, <2>1, <2>2, <2>5 DEF AttemptsCounted
  <2>7. RowTypeOK' /\ HistoryOK' /\ ForeignKey' /\ Fresh' /\ ToInsert' /\ GivenUpAtLimit'
    BY <1>2, <2>1 DEF RowTypeOK, HistoryOK, ForeignKey, Exists, Fresh, ToInsert, GivenUpAtLimit
  <2> QED BY <2>4, <2>6, <2>7
<1> QED BY <1>5, <1>6

LEMMA CutShortKeeps == ASSUME HookInv, NEW r \in Replicas, CutShort(r) PROVE HookInv'
<1> USE DEF HookInv, HookTypeOK
<1>1. /\ pass' = [pass EXCEPT ![r] = Onward({})]
      /\ UNCHANGED <<sub, delivery, task, posts>>
  BY DEF CutShort, Become, Onward, Resting, rows
<1>2. \A y \in Reading : Older(y) => Older(y)'
  BY <1>1 DEF Older
<1>3. PassOK' /\ ReadIsOld' /\ \A d : InHand(d)' = InHand(d) \ {r}
  <2>1. {} \in SUBSET Reading /\ {} \subseteq pass[r].read
    OBVIOUS
  <2>2. pass' = [pass EXCEPT ![r] = Onward({})]
    BY <1>1
  <2> QED BY <1>2, <2>1, <2>2, Elsewhere
<1>4. RowTypeOK' /\ ForeignKey' /\ ToInsert' /\ GivenUpAtLimit'
  BY <1>1 DEF RowTypeOK, ForeignKey, Exists, ToInsert, GivenUpAtLimit
<1>5. crashes' \in 0..MaxCrashes
  BY SizeAssumption DEF CutShort, HistoryOK
<1>6. CASE pass[r].pc = "record"
  <2>1. PICK x \in Reading : pass[r].at = <<x>> /\ pass[r].at[1] = x
    BY <1>6, PassTypes
  <2>2. x.d \in Deliveries /\ Older(x) /\ r \in InHand(x.d)
    BY <1>6, <2>1 DEF Reading, ReadIsOld, InHand
  <2>3. forgotten' = [forgotten EXCEPT ![x.d] = @ + 1]
    BY <1>6, <2>1 DEF CutShort
  <2>4. HistoryOK'
    BY <1>1, <1>5, <2>2, <2>3 DEF HistoryOK
  <2>5. forgotten'[x.d] = forgotten[x.d] + 1
        /\ \A d \in Deliveries \ {x.d} : forgotten'[d] = forgotten[d]
    BY <2>2, <2>3 DEF HistoryOK
  <2>6. Fresh'
    BY <1>1, <2>2, <2>5 DEF Fresh, Older
  <2>7. AttemptsCounted'
    <3> SUFFICES ASSUME NEW d \in Deliveries, delivery[d].status # "removed"
                 PROVE  posts[d] = delivery[d].attempt + forgotten'[d] + Cardinality(InHand(d)')
      BY <1>1 DEF AttemptsCounted
    <3>1. posts[d] = delivery[d].attempt + forgotten[d] + Cardinality(InHand(d))
      BY DEF AttemptsCounted
    <3>2. CASE d = x.d
      <4>1. Cardinality(InHand(d) \ {r}) = Cardinality(InHand(d)) - 1
        BY <2>2, <3>2, InHandFinite, FS_RemoveElement
      <4>2. Cardinality(InHand(d)) \in Nat /\ forgotten[d] \in Nat /\ delivery[d].attempt \in Nat
        BY InHandFinite, FS_CardinalityType DEF HistoryOK, RowTypeOK
      <4>3. InHand(d)' = InHand(d) \ {r}
        BY <1>3
      <4> QED BY <2>5, <3>1, <3>2, <4>1, <4>2, <4>3
    <3>3. CASE d # x.d
      <4>1. InHand(d)' = InHand(d)
        BY <1>3, <2>1, <3>3 DEF InHand
      <4> QED BY <2>5, <3>1, <3>3, <4>1
    <3> QED BY <3>2, <3>3
  <2> QED BY <1>3, <1>4, <2>4, <2>6, <2>7
<1>7. CASE pass[r].pc # "record"
  <2>1. UNCHANGED forgotten
    BY <1>7 DEF CutShort
  <2>2. \A d : InHand(d)' = InHand(d)
    BY <1>3, <1>7 DEF InHand
  <2>3. AttemptsCounted'
    BY <1>1, <2>1, <2>2 DEF AttemptsCounted
  <2>4. HistoryOK' /\ Fresh'
    BY <1>1, <1>5, <2>1 DEF HistoryOK, Fresh
  <2> QED BY <1>3, <1>4, <2>3, <2>4
<1> QED BY <1>6, <1>7

-----------------------------------------------------------------------------
LEMMA StepHook == HookInv /\ [Next]_vars => HookInv'
<1> SUFFICES ASSUME HookInv, [Next]_vars PROVE HookInv'
  OBVIOUS
<1>1. ASSUME NEW e \in Events, Notify(e) \/ Insert(e) \/ QueueFails(e) PROVE HookInv'
  BY <1>1, NotifyKeeps, InsertKeeps, QueueFailsKeeps
<1>2. ASSUME NEW s \in Subscriptions, Unsubscribe(s) PROVE HookInv'
  BY <1>2, UnsubscribeKeeps
<1>3. ASSUME NEW r \in Replicas, ReadDue(r) \/ Post(r) \/ Record(r) \/ CutShort(r) PROVE HookInv'
  BY <1>3, ReadDueKeeps, PostKeeps, RecordKeeps, CutShortKeeps
<1>4. CASE Tick
  BY <1>4, TickKeeps
<1>5. CASE UNCHANGED vars
  <2>1. UNCHANGED <<sub, delivery, task, pass, posts, forgotten, crashes>>
    BY <1>5 DEF vars, rows, history
  <2>2. AttemptsCounted'
    BY <2>1, CountKept
  <2> QED BY <2>1, <2>2 DEF HookInv, HookTypeOK, RowTypeOK, PassOK, HistoryOK, ForeignKey, Exists,
             ReadIsOld, Older, Fresh, ToInsert, GivenUpAtLimit
<1> QED BY <1>1, <1>2, <1>3, <1>4, <1>5 DEF Next, Pass

(* The invariant of the deliveries, of which the theorems below are parts.  *)
THEOREM HookAlways == Spec => []HookInv
BY InitHook, StepHook, PTL DEF Spec

(* Types, and the foreign key of webhook_delivery: no interleaving of an    *)
(* insert, a removal and a late record leaves a delivery without its        *)
(* subscription (repos.rs, queue, unsubscribe and record_attempt).          *)
THEOREM DeliveryTypeOK == Spec => []TypeOK
<1>1. HookInv => TypeOK
  BY DEF HookInv, HookTypeOK, RowTypeOK, PassOK, HistoryOK, ForeignKey, TypeOK, Reading
<1> QED BY <1>1, HookAlways, PTL

(* A row's attempts are the requests made for it by any number of replicas, *)
(* short of those under way and those a crash kept from the record          *)
(* (webhooks.rs, deliver_due; repos.rs, record_attempt).                    *)
THEOREM RequestsAreCounted == Spec => []AttemptsCounted
<1>1. HookInv => AttemptsCounted
  BY DEF HookInv
<1> QED BY <1>1, HookAlways, PTL

LEMMA GivenUpWasTried ==
    ASSUME HookInv, NEW d \in Deliveries, delivery[d].status = "failed"
    PROVE  posts[d] >= MaxAttempts
<1>1. posts[d] = delivery[d].attempt + forgotten[d] + Cardinality(InHand(d))
  BY DEF HookInv, AttemptsCounted
<1>2. Cardinality(InHand(d)) \in Nat /\ forgotten[d] \in Nat /\ delivery[d].attempt \in Nat
  BY InHandFinite, FS_CardinalityType DEF HookInv, HookTypeOK, HistoryOK, RowTypeOK
<1>3. delivery[d].attempt >= MaxAttempts /\ MaxAttempts \in Nat
  BY SizeAssumption DEF HookInv, GivenUpAtLimit
<1> QED BY <1>1, <1>2, <1>3

(* A delivery given up was tried MaxAttempts times, from however stale a    *)
(* row each replica worked (webhooks.rs, retry_or_fail).                    *)
THEOREM NoneGivenUpEarly ==
    Spec => [](\A d \in Deliveries : delivery[d].status = "failed" => posts[d] >= MaxAttempts)
<1>1. HookInv => \A d \in Deliveries : delivery[d].status = "failed" => posts[d] >= MaxAttempts
  BY GivenUpWasTried
<1> QED BY <1>1, HookAlways, PTL

-----------------------------------------------------------------------------
(* A row that has been inserted never counts as absent again, and a         *)
(* subscription that has been removed never comes back.                     *)
LEMMA RowsStay ==
    ASSUME HookInv, [Next]_vars
    PROVE  /\ \A d \in Deliveries : delivery[d].status # "none" => delivery'[d].status # "none"
           /\ \A s \in Subscriptions : ~Exists(s) => ~Exists(s)'
<1> USE DEF HookInv, HookTypeOK, RowTypeOK
<1>1. ASSUME UNCHANGED rows
      PROVE  /\ \A d \in Deliveries : delivery[d].status # "none" => delivery'[d].status # "none"
             /\ \A s \in Subscriptions : ~Exists(s) => ~Exists(s)'
  BY <1>1 DEF rows, Exists
<1>2. ASSUME NEW e \in Events, Insert(e)
      PROVE  /\ \A d \in Deliveries : delivery[d].status # "none" => delivery'[d].status # "none"
             /\ \A s \in Subscriptions : ~Exists(s) => ~Exists(s)'
  <2>1. UNCHANGED sub
    BY <1>2 DEF Insert
  <2>2. CASE UNCHANGED delivery
    BY <2>1, <2>2 DEF Exists
  <2>3. CASE delivery' = [delivery EXCEPT ![<<e, Min(task[e].left)>>] = NewRow]
    BY <2>1, <2>3 DEF Exists, NewRow
  <2> QED BY <1>2, <2>2, <2>3 DEF Insert, Ends
<1>3. ASSUME NEW s \in Subscriptions, Unsubscribe(s)
      PROVE  /\ \A d \in Deliveries : delivery[d].status # "none" => delivery'[d].status # "none"
             /\ \A t \in Subscriptions : ~Exists(t) => ~Exists(t)'
  BY <1>3 DEF Unsubscribe, Exists
<1>4. ASSUME NEW r \in Replicas, Record(r)
      PROVE  /\ \A d \in Deliveries : delivery[d].status # "none" => delivery'[d].status # "none"
             /\ \A s \in Subscriptions : ~Exists(s) => ~Exists(s)'
  <2>1. PICK x \in Reading : pass[r].at[1] = x
    BY <1>4, PassTypes DEF Record
  <2>2. CASE UNCHANGED rows
    BY <1>1, <2>2
  <2>3. CASE /\ Exists(x.d[2])
             /\ \E outcome \in {"delivered", retry_or_fail(x.attempt)} :
                  /\ delivery' = [delivery EXCEPT ![x.d] = Attempted(x, outcome)]
                  /\ sub' = [sub EXCEPT ![x.d[2]] = Counted(x.d[2], outcome)]
    <3>1. PICK outcome \in {"delivered", "failed", "pending"} :
            /\ delivery' = [delivery EXCEPT ![x.d] = Attempted(x, outcome)]
            /\ sub' = [sub EXCEPT ![x.d[2]] = Counted(x.d[2], outcome)]
      BY <2>3 DEF retry_or_fail
    <3>2. Attempted(x, outcome).status # "none"
      BY DEF Attempted
    <3> QED BY <2>3, <3>1, <3>2 DEF Exists
  <2> QED BY <1>4, <2>1, <2>2, <2>3 DEF Record
<1>5. ASSUME Tick
      PROVE  /\ \A d \in Deliveries : delivery[d].status # "none" => delivery'[d].status # "none"
             /\ \A s \in Subscriptions : ~Exists(s) => ~Exists(s)'
  BY <1>5 DEF Tick, Exists
<1>6. CASE UNCHANGED vars
  BY <1>1, <1>6 DEF vars
<1>7. ASSUME NEW e \in Events, Notify(e) \/ QueueFails(e) PROVE UNCHANGED rows
  BY <1>7 DEF Notify, QueueFails, Ends, rows
<1>8. ASSUME NEW r \in Replicas, ReadDue(r) \/ Post(r) \/ CutShort(r) PROVE UNCHANGED rows
  BY <1>8 DEF ReadDue, Post, CutShort
<1> QED BY <1>1, <1>2, <1>3, <1>4, <1>5, <1>6, <1>7, <1>8 DEF Next, Pass

(* What a task has not inserted is what is left of its list; it ends well   *)
(* with nothing left, and is refused at one that has been removed.          *)
InOrder(e) ==
    /\ task[e].left \subseteq task[e].wanted
    /\ \A s \in task[e].wanted \ task[e].left : delivery[<<e, s>>].status # "none"
    /\ task[e].pc = "none" => task[e].wanted = {}
    /\ task[e].pc = "done" => task[e].left = {}
    /\ task[e].pc = "refused" => \E t \in task[e].left : ~Exists(t)

LEMMA InOrderStep ==
    ASSUME HookInv, [Next]_vars, NEW e \in Events, InOrder(e) PROVE InOrder(e)'
<1> USE DEF HookInv, HookTypeOK, RowTypeOK
<1>1. \A s \in Subscriptions : <<e, s>> \in Deliveries
  BY DEF Deliveries
<1>2. task[e].left # {} => Min(task[e].left) \in task[e].left /\ Min(task[e].left) \in Subscriptions
  BY LeastOfSome, SizeAssumption
<1>3. CASE task'[e] = task[e]
  BY <1>1, <1>2, <1>3, RowsStay DEF InOrder
<1>4. CASE Notify(e)
  <2>1. task'[e].left = task'[e].wanted /\ task'[e].pc = "queueing"
    BY <1>4 DEF Notify
  <2> QED BY <2>1 DEF InOrder
<1>5. CASE Insert(e)
  <2> DEFINE s == Min(task[e].left)
             d0 == <<e, s>>
  <2>1. CASE task[e].left # {} /\ Exists(s)
    <3>1. s \in task[e].left /\ d0 \in Deliveries
      BY <1>1, <1>2, <2>1
    <3>2. /\ delivery' = [delivery EXCEPT ![d0] = NewRow]
          /\ task' = [task EXCEPT ![e].left = @ \ {s}]
      BY <1>5, <2>1 DEF Insert
    <3>3. delivery'[d0].status # "none"
      BY <3>1, <3>2 DEF NewRow
    <3>4. task'[e].left = task[e].left \ {s} /\ task'[e].wanted = task[e].wanted
          /\ task'[e].pc = "queueing"
      BY <1>5, <3>2 DEF Insert
    <3>5. ASSUME NEW t \in task'[e].wanted \ task'[e].left PROVE delivery'[<<e, t>>].status # "none"
      <4>1. CASE t = s
        BY <3>3, <4>1
      <4>2. CASE t # s
        <5>1. t \in task[e].wanted \ task[e].left /\ <<e, t>> \in Deliveries
          BY <1>1, <3>4, <4>2
        <5> QED BY <5>1, RowsStay DEF InOrder
      <4> QED BY <4>1, <4>2
    <3> QED BY <3>4, <3>5 DEF InOrder
  <2>2. CASE ~(task[e].left # {} /\ Exists(s))
    <3>1. Ends(e, IF task[e].left = {} THEN "done" ELSE "refused") /\ UNCHANGED sub
      BY <1>5, <2>2 DEF Insert
    <3>2. /\ task'[e].left = task[e].left /\ task'[e].wanted = task[e].wanted
          /\ task'[e].pc = IF task[e].left = {} THEN "done" ELSE "refused"
          /\ UNCHANGED delivery
      BY <3>1 DEF Ends
    <3>3. task[e].left # {} => s \in task[e].left /\ ~Exists(s)
      BY <1>2, <2>2
    <3> QED BY <3>1, <3>2, <3>3 DEF InOrder, Exists
  <2> QED BY <2>1, <2>2
<1>8. CASE QueueFails(e)
  <2>1. /\ task'[e].left = task[e].left /\ task'[e].wanted = task[e].wanted
        /\ task'[e].pc = "cut" /\ UNCHANGED <<delivery, sub>>
    BY <1>8 DEF QueueFails, Ends
  <2> QED BY <2>1 DEF InOrder, Exists
<1>6. ASSUME NEW f \in Events \ {e}, Notify(f) \/ Insert(f) \/ QueueFails(f) PROVE task'[e] = task[e]
  BY <1>6 DEF Notify, Insert, QueueFails, Ends
<1>7. ASSUME \/ Tick \/ UNCHANGED vars
             \/ \E s \in Subscriptions : Unsubscribe(s)
             \/ \E r \in Replicas : Pass(r) \/ CutShort(r)
      PROVE  task'[e] = task[e]
  BY <1>7 DEF Tick, vars, Unsubscribe, Pass, ReadDue, Post, Record, CutShort
<1> QED BY <1>3, <1>4, <1>5, <1>6, <1>7, <1>8 DEF Next

(* An event is queued for every subscription that was active when it was    *)
(* listed and goes on, unless queue came to an error: the foreign key, for  *)
(* one removed while the rows were inserted, or another failure (repos.rs,  *)
(* queue).                                                                  *)
THEOREM NobodyLeftOutQuietly == Spec => []QueuedOrReported
<1>1. Init => \A e \in Events : InOrder(e)
  BY DEF Init, InOrder
<1>2. HookInv /\ (\A e \in Events : InOrder(e)) => QueuedOrReported
  <2> SUFFICES ASSUME HookInv, NEW e \in Events, InOrder(e), NEW s \in task[e].wanted,
                      delivery[<<e, s>>].status = "none", Exists(s)
               PROVE  \/ task[e].pc = "queueing" /\ s \in task[e].left
                      \/ task[e].pc = "refused" /\ \E t \in task[e].wanted : ~Exists(t)
                      \/ task[e].pc = "cut"
    BY DEF QueuedOrReported
  <2>1. s \in task[e].left
    BY DEF InOrder
  <2>2. task[e].pc \in {"none", "queueing", "done", "refused", "cut"}
    BY DEF HookInv, HookTypeOK, RowTypeOK
  <2> QED BY <2>1, <2>2 DEF InOrder
<1>3. HookInv /\ (\A e \in Events : InOrder(e)) /\ [Next]_vars => (\A e \in Events : InOrder(e))'
  BY InOrderStep
<1> QED BY <1>1, <1>2, <1>3, HookAlways, PTL DEF Spec

-----------------------------------------------------------------------------
(* How often a delivery is tried.  Beside a delivery a replica is free, or  *)
(* holds a reading of it, read or posted and in hand.  A stale reading, one *)
(* that the ladder still lets go on, may reopen the row when it is          *)
(* recorded, and so let every replica that is free try once more.           *)
R == Cardinality(Replicas)
Roles == {"free", "stale_read", "stale_hand", "read", "hand"}

Stale(x) == x.attempt + 1 < MaxAttempts
Role(r, d) ==
    IF pass[r].pc = "record" /\ pass[r].at[1].d = d
    THEN IF Stale(pass[r].at[1]) THEN "stale_hand" ELSE "hand"
    ELSE IF \E x \in pass[r].read : x.d = d /\ Stale(x) THEN "stale_read"
    ELSE IF \E x \in pass[r].read : x.d = d THEN "read" ELSE "free"
RolesOf(d) == [r \in Replicas |-> Role(r, d)]

Count(f, role) == Cardinality({r \in Replicas : f[r] = role})

(* The requests the readings may still lead to once the row's attempts have *)
(* run out, f being the roles beside it, and those of replicas that may     *)
(* read the row while it is due.                                            *)
Held(f) == (R + 1) * Count(f, "stale_read") + R * Count(f, "stale_hand") + Count(f, "read")
Credit(f, status) == IF status = "pending" THEN Held(f) + Count(f, "free") ELSE Held(f)

Worth(role) == IF role = "stale_read" THEN R + 1 ELSE IF role = "stale_hand" THEN R
               ELSE IF role = "read" THEN 1 ELSE 0

LEMMA ReplicasCounted ==
    /\ R \in Nat
    /\ \A f, role : Count(f, role) \in Nat /\ Count(f, role) <= R
<1>1. R \in Nat
  BY SizeAssumption, FS_CardinalityType DEF R
<1>2. ASSUME NEW f, NEW role PROVE Count(f, role) \in Nat /\ Count(f, role) <= R
  <2>1. {r \in Replicas : f[r] = role} \in SUBSET Replicas
    OBVIOUS
  <2> QED BY <2>1, SizeAssumption, FS_Subset, FS_CardinalityType DEF Count, R
<1> QED BY <1>1, <1>2

LEMMA ProductIsNat == ASSUME NEW c \in Nat, NEW n \in Nat PROVE c * n \in Nat
OBVIOUS

LEMMA ProductMoves ==
    ASSUME NEW c \in Nat, NEW n \in Nat
    PROVE  c * (n + 1) = c * n + c /\ c * (n - 1) = c * n - c
OBVIOUS

LEMMA OneRoleChanges ==
    ASSUME NEW f \in [Replicas -> Roles], NEW r \in Replicas, NEW b \in Roles, f[r] # b
    PROVE  LET g == [f EXCEPT ![r] = b]
           IN  /\ Count(g, b) = Count(f, b) + 1
               /\ Count(g, f[r]) = Count(f, f[r]) - 1
               /\ \A role \in Roles \ {b, f[r]} : Count(g, role) = Count(f, role)
<1> DEFINE g == [f EXCEPT ![r] = b]
<1> DEFINE S(h, role) == {q \in Replicas : h[q] = role}
<1>1. S(g, b) = S(f, b) \cup {r} /\ r \notin S(f, b)
  OBVIOUS
<1>2. S(g, f[r]) = S(f, f[r]) \ {r} /\ r \in S(f, f[r])
  OBVIOUS
<1>3. ASSUME NEW role \in Roles \ {b, f[r]} PROVE S(g, role) = S(f, role)
  OBVIOUS
<1>4. \A h, role : IsFiniteSet(S(h, role))
  BY SizeAssumption, FS_Subset
<1> HIDE DEF g, S
<1> DEFINE B == S(f, b)
           A == S(f, f[r])
<1>5. Cardinality(B \cup {r}) = Cardinality(B) + 1
  <2>1. IsFiniteSet(B) /\ r \notin B
    BY <1>1, <1>4
  <2> HIDE DEF B
  <2> QED BY <2>1, FS_AddElement
<1>6. Cardinality(A \ {r}) = Cardinality(A) - 1
  <2>1. IsFiniteSet(A) /\ r \in A
    BY <1>2, <1>4
  <2> HIDE DEF A
  <2> QED BY <2>1, FS_RemoveElement
<1> QED BY <1>1, <1>2, <1>3, <1>5, <1>6 DEF Count, S, g

LEMMA HeldIsNat == ASSUME NEW f PROVE Held(f) \in Nat
<1>1. R \in Nat /\ R + 1 \in Nat
  BY ReplicasCounted
<1>2. Count(f, "stale_read") \in Nat /\ Count(f, "stale_hand") \in Nat /\ Count(f, "read") \in Nat
  BY ReplicasCounted
<1>3. PICK a \in Nat : a = (R + 1) * Count(f, "stale_read")
  BY <1>1, <1>2, ProductIsNat, Zenon
<1>4. PICK h \in Nat : h = R * Count(f, "stale_hand")
  BY <1>1, <1>2, ProductIsNat, Zenon
<1>5. PICK n \in Nat : n = Count(f, "read")
  BY <1>2
<1>6. Held(f) = a + h + n
  BY <1>3, <1>4, <1>5, Zenon DEF Held
<1> QED BY <1>6

(* A replica's move trades what its role was worth for what it is now.      *)
LEMMA HeldMoves ==
    ASSUME NEW f \in [Replicas -> Roles], NEW r \in Replicas, NEW b \in Roles, f[r] # b
    PROVE  Held([f EXCEPT ![r] = b]) = Held(f) + Worth(b) - Worth(f[r])
<1> DEFINE g == [f EXCEPT ![r] = b]
<1> DEFINE Moved(role, c) == IF role = b THEN c ELSE IF role = f[r] THEN -c ELSE 0
<1>1. R \in Nat /\ R + 1 \in Nat /\ f[r] \in Roles
  BY ReplicasCounted
<1>2. \A role : Count(f, role) \in Nat /\ Count(g, role) \in Nat
  BY ReplicasCounted
<1>3. /\ Count(g, b) = Count(f, b) + 1
      /\ Count(g, f[r]) = Count(f, f[r]) - 1
      /\ \A role \in Roles \ {b, f[r]} : Count(g, role) = Count(f, role)
  BY OneRoleChanges
<1> HIDE DEF g
<1>4. ASSUME NEW role \in Roles, NEW c \in Nat
      PROVE  c * Count(g, role) = c * Count(f, role) + Moved(role, c)
  <2>1. PICK n \in Nat : n = Count(f, role)
    BY <1>2
  <2>2. c * n \in Nat /\ c * (n + 1) = c * n + c /\ c * (n - 1) = c * n - c
    BY ProductMoves, ProductIsNat
  <2>3. CASE role = b
    <3>1. Count(g, role) = n + 1
      BY <1>3, <2>1, <2>3
    <3> QED BY <2>1, <2>2, <2>3, <3>1
  <2>4. CASE role = f[r] /\ role # b
    <3>1. Count(g, role) = n - 1
      BY <1>3, <2>1, <2>4
    <3> QED BY <2>1, <2>2, <2>4, <3>1
  <2>5. CASE role \notin {b, f[r]}
    <3>1. Count(g, role) = n
      BY <1>3, <2>1, <2>5
    <3> QED BY <2>1, <2>2, <2>5, <3>1
  <2> QED BY <2>3, <2>4, <2>5
<1>5. PICK a \in Nat, h \in Nat :
        a = (R + 1) * Count(f, "stale_read") /\ h = R * Count(f, "stale_hand")
  <2>1. Count(f, "stale_read") \in Nat /\ Count(f, "stale_hand") \in Nat
    BY <1>2
  <2> QED BY <1>1, <2>1, ProductIsNat, Zenon
<1>6. /\ (R + 1) * Count(g, "stale_read") = a + Moved("stale_read", R + 1)
      /\ R * Count(g, "stale_hand") = h + Moved("stale_hand", R)
  <2>1. "stale_read" \in Roles /\ "stale_hand" \in Roles
    BY DEF Roles
  <2> HIDE DEF Moved
  <2> QED BY <1>1, <1>4, <1>5, <2>1, Zenon
<1>7. PICK n \in Nat : n = Count(f, "read") /\ Count(g, "read") = n + Moved("read", 1)
  <2>1. "read" \in Roles /\ Count(f, "read") \in Nat
    BY <1>2 DEF Roles
  <2> QED BY <1>3, <2>1
<1>8. Held(f) = a + h + n
  BY <1>5, <1>7, Zenon DEF Held
<1>9. Held(g) = (a + Moved("stale_read", R + 1)) + (h + Moved("stale_hand", R))
                  + (n + Moved("read", 1))
  <2> HIDE DEF Moved
  <2> QED BY <1>6, <1>7, Zenon DEF Held
<1>10. /\ f[r] \in {"free", "stale_read", "stale_hand", "read", "hand"}
       /\ b \in {"free", "stale_read", "stale_hand", "read", "hand"}
  BY DEF Roles
<1> HIDE DEF Roles
<1>11. Held(g) = Held(f) + Worth(b) - Worth(f[r])
  BY <1>1, <1>8, <1>9, <1>10 DEF Worth
<1> QED BY <1>11 DEF g

(* The same with the replicas that are free, while the row is due.          *)
Price(role, status) == IF status = "pending" /\ role = "free" THEN 1 ELSE Worth(role)

LEMMA CreditIsNat ==
    ASSUME NEW f, NEW status
    PROVE  /\ Held(f) \in Nat /\ Count(f, "free") \in Nat
           /\ Credit(f, status) \in Nat /\ Held(f) <= Credit(f, status)
           /\ Credit(f, status) <= Held(f) + Count(f, "free")
<1>1. PICK h \in Nat, n \in Nat : h = Held(f) /\ n = Count(f, "free")
  BY HeldIsNat, ReplicasCounted
<1>2. Credit(f, status) = IF status = "pending" THEN h + n ELSE h
  BY <1>1 DEF Credit
<1> QED BY <1>1, <1>2

LEMMA CreditMoves ==
    ASSUME NEW f \in [Replicas -> Roles], NEW r \in Replicas, NEW b \in Roles,
           NEW status
    PROVE  Credit([f EXCEPT ![r] = b], status) = Credit(f, status) + Price(b, status) - Price(f[r], status)
<1> DEFINE g == [f EXCEPT ![r] = b]
<1>1. CASE f[r] = b
  <2>1. g = f
    BY <1>1
  <2>2. Credit(f, status) \in Nat
    BY CreditIsNat
  <2>3. Price(b, status) \in Nat
    BY ReplicasCounted DEF Price, Worth
  <2> HIDE DEF g
  <2>4. Credit(g, status) = Credit(f, status) + Price(b, status) - Price(f[r], status)
    BY <1>1, <2>1, <2>2, <2>3
  <2> QED BY <2>4 DEF g
<1>2. CASE f[r] # b
  <2>1. /\ Count(g, b) = Count(f, b) + 1
        /\ Count(g, f[r]) = Count(f, f[r]) - 1
        /\ \A role \in Roles \ {b, f[r]} : Count(g, role) = Count(f, role)
    BY <1>2, OneRoleChanges
  <2>2. Held(g) = Held(f) + Worth(b) - Worth(f[r])
    BY <1>2, HeldMoves
  <2> HIDE DEF g
  <2>3. PICK h \in Nat, n \in Nat : h = Held(f) /\ n = Count(f, "free")
    BY HeldIsNat, ReplicasCounted
  <2>4. "free" \in Roles /\ f[r] \in Roles
    BY DEF Roles
  <2>5. Count(g, "free") = n + (IF b = "free" THEN 1 ELSE IF f[r] = "free" THEN -1 ELSE 0)
    <3>1. CASE b = "free"
      BY <2>1, <2>3, <3>1
    <3>2. CASE b # "free" /\ f[r] = "free"
      BY <2>1, <2>3, <3>2
    <3>3. CASE b # "free" /\ f[r] # "free"
      BY <2>1, <2>3, <2>4, <3>3
    <3> QED BY <3>1, <3>2, <3>3
  <2>6. PICK v \in Nat, w \in Nat : v = Worth(b) /\ w = Worth(f[r])
    BY ReplicasCounted DEF Worth
  <2>7. /\ Credit(f, status) = (IF status = "pending" THEN h + n ELSE h)
        /\ Credit(g, status) = (IF status = "pending" THEN (h + v - w) + Count(g, "free") ELSE h + v - w)
    BY <2>2, <2>3, <2>6 DEF Credit
  <2>8. Price(b, status) = (IF status = "pending" /\ b = "free" THEN 1 ELSE v)
        /\ Price(f[r], status) = (IF status = "pending" /\ f[r] = "free" THEN 1 ELSE w)
    BY <2>6 DEF Price
  <2>9. (b = "free" => v = 0) /\ (f[r] = "free" => w = 0)
    BY <2>6 DEF Worth
  <2>10. Credit(g, status) = Credit(f, status) + Price(b, status) - Price(f[r], status)
    <3>1. CASE status = "pending" /\ b = "free"
      BY <1>2, <2>5, <2>7, <2>8, <2>9, <3>1
    <3>2. CASE status = "pending" /\ f[r] = "free"
      BY <1>2, <2>5, <2>7, <2>8, <2>9, <3>2
    <3>3. CASE status = "pending" /\ b # "free" /\ f[r] # "free"
      BY <2>5, <2>7, <2>8, <3>3
    <3>4. CASE status # "pending"
      BY <2>7, <2>8, <3>4
    <3> QED BY <3>1, <3>2, <3>3, <3>4
  <2> QED BY <2>10 DEF g
<1> QED BY <1>1, <1>2

(* What the moves of a pass cost.                                           *)
LEMMA CreditSpent ==
    ASSUME NEW f \in [Replicas -> Roles], NEW r \in Replicas, NEW status, NEW t
    PROVE  /\ f[r] = "stale_read" =>
                Credit([f EXCEPT ![r] = "stale_hand"], status) = Credit(f, status) - 1
           /\ f[r] = "read" => Credit([f EXCEPT ![r] = "hand"], status) = Credit(f, status) - 1
           /\ f[r] = "free" /\ status = "pending" =>
                Credit([f EXCEPT ![r] = "read"], status) = Credit(f, status)
           /\ Credit([f EXCEPT ![r] = "free"], status) <= Credit(f, status) + 1
           /\ status # "pending" \/ f[r] = "stale_hand" =>
                Credit([f EXCEPT ![r] = "free"], status) <= Credit(f, t)
<1> DEFINE G(b) == [f EXCEPT ![r] = b]
<1>1. {"free", "stale_read", "stale_hand", "read", "hand"} \subseteq Roles /\ f[r] \in Roles
  BY DEF Roles
<1>2. R \in Nat /\ Credit(f, status) \in Nat
  BY ReplicasCounted, CreditIsNat
<1>3. ASSUME NEW b \in Roles
      PROVE  Credit(G(b), status) = Credit(f, status) + Price(b, status) - Price(f[r], status)
  BY CreditMoves
<1>4. ASSUME NEW b \in Roles, f[r] # b
      PROVE  Held(G(b)) = Held(f) + Worth(b) - Worth(f[r])
  BY <1>4, HeldMoves
<1>5. /\ Price(f[r], status) \in Nat
      /\ Price("stale_hand", status) = R /\ Price("stale_read", status) = R + 1
      /\ Price("hand", status) = 0 /\ Price("read", status) = 1
      /\ Price("free", status) = IF status = "pending" THEN 1 ELSE 0
  BY ReplicasCounted DEF Price, Worth
<1> HIDE DEF G
<1>6. f[r] = "stale_read" => Credit(G("stale_hand"), status) = Credit(f, status) - 1
  BY <1>1, <1>2, <1>3, <1>5
<1>7. f[r] = "read" => Credit(G("hand"), status) = Credit(f, status) - 1
  BY <1>1, <1>2, <1>3, <1>5
<1>8. f[r] = "free" /\ status = "pending" => Credit(G("read"), status) = Credit(f, status)
  BY <1>1, <1>2, <1>3, <1>5
<1>9. Credit(G("free"), status) <= Credit(f, status) + 1
  <2>1. Credit(G("free"), status) = Credit(f, status) + Price("free", status) - Price(f[r], status)
    BY <1>1, <1>3
  <2> QED BY <1>1, <1>2, <1>5, <2>1
<1>10. status # "pending" \/ f[r] = "stale_hand" => Credit(G("free"), status) <= Credit(f, t)
  <2>1. PICK h \in Nat : h = Held(f) /\ h <= Credit(f, t) /\ Credit(f, t) \in Nat
    BY CreditIsNat
  <2>2. PICK n \in Nat : n = Count(G("free"), "free") /\ n <= R
    BY ReplicasCounted
  <2>3. Credit(G("free"), status) = IF status = "pending" THEN Held(G("free")) + n ELSE Held(G("free"))
    BY <2>2 DEF Credit
  <2>4. Held(G("free")) = h + 0 - Worth(f[r])
    <3>1. Worth("free") = 0
      BY DEF Worth
    <3>2. CASE f[r] = "free"
      <4>1. G("free") = f
        BY <3>2 DEF G
      <4> QED BY <2>1, <3>1, <3>2, <4>1
    <3>3. CASE f[r] # "free"
      <4>1. Held(G("free")) = Held(f) + Worth("free") - Worth(f[r])
        BY <1>1, <1>4, <3>3
      <4> QED BY <2>1, <3>1, <4>1
    <3> QED BY <3>2, <3>3
  <2>5. Worth(f[r]) \in Nat /\ (f[r] = "stale_hand" => Worth(f[r]) = R)
    BY <1>2 DEF Worth
  <2> QED BY <1>2, <2>1, <2>2, <2>3, <2>4, <2>5
<1> QED BY <1>6, <1>7, <1>8, <1>9, <1>10 DEF G

(* Where the count starts: with nothing but stale readings about, and the   *)
(* replica that has just recorded one free.                                 *)
LEMMA SquareBound ==
    ASSUME NEW r \in Nat, NEW a \in Nat, NEW h \in Nat, NEW n \in Nat, a + h + n = r, n >= 1
    PROVE  (r + 1) * a + r * h + n + h <= r * r
<1>1. PICK k \in Nat : k = a + h
  OBVIOUS
<1>2. (r + 1) * a = r * a + a
  OBVIOUS
<1>3. r * k = r * a + r * h
  BY <1>1
<1>4. r * (k + 1) = r * k + r
  OBVIOUS
<1>5. PICK j \in Nat : r = (k + 1) + j
  BY <1>1
<1>6. r * r = r * (k + 1) + r * j
  BY <1>5
<1>7. r * a \in Nat /\ r * h \in Nat /\ r * j \in Nat
  OBVIOUS
<1> QED BY <1>1, <1>2, <1>3, <1>4, <1>5, <1>6, <1>7

LEMMA SquareAbove == ASSUME NEW r \in Nat PROVE r * r \in Nat /\ r <= r * r
OBVIOUS

LEMMA Apart ==
    ASSUME NEW S, NEW T, IsFiniteSet(S), IsFiniteSet(T), S \cap T = {}
    PROVE  IsFiniteSet(S \cup T) /\ Cardinality(S \cup T) = Cardinality(S) + Cardinality(T)
<1>1. /\ IsFiniteSet(S \cup T)
      /\ Cardinality(S \cup T) = Cardinality(S) + Cardinality(T) - Cardinality(S \cap T)
  BY FS_Union
<1>2. Cardinality(S \cap T) = 0
  BY FS_EmptySet
<1>3. Cardinality(S) \in Nat /\ Cardinality(T) \in Nat
  BY FS_CardinalityType
<1> QED BY <1>1, <1>2, <1>3

LEMMA StartsBelow ==
    ASSUME NEW f \in [Replicas -> {"free", "stale_read", "stale_hand"}], NEW status,
           NEW r \in Replicas, f[r] = "free"
    PROVE  Credit(f, status) + Count(f, "stale_hand") <= R * R
<1> DEFINE S(role) == {q \in Replicas : f[q] = role}
<1>1. \A role : IsFiniteSet(S(role)) /\ Count(f, role) = Cardinality(S(role))
  BY SizeAssumption, FS_Subset DEF Count
<1>2. S("read") = {} /\ S("stale_read") \cap S("stale_hand") = {}
      /\ (S("stale_read") \cup S("stale_hand")) \cap S("free") = {}
      /\ (S("stale_read") \cup S("stale_hand")) \cup S("free") = Replicas
  OBVIOUS
<1>3. r \in S("free")
  OBVIOUS
<1> HIDE DEF S
<1>4. Count(f, "read") = 0
  BY <1>1, <1>2, FS_EmptySet
<1>5. Cardinality(S("stale_read") \cup S("stale_hand"))
        = Count(f, "stale_read") + Count(f, "stale_hand")
      /\ IsFiniteSet(S("stale_read") \cup S("stale_hand"))
  BY <1>1, <1>2, Apart
<1>6. R = Count(f, "stale_read") + Count(f, "stale_hand") + Count(f, "free")
  BY <1>1, <1>2, <1>5, Apart DEF R
<1>7. Count(f, "free") # 0
  BY <1>1, <1>3, FS_EmptySet
<1>8. PICK a \in Nat, h \in Nat, n \in Nat :
        a = Count(f, "stale_read") /\ h = Count(f, "stale_hand") /\ n = Count(f, "free")
  BY ReplicasCounted
<1>9. R \in Nat /\ R = a + h + n /\ n >= 1
  BY <1>6, <1>7, <1>8
<1>10. (R + 1) * a + R * h + n + h <= R * R
  BY <1>9, SquareBound
<1>11. PICK b \in Nat, c \in Nat : b = (R + 1) * a /\ c = R * h
  <2>1. R + 1 \in Nat
    BY <1>9
  <2> QED BY <1>9, <2>1, ProductIsNat, Zenon
<1>12. Held(f) = b + c + 0
  BY <1>4, <1>8, <1>11, Zenon DEF Held
<1>13. Credit(f, status) <= Held(f) + n
  BY <1>8, CreditIsNat
<1>14. b + c + n + h <= R * R /\ R * R \in Nat
  BY <1>9, <1>10, <1>11, SquareAbove
<1>15. Credit(f, status) \in Nat
  BY CreditIsNat
<1> QED BY <1>8, <1>12, <1>13, <1>14, <1>15

LEMMA AllFree ==
    ASSUME NEW f \in [Replicas -> {"free"}], NEW status
    PROVE  Credit(f, status) <= R * R
<1>1. ASSUME NEW role \in {"stale_read", "stale_hand", "read"} PROVE Count(f, role) = 0
  <2>1. {q \in Replicas : f[q] = role} = {}
    OBVIOUS
  <2> QED BY <2>1, FS_EmptySet DEF Count
<1>2. (R + 1) * 0 = 0 /\ R * 0 = 0
  BY ReplicasCounted
<1>3. Held(f) = 0
  <2>1. Held(f) = 0 + 0 + 0
    BY <1>1, <1>2 DEF Held
  <2> QED BY <2>1
<1>4. Credit(f, status) <= Held(f) + Count(f, "free") /\ Credit(f, status) \in Nat
  BY CreditIsNat
<1>5. PICK n \in Nat, r \in Nat : n = Count(f, "free") /\ r = R /\ n <= r
  BY ReplicasCounted
<1>6. r <= R * R /\ R * R \in Nat
  BY <1>5, SquareAbove
<1> QED BY <1>3, <1>4, <1>5, <1>6

-----------------------------------------------------------------------------
(* A pass holds one reading of a delivery.                                  *)
Distinct(r) ==
    /\ pass[r].pc = "idle" => pass[r].read = {}
    /\ \A x, y \in pass[r].read : x.d = y.d => x = y
    /\ pass[r].pc = "record" => \A x \in pass[r].read : x.d # pass[r].at[1].d

Ceiling == MaxAttempts - 1 + R * R

(* Once the attempts of a row have run out, the requests made and those the *)
(* readings may still lead to stay below the ceiling.                       *)
Tried(d) ==
    /\ delivery[d].status \notin {"none", "removed"} /\ delivery[d].attempt + 1 >= MaxAttempts
         => posts[d] + Credit(RolesOf(d), delivery[d].status) <= Ceiling + crashes
    /\ delivery[d].status = "removed" => posts[d] <= Ceiling + crashes
    /\ forgotten[d] <= crashes

LEMMA CeilingIsNat == Ceiling \in Nat /\ R * R \in Nat /\ Ceiling = (MaxAttempts - 1) + R * R
                       /\ MaxAttempts \in Nat /\ MaxAttempts >= 1
<1>1. PICK n \in Nat : n = R * R
  BY ReplicasCounted, SquareAbove
<1>2. MaxAttempts \in Nat /\ MaxAttempts >= 1
  BY SizeAssumption
<1> QED BY <1>1, <1>2 DEF Ceiling

LEMMA DistinctStep ==
    ASSUME HookInv, [Next]_vars, NEW r \in Replicas, Distinct(r) PROVE Distinct(r)'
<1> USE DEF HookInv, HookTypeOK
<1>1. CASE pass'[r] = pass[r]
  BY <1>1 DEF Distinct
<1>2. CASE ReadDue(r)
  <2> DEFINE new == {[d |-> d, attempt |-> delivery[d].attempt] : d \in {x \in Deliveries : Due(x)}}
  <2>1. pass' = [pass EXCEPT ![r] = [Resting EXCEPT !.pc = "next", !.read = new]]
    BY <1>2 DEF ReadDue, Become
  <2>2. \A x, y \in new : x.d = y.d => x = y
    OBVIOUS
  <2> HIDE DEF new
  <2>3. pass'[r] = [pc |-> "next", read |-> new, at |-> <<>>]
    BY <2>1, StartedPass DEF PassOK
  <2> QED BY <2>2, <2>3 DEF Distinct
<1>3. ASSUME NEW read \in SUBSET pass[r].read, pass' = [pass EXCEPT ![r] = Onward(read)]
      PROVE  Distinct(r)'
  <2>1. pass'[r].pc = (IF read = {} THEN "idle" ELSE "next") /\ pass'[r].read = read
    BY <1>3 DEF PassOK, Onward, Resting
  <2> QED BY <2>1 DEF Distinct
<1>4. CASE Post(r)
  <2>1. PICK x \in pass[r].read :
          \/ Become(r, Onward(pass[r].read \ {x}))
          \/ Become(r, [pc |-> "record", read |-> pass[r].read \ {x}, at |-> <<x>>])
    BY <1>4 DEF Post
  <2>2. CASE Become(r, Onward(pass[r].read \ {x}))
    BY <1>3, <2>2 DEF Become
  <2>3. CASE Become(r, [pc |-> "record", read |-> pass[r].read \ {x}, at |-> <<x>>])
    <3>1. pass'[r] = [pc |-> "record", read |-> pass[r].read \ {x}, at |-> <<x>>]
      BY <2>3 DEF Become, PassOK
    <3> QED BY <3>1 DEF Distinct
  <2> QED BY <2>1, <2>2, <2>3
<1>5. CASE Record(r)
  BY <1>3, <1>5 DEF Record, Become
<1>6. CASE CutShort(r)
  <2>1. pass' = [pass EXCEPT ![r] = Onward({})]
    BY <1>6 DEF CutShort, Become, Onward, Resting
  <2> QED BY <1>3, <2>1
<1>7. ASSUME NEW q \in Replicas \ {r}, Pass(q) \/ CutShort(q) PROVE pass'[r] = pass[r]
  BY <1>7 DEF Pass, ReadDue, Post, Record, CutShort, Become, PassOK
<1>8. ASSUME \/ Tick \/ UNCHANGED vars
             \/ \E s \in Subscriptions : Unsubscribe(s)
             \/ \E e \in Events : Notify(e) \/ Insert(e) \/ QueueFails(e)
      PROVE  pass'[r] = pass[r]
  BY <1>8 DEF Tick, vars, Unsubscribe, Notify, Insert, QueueFails
<1> QED BY <1>1, <1>2, <1>4, <1>5, <1>6, <1>7, <1>8 DEF Next, Pass

(* A step of one replica changes its role alone.                            *)
LEMMA RolesTyped == ASSUME NEW d PROVE RolesOf(d) \in [Replicas -> Roles]
BY DEF RolesOf, Role, Roles

LEMMA RolesMove ==
    ASSUME NEW r \in Replicas, NEW d, \A q \in Replicas \ {r} : pass'[q] = pass[q]
    PROVE  RolesOf(d)' = [RolesOf(d) EXCEPT ![r] = Role(r, d)']
<1>1. \A q \in Replicas \ {r} : Role(q, d)' = Role(q, d)
  BY DEF Role
<1> QED BY <1>1 DEF RolesOf

LEMMA RolesStay ==
    ASSUME NEW r \in Replicas, NEW d, \A q \in Replicas \ {r} : pass'[q] = pass[q],
           Role(r, d)' = Role(r, d)
    PROVE  RolesOf(d)' = RolesOf(d)
<1>1. \A q \in Replicas : Role(q, d)' = Role(q, d)
  BY DEF Role
<1> QED BY <1>1 DEF RolesOf

(* The ceiling holds at any time; before the attempts run out because they  *)
(* count the requests.                                                      *)
LEMMA BoundNow ==
    ASSUME HookInv, NEW d \in Deliveries, Tried(d) PROVE posts[d] <= Ceiling + crashes
<1> USE DEF HookInv, HookTypeOK
<1>1. posts[d] \in Nat /\ forgotten[d] \in Nat /\ crashes \in Nat /\ delivery[d].attempt \in Nat
  BY DEF HistoryOK, RowTypeOK
<1>2. CASE delivery[d].status = "none"
  <2>1. posts[d] = 0
    BY <1>2 DEF Fresh
  <2> QED BY <1>1, <2>1, CeilingIsNat
<1>3. CASE delivery[d].status = "removed"
  BY <1>3 DEF Tried
<1>4. CASE delivery[d].status \notin {"none", "removed"} /\ delivery[d].attempt + 1 >= MaxAttempts
  <2>1. PICK c \in Nat : c = Credit(RolesOf(d), delivery[d].status)
    BY CreditIsNat
  <2>2. posts[d] + c <= Ceiling + crashes
    BY <1>4, <2>1 DEF Tried
  <2> QED BY <1>1, <2>2, CeilingIsNat
<1>5. CASE delivery[d].status \notin {"none", "removed"} /\ ~(delivery[d].attempt + 1 >= MaxAttempts)
  <2>1. PICK h \in Nat : h = Cardinality(InHand(d)) /\ h <= R
    <3>1. InHand(d) \in SUBSET Replicas
      BY InHandFinite
    <3> QED BY <3>1, SizeAssumption, FS_Subset, FS_CardinalityType DEF R
  <2>2. posts[d] = delivery[d].attempt + forgotten[d] + h
    BY <1>5, <2>1 DEF AttemptsCounted
  <2>3. R \in Nat /\ R <= R * R
    BY ReplicasCounted, SquareAbove
  <2>4. PICK q \in Nat : q = R * R /\ R <= q /\ Ceiling = (MaxAttempts - 1) + q
    BY <2>3, CeilingIsNat
  <2>5. forgotten[d] <= crashes
    BY DEF Tried
  <2> QED BY <1>1, <1>5, <2>1, <2>2, <2>3, <2>4, <2>5, CeilingIsNat
<1> QED BY <1>2, <1>3, <1>4, <1>5

LEMMA TriedKept ==
    ASSUME HookInv, NEW d \in Deliveries, Tried(d), RolesOf(d)' = RolesOf(d),
           delivery'[d].status = delivery[d].status, delivery'[d].attempt = delivery[d].attempt,
           posts'[d] = posts[d], forgotten'[d] = forgotten[d], crashes' \in {crashes, crashes + 1}
    PROVE  Tried(d)'
<1>1. /\ posts[d] \in Nat /\ forgotten[d] \in Nat /\ crashes \in Nat
      /\ delivery[d].attempt \in Nat /\ crashes' \in Nat /\ crashes <= crashes'
  BY DEF HookInv, HookTypeOK, HistoryOK, RowTypeOK
<1>2. PICK c \in Nat : c = Credit(RolesOf(d), delivery[d].status)
  BY CreditIsNat
<1>3. Credit(RolesOf(d)', delivery'[d].status) = c
  BY <1>2
<1>4. ASSUME delivery'[d].status \notin {"none", "removed"}, delivery'[d].attempt + 1 >= MaxAttempts
      PROVE  posts'[d] + c <= Ceiling + crashes'
  <2>1. posts[d] + c <= Ceiling + crashes
    BY <1>2, <1>4 DEF Tried
  <2> QED BY <1>1, <2>1, CeilingIsNat
<1>5. delivery'[d].status = "removed" => posts'[d] <= Ceiling + crashes'
  BY <1>1, CeilingIsNat DEF Tried
<1>6. forgotten'[d] <= crashes'
  BY <1>1 DEF Tried
<1> QED BY <1>3, <1>4, <1>5, <1>6 DEF Tried

LEMMA RowsTried ==
    ASSUME HookInv, NEW d \in Deliveries, Tried(d),
           \/ \E e \in Events : Notify(e) \/ Insert(e) \/ QueueFails(e)
           \/ \E s \in Subscriptions : Unsubscribe(s)
           \/ Tick \/ UNCHANGED vars
    PROVE  Tried(d)'
<1> USE DEF HookInv, HookTypeOK, RowTypeOK
<1>1. UNCHANGED <<pass, posts, forgotten, crashes>>
  BY DEF Notify, Insert, QueueFails, Unsubscribe, Tick, vars, history
<1>2. RolesOf(d)' = RolesOf(d)
  BY <1>1 DEF RolesOf, Role
<1>3. CASE delivery'[d].status = delivery[d].status /\ delivery'[d].attempt = delivery[d].attempt
  BY <1>1, <1>2, <1>3, TriedKept
<1>4. ASSUME NEW e \in Events, Insert(e) PROVE Tried(d)'
  <2> DEFINE s == Min(task[e].left)
  <2>1. CASE task[e].left # {} /\ Exists(s) /\ d = <<e, s>>
    <3>1. task[e].left \in SUBSET Nat
      BY SizeAssumption
    <3>2. s \in task[e].left
      BY <2>1, <3>1, LeastOfSome
    <3>3. delivery[d].status = "none" /\ posts[d] = 0 /\ forgotten[d] = 0
      BY <2>1, <3>2 DEF ToInsert, Fresh
    <3>4. delivery'[d] = NewRow
      BY <1>4, <2>1 DEF Insert
    <3>5. RolesOf(d) \in [Replicas -> {"free"}]
      <4>1. ASSUME NEW r \in Replicas PROVE Role(r, d) = "free"
        <5>1. \A x \in pass[r].read : x.d # d
          BY <3>3 DEF ReadIsOld, Older
        <5>2. ~(pass[r].pc = "record" /\ pass[r].at[1].d = d)
          BY <3>3 DEF ReadIsOld, Older
        <5> QED BY <5>1, <5>2 DEF Role
      <4> QED BY <4>1 DEF RolesOf
    <3>6. PICK c \in Nat, q \in Nat : c = Credit(RolesOf(d), "pending") /\ q = R * R
      BY CreditIsNat, CeilingIsNat
    <3>7. c <= q
      BY <3>5, <3>6, AllFree
    <3>8. 0 + c <= Ceiling + crashes /\ 0 <= crashes
      BY <3>6, <3>7, CeilingIsNat DEF HistoryOK
    <3>9. delivery'[d].status = "pending"
      BY <3>4 DEF NewRow
    <3> QED BY <1>1, <1>2, <3>3, <3>6, <3>8, <3>9 DEF Tried
  <2>2. CASE ~(task[e].left # {} /\ Exists(s) /\ d = <<e, s>>)
    <3>1. delivery'[d] = delivery[d]
      BY <1>4, <2>2 DEF Insert, Ends
    <3> QED BY <1>3, <3>1
  <2> QED BY <2>1, <2>2
<1>5. ASSUME NEW s \in Subscriptions, Unsubscribe(s) PROVE Tried(d)'
  <2>1. CASE d[2] = s /\ delivery[d].status # "none"
    <3>1. delivery'[d].status = "removed"
      BY <1>5, <2>1 DEF Unsubscribe
    <3> QED BY <1>1, <3>1, BoundNow DEF Tried
  <2>2. CASE ~(d[2] = s /\ delivery[d].status # "none")
    <3>1. delivery'[d] = delivery[d]
      BY <1>5, <2>2 DEF Unsubscribe
    <3> QED BY <1>3, <3>1
  <2> QED BY <2>1, <2>2
<1>6. CASE Tick
  <2>1. delivery'[d].status = delivery[d].status /\ delivery'[d].attempt = delivery[d].attempt
    BY <1>6 DEF Tick
  <2> QED BY <1>3, <2>1
<1>7. ASSUME NEW e \in Events, Notify(e) \/ QueueFails(e) PROVE Tried(d)'
  BY <1>3, <1>7 DEF Notify, QueueFails, Ends, rows
<1>8. CASE UNCHANGED vars
  BY <1>3, <1>8 DEF vars, rows
<1> QED BY <1>4, <1>5, <1>6, <1>7, <1>8

LEMMA ReadTried ==
    ASSUME HookInv, NEW d \in Deliveries, Tried(d), NEW r \in Replicas, Distinct(r), ReadDue(r)
    PROVE  Tried(d)'
<1> USE DEF HookInv, HookTypeOK
<1> DEFINE new == {[d |-> x, attempt |-> delivery[x].attempt] : x \in {y \in Deliveries : Due(y)}}
<1>1. /\ pass' = [pass EXCEPT ![r] = [Resting EXCEPT !.pc = "next", !.read = new]]
      /\ pass[r].pc = "idle" /\ pass[r].read = {}
      /\ UNCHANGED <<delivery, posts, forgotten, crashes>>
  BY DEF ReadDue, Become, rows, history, Distinct
<1>2. /\ \A x \in new : Due(x.d) /\ x.attempt = delivery[x.d].attempt
      /\ Due(d) => [d |-> d, attempt |-> delivery[d].attempt] \in new
  OBVIOUS
<1> HIDE DEF new
<1>3. /\ pass'[r] = [pc |-> "next", read |-> new, at |-> <<>>]
      /\ \A q \in Replicas \ {r} : pass'[q] = pass[q]
  BY <1>1, StartedPass DEF PassOK
<1>4. Role(r, d) = "free"
  BY <1>1 DEF Role
<1>5. CASE ~Due(d)
  <2>1. Role(r, d)' = "free"
    BY <1>2, <1>3, <1>5 DEF Role
  <2>2. RolesOf(d)' = RolesOf(d)
    BY <1>3, <1>4, <2>1, RolesStay
  <2> QED BY <1>1, <2>2, TriedKept
<1>6. CASE Due(d)
  <2> DEFINE f == RolesOf(d)
  <2>1. delivery[d].status = "pending" /\ delivery[d].attempt \in Nat
    BY <1>6 DEF Due, RowTypeOK
  <2>2. ASSUME delivery[d].attempt + 1 >= MaxAttempts
        PROVE  posts'[d] + Credit(f', delivery'[d].status) <= Ceiling + crashes'
    <3>1. \A x \in new : x.d = d => ~Stale(x)
      BY <1>2, <2>1, <2>2, CeilingIsNat DEF Stale
    <3>2. Role(r, d)' = "read"
      <4>1. \E x \in new : x.d = d
        BY <1>2, <1>6
      <4>2. pass'[r].pc = "next" /\ pass'[r].read = new
        BY <1>3
      <4>3. ~ \E x \in new : x.d = d /\ Stale(x)
        BY <3>1
      <4> QED BY <4>1, <4>2, <4>3 DEF Role, Stale
    <3>3. f' = [f EXCEPT ![r] = "read"]
      BY <1>3, <3>2, RolesMove
    <3>4. f \in [Replicas -> Roles] /\ f[r] = "free"
      BY <1>4, RolesTyped DEF RolesOf
    <3> HIDE DEF f
    <3>5. Credit([f EXCEPT ![r] = "read"], "pending") = Credit(f, "pending")
      BY <3>4, CreditSpent
    <3>6. posts[d] + Credit(f, "pending") <= Ceiling + crashes
      BY <2>1, <2>2 DEF Tried, f
    <3> QED BY <1>1, <2>1, <3>3, <3>5, <3>6
  <2> QED BY <1>1, <2>1, <2>2 DEF Tried
<1> QED BY <1>5, <1>6

LEMMA PostTried ==
    ASSUME HookInv, NEW d \in Deliveries, Tried(d), NEW r \in Replicas, Distinct(r), Post(r)
    PROVE  Tried(d)'
<1> USE DEF HookInv, HookTypeOK
<1> DEFINE f == RolesOf(d)
<1>1. PICK x \in pass[r].read :
        \/ /\ ~Exists(x.d[2])
           /\ Become(r, Onward(pass[r].read \ {x}))
           /\ UNCHANGED posts
        \/ /\ Exists(x.d[2])
           /\ posts' = [posts EXCEPT ![x.d] = @ + 1]
           /\ Become(r, [pc |-> "record", read |-> pass[r].read \ {x}, at |-> <<x>>])
  BY DEF Post
<1>2. pass[r].pc = "next" /\ UNCHANGED <<delivery, forgotten, crashes>>
  BY DEF Post, rows
<1>3. x \in Reading /\ x.d \in Deliveries /\ Older(x)
  BY PassTypes DEF Reading, ReadIsOld
<1>4. \A y \in pass[r].read : y.d = x.d => y = x
  BY DEF Distinct
<1>5. CASE ~Exists(x.d[2]) /\ Become(r, Onward(pass[r].read \ {x})) /\ UNCHANGED posts
  <2>1. pass'[r].read = pass[r].read \ {x} /\ pass'[r].pc # "record"
        /\ \A q \in Replicas \ {r} : pass'[q] = pass[q]
    BY <1>5 DEF Become, PassOK, Onward, Resting
  <2>2. CASE d = x.d
    <3>1. delivery[d].status = "removed"
      BY <1>3, <1>5, <2>2 DEF ForeignKey, Older
    <3> QED BY <1>2, <1>5, <3>1 DEF Tried
  <2>3. CASE d # x.d
    <3>1. Role(r, d)' = Role(r, d)
      BY <1>2, <2>1, <2>3 DEF Role, Stale
    <3>2. f' = f
      BY <2>1, <3>1, RolesStay
    <3> QED BY <1>2, <1>5, <3>2, TriedKept
  <2> QED BY <2>2, <2>3
<1>6. CASE /\ Exists(x.d[2])
           /\ posts' = [posts EXCEPT ![x.d] = @ + 1]
           /\ Become(r, [pc |-> "record", read |-> pass[r].read \ {x}, at |-> <<x>>])
  <2>1. /\ pass'[r] = [pc |-> "record", read |-> pass[r].read \ {x}, at |-> <<x>>]
        /\ \A q \in Replicas \ {r} : pass'[q] = pass[q]
    BY <1>6 DEF Become, PassOK
  <2>2. CASE d # x.d
    <3>1. Role(r, d)' = Role(r, d)
      BY <1>2, <2>1, <2>2 DEF Role, Stale
    <3>2. f' = f
      BY <2>1, <3>1, RolesStay
    <3>3. posts'[d] = posts[d]
      BY <1>6, <2>2 DEF HistoryOK
    <3> QED BY <1>2, <3>2, <3>3, TriedKept
  <2>3. CASE d = x.d
    <3>1. posts'[d] = posts[d] + 1 /\ posts[d] \in Nat
      BY <1>6, <2>3 DEF HistoryOK
    <3>2. /\ f[r] = IF Stale(x) THEN "stale_read" ELSE "read"
          /\ Role(r, d)' = IF Stale(x) THEN "stale_hand" ELSE "hand"
      <4>1. Role(r, d) = IF Stale(x) THEN "stale_read" ELSE "read"
        BY <1>2, <1>4, <2>3 DEF Role
      <4>2. pass'[r].pc = "record" /\ pass'[r].at[1] = x
        BY <2>1
      <4> QED BY <2>3, <4>1, <4>2 DEF Role, RolesOf, Stale
    <3>3. f' = [f EXCEPT ![r] = Role(r, d)'] /\ f \in [Replicas -> Roles]
      BY <2>1, RolesMove, RolesTyped
    <3> DEFINE status == delivery[d].status
    <3>4. Credit(f', status) = Credit(f, status) - 1
      <4>1. f[r] = "stale_read" =>
              Credit([f EXCEPT ![r] = "stale_hand"], status) = Credit(f, status) - 1
        BY <3>3, CreditSpent
      <4>2. f[r] = "read" => Credit([f EXCEPT ![r] = "hand"], status) = Credit(f, status) - 1
        BY <3>3, CreditSpent
      <4> QED BY <3>2, <3>3, <4>1, <4>2
    <3>5. ASSUME delivery[d].status \notin {"none", "removed"}, delivery[d].attempt + 1 >= MaxAttempts
          PROVE  posts'[d] + Credit(f', delivery'[d].status) <= Ceiling + crashes'
      <4>1. PICK c \in Nat : c = Credit(f, status)
        BY CreditIsNat
      <4>2. posts[d] + c <= Ceiling + crashes
        BY <3>5, <4>1 DEF Tried
      <4>3. crashes \in Nat
        BY DEF HistoryOK
      <4>4. Credit(f', delivery'[d].status) = c - 1
        BY <1>2, <3>4, <4>1
      <4> QED BY <1>2, <3>1, <4>1, <4>2, <4>3, <4>4, CeilingIsNat
    <3>6. ASSUME delivery[d].status = "removed" PROVE FALSE
      BY <1>3, <1>6, <2>3, <3>6 DEF ForeignKey
    <3> QED BY <1>2, <3>5, <3>6 DEF Tried
  <2> QED BY <2>2, <2>3
<1> QED BY <1>1, <1>5, <1>6

(* The role a replica leaves when it goes on from what it has recorded, or  *)
(* drops what it holds.                                                     *)
LEMMA RoleLeft ==
    ASSUME HookInv, NEW d \in Deliveries, NEW r \in Replicas,
           NEW read \in SUBSET pass[r].read, pass' = [pass EXCEPT ![r] = Onward(read)]
    PROVE  /\ \A q \in Replicas \ {r} : pass'[q] = pass[q]
           /\ pass'[r].read = read /\ pass'[r].pc # "record"
           /\ (\A x \in read : x.d # d) => Role(r, d)' = "free"
<1>1. pass'[r] = Onward(read) /\ \A q \in Replicas \ {r} : pass'[q] = pass[q]
  BY DEF HookInv, HookTypeOK, PassOK
<1>2. Onward(read).read = read /\ Onward(read).pc # "record"
  <2>1. Onward(read).pc = IF read = {} THEN "idle" ELSE "next"
    BY DEF Onward, Resting
  <2>2. Onward(read).read = read
    BY DEF Onward, Resting
  <2> QED BY <2>1, <2>2
<1>3. pass'[r].read = read /\ pass'[r].pc # "record"
  BY <1>1, <1>2
<1> QED BY <1>1, <1>3 DEF Role

(* Before the attempts run out every reading is stale, and those in hand    *)
(* are counted.                                                             *)
LEMMA AllStale ==
    ASSUME HookInv, NEW d \in Deliveries, delivery[d].attempt + 1 < MaxAttempts
    PROVE  /\ RolesOf(d) \in [Replicas -> {"free", "stale_read", "stale_hand"}]
           /\ Cardinality(InHand(d)) = Count(RolesOf(d), "stale_hand")
<1> USE DEF HookInv, HookTypeOK
<1>1. ASSUME NEW r \in Replicas
      PROVE  /\ \A x \in pass[r].read : x.d = d => Stale(x)
             /\ pass[r].pc = "record" /\ pass[r].at[1].d = d => Stale(pass[r].at[1])
  <2>1. ASSUME NEW x \in Reading, Older(x), x.d = d PROVE Stale(x)
    BY <2>1, CeilingIsNat DEF Stale, Older, Reading, RowTypeOK
  <2>2. pass[r].pc = "record" => pass[r].at[1] \in Reading
    BY PassTypes
  <2> QED BY <2>1, <2>2, PassTypes DEF ReadIsOld
<1>2. ASSUME NEW r \in Replicas
      PROVE  /\ Role(r, d) \in {"free", "stale_read", "stale_hand"}
             /\ Role(r, d) = "stale_hand" <=> r \in InHand(d)
  BY <1>1 DEF Role, InHand
<1>3. InHand(d) = {r \in Replicas : RolesOf(d)[r] = "stale_hand"}
  BY <1>2 DEF InHand, RolesOf
<1> QED BY <1>2, <1>3 DEF RolesOf, Count

LEMMA RecordTried ==
    ASSUME HookInv, NEW d \in Deliveries, Tried(d), NEW r \in Replicas, Distinct(r), Record(r)
    PROVE  Tried(d)'
<1> USE DEF HookInv, HookTypeOK
<1> DEFINE f == RolesOf(d)
<1>1. PICK x \in Reading : pass[r].at = <<x>> /\ pass[r].at[1] = x
  BY PassTypes DEF Record
<1>2. /\ pass[r].pc = "record" /\ pass' = [pass EXCEPT ![r] = Onward(pass[r].read)]
      /\ UNCHANGED <<posts, forgotten, crashes>>
  BY DEF Record, Become, history
<1>3. x.d \in Deliveries /\ x.attempt \in Nat /\ Older(x)
  BY <1>1, <1>2 DEF Reading, ReadIsOld
<1>4. /\ \A q \in Replicas \ {r} : pass'[q] = pass[q]
      /\ pass'[r].read = pass[r].read /\ pass'[r].pc # "record"
      /\ (\A y \in pass[r].read : y.d # d) => Role(r, d)' = "free"
  BY <1>2, RoleLeft
<1>5. CASE d # x.d
  <2>1. Role(r, d)' = Role(r, d)
    BY <1>1, <1>4, <1>5 DEF Role, Stale
  <2>2. f' = f
    BY <1>4, <2>1, RolesStay
  <2>3. delivery'[d] = delivery[d]
    BY <1>1, <1>3, <1>5 DEF Record, rows, RowTypeOK
  <2> QED BY <1>2, <2>2, <2>3, TriedKept
<1>6. CASE d = x.d /\ ~Exists(x.d[2])
  <2>1. UNCHANGED delivery /\ delivery[d].status = "removed"
    BY <1>1, <1>3, <1>6 DEF Record, rows, ForeignKey, Older
  <2> QED BY <1>2, <2>1 DEF Tried
<1>7. CASE d = x.d /\ Exists(x.d[2])
  <2>1. PICK outcome \in {"delivered", retry_or_fail(x.attempt)} :
          delivery' = [delivery EXCEPT ![x.d] = Attempted(x, outcome)]
    BY <1>1, <1>7 DEF Record
  <2>2. outcome \in {"delivered", "failed", "pending"} /\ (outcome = "pending" => Stale(x))
    BY <1>3, CeilingIsNat DEF retry_or_fail, Stale
  <2>3. delivery'[d].status = outcome /\ delivery'[d].attempt = delivery[d].attempt + 1
    BY <1>3, <1>7, <2>1 DEF RowTypeOK, Attempted, Attempt
  <2>4. delivery[d].status \notin {"none", "removed"}
    BY <1>3, <1>7 DEF ForeignKey, Older
  <2>5. Role(r, d)' = "free"
    BY <1>1, <1>2, <1>4, <1>7 DEF Distinct
  <2> DEFINE g == [f EXCEPT ![r] = "free"]
  <2>6. f' = g /\ f \in [Replicas -> Roles]
    BY <1>4, <2>5, RolesMove, RolesTyped
  <2>7. f[r] = IF Stale(x) THEN "stale_hand" ELSE "hand"
    BY <1>1, <1>2, <1>7 DEF RolesOf, Role
  <2>8. /\ posts[d] \in Nat /\ forgotten[d] \in Nat /\ crashes \in Nat
        /\ delivery[d].attempt \in Nat /\ forgotten[d] <= crashes
    BY DEF HistoryOK, RowTypeOK, Tried
  <2>9. CASE delivery[d].attempt + 1 >= MaxAttempts
    <3>1. outcome # "pending" \/ f[r] = "stale_hand"
      BY <2>2, <2>7
    <3>2. Credit(g, outcome) <= Credit(f, delivery[d].status)
      BY <2>6, <3>1, CreditSpent
    <3>3. PICK b \in Nat, c \in Nat :
            b = Credit(g, outcome) /\ c = Credit(f, delivery[d].status)
      BY CreditIsNat
    <3>4. posts[d] + c <= Ceiling + crashes
      BY <2>4, <2>9, <3>3 DEF Tried
    <3>5. posts[d] + b <= Ceiling + crashes
      BY <2>8, <3>2, <3>3, <3>4, CeilingIsNat
    <3>6. Credit(f', delivery'[d].status) = b
      BY <2>3, <2>6, <3>3
    <3> QED BY <1>2, <2>2, <2>3, <2>8, <3>5, <3>6 DEF Tried
  <2>10. CASE delivery[d].attempt + 1 < MaxAttempts /\ delivery[d].attempt + 2 >= MaxAttempts
    <3>1. /\ f \in [Replicas -> {"free", "stale_read", "stale_hand"}]
          /\ Cardinality(InHand(d)) = Count(f, "stale_hand")
      BY <2>10, AllStale
    <3>2. f[r] = "stale_hand"
      BY <2>7, <3>1
    <3>3. g \in [Replicas -> {"free", "stale_read", "stale_hand"}] /\ g[r] = "free"
      BY <3>1
    <3>4. Count(g, "stale_hand") = Count(f, "stale_hand") - 1
      <4>1. "free" \in Roles /\ f[r] # "free"
        BY <3>2 DEF Roles
      <4>2. Count(g, f[r]) = Count(f, f[r]) - 1
        BY <2>6, <4>1, OneRoleChanges
      <4> QED BY <3>2, <4>2
    <3>5. Credit(g, outcome) + Count(g, "stale_hand") <= R * R
      BY <3>3, StartsBelow
    <3> HIDE DEF g
    <3>6. PICK b \in Nat, h \in Nat, q \in Nat :
            /\ b = Credit(g, outcome) /\ h = Count(f, "stale_hand") /\ q = R * R
            /\ Ceiling = (MaxAttempts - 1) + q
      BY CreditIsNat, ReplicasCounted, CeilingIsNat
    <3>7. posts[d] = delivery[d].attempt + forgotten[d] + h
      BY <2>4, <3>1, <3>6 DEF AttemptsCounted
    <3>8. b + (h - 1) <= q
      BY <3>4, <3>5, <3>6
    <3>9. posts[d] + b <= Ceiling + crashes
      BY <2>8, <2>10, <3>6, <3>7, <3>8, CeilingIsNat
    <3>10. Credit(f', delivery'[d].status) = b
      BY <2>3, <2>6, <3>6
    <3> QED BY <1>2, <2>2, <2>3, <2>8, <3>9, <3>10 DEF Tried
  <2>11. CASE delivery[d].attempt + 2 < MaxAttempts
    <3>1. ~(delivery'[d].attempt + 1 >= MaxAttempts)
      BY <2>3, <2>8, <2>11, CeilingIsNat
    <3> QED BY <1>2, <2>2, <2>3, <2>8, <3>1 DEF Tried
  <2> QED BY <2>8, <2>9, <2>10, <2>11, CeilingIsNat
<1> QED BY <1>5, <1>6, <1>7

LEMMA CutTried ==
    ASSUME HookInv, NEW d \in Deliveries, Tried(d), NEW r \in Replicas, CutShort(r)
    PROVE  Tried(d)'
<1> USE DEF HookInv, HookTypeOK
<1> DEFINE f == RolesOf(d)
<1>1. /\ pass' = [pass EXCEPT ![r] = Onward({})] /\ crashes' = crashes + 1
      /\ UNCHANGED <<delivery, posts>>
  BY DEF CutShort, Become, Onward, Resting, rows
<1>2. /\ \A q \in Replicas \ {r} : pass'[q] = pass[q]
      /\ Role(r, d)' = "free"
  BY <1>1, RoleLeft
<1>3. f' = [f EXCEPT ![r] = "free"] /\ f \in [Replicas -> Roles]
  BY <1>2, RolesMove, RolesTyped
<1>4. /\ posts[d] \in Nat /\ crashes \in Nat /\ forgotten[d] \in Nat
      /\ forgotten'[d] \in {forgotten[d], forgotten[d] + 1}
  BY DEF HistoryOK, CutShort
<1>5. forgotten'[d] <= crashes'
  BY <1>1, <1>4 DEF Tried
<1>6. ASSUME delivery[d].status \notin {"none", "removed"}, delivery[d].attempt + 1 >= MaxAttempts
      PROVE  posts'[d] + Credit(f', delivery'[d].status) <= Ceiling + crashes'
  <2> DEFINE status == delivery[d].status
             g == [f EXCEPT ![r] = "free"]
  <2>1. Credit(g, status) <= Credit(f, status) + 1
    BY <1>3, CreditSpent
  <2>2. PICK b \in Nat, c \in Nat : b = Credit(g, status) /\ c = Credit(f, status)
    BY CreditIsNat
  <2>3. posts[d] + c <= Ceiling + crashes
    BY <1>6, <2>2 DEF Tried
  <2>4. posts[d] + b <= Ceiling + (crashes + 1)
    BY <1>4, <2>1, <2>2, <2>3, CeilingIsNat
  <2>5. Credit(f', delivery'[d].status) = b
    BY <1>1, <1>3, <2>2
  <2> QED BY <1>1, <2>4, <2>5
<1>7. delivery[d].status = "removed" => posts'[d] <= Ceiling + crashes'
  BY <1>1, <1>4, CeilingIsNat DEF Tried
<1> QED BY <1>1, <1>5, <1>6, <1>7 DEF Tried

LEMMA TriedStep ==
    ASSUME HookInv, [Next]_vars, NEW d \in Deliveries, Tried(d), \A r \in Replicas : Distinct(r)
    PROVE  Tried(d)'
<1>1. ASSUME NEW r \in Replicas, Pass(r) \/ CutShort(r) PROVE Tried(d)'
  BY <1>1, ReadTried, PostTried, RecordTried, CutTried DEF Pass
<1> QED BY <1>1, RowsTried DEF Next

(* A delivery is requested no more than MaxAttempts times, but once for     *)
(* each pass cut short, once for each row that another replica had read too *)
(* early, and once for each that such a reading reopened; and it is not     *)
(* given up before (webhooks.rs, deliver_due and retry_or_fail).            *)
THEOREM TriesAreBounded == Spec => []TriesBounded
<1> DEFINE Inv == HookInv /\ (\A r \in Replicas : Distinct(r)) /\ (\A d \in Deliveries : Tried(d))
<1>1. Init => (\A r \in Replicas : Distinct(r)) /\ (\A d \in Deliveries : Tried(d))
  <2> SUFFICES ASSUME Init
               PROVE  (\A r \in Replicas : Distinct(r)) /\ (\A d \in Deliveries : Tried(d))
    OBVIOUS
  <2>1. \A r \in Replicas : pass[r] = Resting
    BY DEF Init
  <2>2. \A d \in Deliveries : delivery[d].status = "none" /\ forgotten[d] = 0 /\ crashes = 0
    BY DEF Init, NewRow
  <2> QED BY <2>1, <2>2 DEF Distinct, Tried, Resting
<1>2. Inv /\ [Next]_vars => Inv'
  BY StepHook, DistinctStep, TriedStep
<1>3. Inv => TriesBounded
  <2> SUFFICES ASSUME Inv, NEW d \in Deliveries
               PROVE  /\ delivery[d].status = "failed" => posts[d] >= MaxAttempts
                      /\ posts[d] <= MaxAttempts + crashes + (R - 1) * (R + 1)
    BY DEF TriesBounded, R
  <2>1. posts[d] <= Ceiling + crashes
    BY BoundNow
  <2>2. PICK r \in Nat, q \in Nat : r = R /\ q = R * R
    BY ReplicasCounted, SquareAbove
  <2>3. (R - 1) * (R + 1) = q - 1
    <3>1. (r - 1) * (r + 1) = r * r - 1
      OBVIOUS
    <3> QED BY <2>2, <3>1
  <2>4. posts[d] \in Nat /\ crashes \in Nat
    BY DEF HookInv, HookTypeOK, HistoryOK
  <2>5. Ceiling = (MaxAttempts - 1) + q
    BY <2>2, CeilingIsNat
  <2>6. posts[d] <= MaxAttempts + crashes + (R - 1) * (R + 1)
    BY <2>1, <2>2, <2>3, <2>4, <2>5, CeilingIsNat
  <2>7. delivery[d].status = "failed" => posts[d] >= MaxAttempts
    BY GivenUpWasTried
  <2> QED BY <2>6, <2>7
<1> QED BY <1>1, <1>2, <1>3, InitHook, PTL DEF Spec
=============================================================================
