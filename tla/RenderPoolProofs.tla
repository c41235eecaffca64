--------------------------- MODULE RenderPoolProofs -------------------------
(***************************************************************************)
(* For any number of callers and threads and any bound of the queue: the    *)
(* depth never drifts, no wake-up is lost, and the pool's steps are those   *)
(* of a one-shot future.                                                    *)
(***************************************************************************)
EXTENDS RenderPool, FiniteSetTheorems, TLAPS

Counted == {c \in Callers : task[c] \in {"queued", "running"}}

(* What a slot's parts say of each other.                                   *)
Started(c) == task[c] # "none" <=> caller[c] # "new" /\ c \notin refused
RefusedIsDone(c) == c \in refused => caller[c] = "done"
LockIsHeld(c) == locked[c] <=> caller[c] = "store"
FilledIsThere(c) ==
    /\ value[c] # "none" => task[c] \in {"filled", "waking", "over"}
    /\ caller[c] \in {"poll", "parked"} /\ task[c] \in {"filled", "waking", "over"}
         => value[c] # "none"
    /\ caller[c] = "store" => task[c] \notin {"filled", "waking", "over"}
WakerIsTaken(c) == task[c] \in {"waking", "over"} => ~waker[c]
WakeIsComing(c) == caller[c] = "parked" => waker[c] \/ task[c] = "waking" \/ woken[c]

Slot(c) ==
    Started(c) /\ RefusedIsDone(c) /\ LockIsHeld(c) /\ FilledIsThere(c)
      /\ WakerIsTaken(c) /\ WakeIsComing(c)

PoolInv == TypeOK /\ DepthIsWork /\ \A c \in Callers : Slot(c)

-----------------------------------------------------------------------------
(* Counted loses or gains one caller at a time.                             *)
LEMMA CountedFinite == PoolInv => IsFiniteSet(Counted)
BY PoolAssumption, FS_Subset DEF Counted

LEMMA InitPool == Init => PoolInv
<1> SUFFICES ASSUME Init PROVE PoolInv
  OBVIOUS
<1>1. TypeOK
  BY PoolAssumption DEF Init, TypeOK, Answers
<1>2. DepthIsWork
  <2>1. {c \in Callers : task[c] \in {"queued", "running"}} = {}
    BY DEF Init
  <2> QED BY <2>1, FS_EmptySet DEF DepthIsWork, Init
<1>3. \A c \in Callers : Slot(c)
  BY DEF Init, Slot, Started, RefusedIsDone, LockIsHeld, FilledIsThere, WakerIsTaken,
         WakeIsComing
<1> QED BY <1>1, <1>2, <1>3 DEF PoolInv

-----------------------------------------------------------------------------
(* The depth: steps that leave tasks counted as they are keep it, a submit  *)
(* adds one and a count-out removes one.                                    *)
LEMMA DepthKept ==
    ASSUME PoolInv, UNCHANGED depth,
           \A c \in Callers : task'[c] \in {"queued", "running"}
                                <=> task[c] \in {"queued", "running"}
    PROVE  DepthIsWork'
<1>1. {c \in Callers : task[c] \in {"queued", "running"}}
        = {c \in Callers : task'[c] \in {"queued", "running"}}
  OBVIOUS
<1> QED BY <1>1 DEF PoolInv, DepthIsWork

LEMMA SubmitDepth ==
    ASSUME PoolInv, NEW c \in Callers, Submit(c)
    PROVE  DepthIsWork' /\ depth' \in 0..Queue
<1>1. CASE Full
  <2>1. UNCHANGED <<depth, task>>
    BY <1>1 DEF Submit
  <2> QED BY <2>1, DepthKept DEF PoolInv, TypeOK
<1>2. CASE ~Full
  <2>1. /\ depth' = depth + 1 /\ task' = [task EXCEPT ![c] = "queued"]
        /\ caller[c] = "new"
    BY <1>2 DEF Submit, Set
  <2>2. c \notin Counted
    BY <2>1 DEF PoolInv, Slot, Started, Counted
  <2>3. {d \in Callers : task'[d] \in {"queued", "running"}} = Counted \cup {c}
    BY <2>1 DEF Counted, PoolInv, TypeOK
  <2>4. Cardinality(Counted \cup {c}) = Cardinality(Counted) + 1
    BY <2>2, CountedFinite, FS_AddElement
  <2>5. depth = Cardinality(Counted)
    BY DEF PoolInv, DepthIsWork, Counted
  <2>6. depth' \in 0..Queue
    BY <1>2, <2>1, PoolAssumption DEF Full, PoolInv, TypeOK
  <2> QED BY <2>1, <2>3, <2>4, <2>5, <2>6 DEF DepthIsWork
<1> QED BY <1>1, <1>2

LEMMA CountOutDepth ==
    ASSUME PoolInv, NEW c \in Callers, CountOut(c)
    PROVE  DepthIsWork' /\ depth' \in 0..Queue
<1>1. c \in Counted /\ task' = [task EXCEPT ![c] = "counted"]
  BY DEF CountOut, Counted, Set
<1>2. {d \in Callers : task'[d] \in {"queued", "running"}} = Counted \ {c}
  BY <1>1 DEF Counted, PoolInv, TypeOK
<1>3. depth = Cardinality(Counted)
  BY DEF PoolInv, DepthIsWork, Counted
<1>4. Cardinality(Counted \ {c}) = Cardinality(Counted) - 1 /\ depth \in Nat
  BY <1>1, <1>3, CountedFinite, FS_RemoveElement, FS_CardinalityType
<1>5. depth # 0
  BY <1>1, <1>3, CountedFinite, FS_EmptySet
<1>6. depth' = depth - 1
  BY <1>5 DEF CountOut
<1>7. depth' \in 0..Queue
  BY <1>4, <1>5, <1>6, PoolAssumption DEF PoolInv, TypeOK
<1> QED BY <1>2, <1>3, <1>4, <1>6, <1>7 DEF DepthIsWork

-----------------------------------------------------------------------------
(* Every step keeps the invariant: one step of the proof per action.        *)
LEMMA StepPool == PoolInv /\ [Next]_vars => PoolInv'
<1> SUFFICES ASSUME PoolInv, [Next]_vars PROVE PoolInv'
  OBVIOUS
<1> USE DEF Slot, Started, RefusedIsDone, LockIsHeld, FilledIsThere, WakerIsTaken, WakeIsComing
<1>1. ASSUME NEW c \in Callers, Submit(c) PROVE PoolInv'
  <2>1. TypeOK'
    BY <1>1, SubmitDepth DEF PoolInv, TypeOK, Submit, Set, slots, Answers
  <2>2. \A d \in Callers : Slot(d)'
    BY <1>1 DEF PoolInv, TypeOK, Submit, Set, slots
  <2> QED BY <1>1, <2>1, <2>2, SubmitDepth DEF PoolInv
<1>2. ASSUME NEW c \in Callers, StartTask(c) PROVE PoolInv'
  <2>1. TypeOK' /\ DepthIsWork'
    BY <1>2, DepthKept DEF PoolInv, TypeOK, StartTask, Set, slots
  <2>2. \A d \in Callers : Slot(d)'
    BY <1>2 DEF PoolInv, TypeOK, StartTask, Set, slots
  <2> QED BY <2>1, <2>2 DEF PoolInv
<1>3. ASSUME NEW c \in Callers, CountOut(c) PROVE PoolInv'
  <2>1. TypeOK'
    BY <1>3, CountOutDepth DEF PoolInv, TypeOK, CountOut, Set, slots
  <2>2. \A d \in Callers : Slot(d)'
    BY <1>3 DEF PoolInv, TypeOK, CountOut, Set, slots
  <2> QED BY <1>3, <2>1, <2>2, CountOutDepth DEF PoolInv
<1>4. ASSUME NEW c \in Callers, FillValue(c) PROVE PoolInv'
  <2>1. TypeOK' /\ DepthIsWork'
    BY <1>4, DepthKept DEF PoolInv, TypeOK, FillValue, Set
  <2>2. \A d \in Callers : Slot(d)'
    BY <1>4 DEF PoolInv, TypeOK, FillValue, Set, Answers
  <2> QED BY <2>1, <2>2 DEF PoolInv
<1>5. ASSUME NEW c \in Callers, TakeWaker(c) PROVE PoolInv'
  <2>1. TypeOK' /\ DepthIsWork'
    BY <1>5, DepthKept DEF PoolInv, TypeOK, TakeWaker, Set
  <2>2. \A d \in Callers : Slot(d)'
    BY <1>5 DEF PoolInv, TypeOK, TakeWaker, Set
  <2> QED BY <2>1, <2>2 DEF PoolInv
<1>6. ASSUME NEW c \in Callers, Wake(c) PROVE PoolInv'
  <2>1. TypeOK' /\ DepthIsWork'
    BY <1>6, DepthKept DEF PoolInv, TypeOK, Wake, Set, slots
  <2>2. \A d \in Callers : Slot(d)'
    BY <1>6 DEF PoolInv, TypeOK, Wake, Set, slots
  <2> QED BY <2>1, <2>2 DEF PoolInv
<1>7. ASSUME NEW c \in Callers, Poll(c) PROVE PoolInv'
  <2>1. TypeOK' /\ DepthIsWork'
    BY <1>7, DepthKept DEF PoolInv, TypeOK, Poll, Set
  <2>2. \A d \in Callers : Slot(d)'
    BY <1>7 DEF PoolInv, TypeOK, Poll, Set
  <2> QED BY <2>1, <2>2 DEF PoolInv
<1>8. ASSUME NEW c \in Callers, StoreWaker(c) PROVE PoolInv'
  <2>1. TypeOK' /\ DepthIsWork'
    BY <1>8, DepthKept DEF PoolInv, TypeOK, StoreWaker, Set
  <2>2. \A d \in Callers : Slot(d)'
    BY <1>8 DEF PoolInv, TypeOK, StoreWaker, Set
  <2> QED BY <2>1, <2>2 DEF PoolInv
<1>9. ASSUME NEW c \in Callers, Resume(c) \/ PolledAnyway(c) \/ Drop(c) PROVE PoolInv'
  <2>1. TypeOK' /\ DepthIsWork'
    BY <1>9, DepthKept DEF PoolInv, TypeOK, Resume, PolledAnyway, Drop, Set, slots
  <2>2. \A d \in Callers : Slot(d)'
    BY <1>9 DEF PoolInv, TypeOK, Resume, PolledAnyway, Drop, Set, slots
  <2> QED BY <2>1, <2>2 DEF PoolInv
<1>10. CASE UNCHANGED vars
  BY <1>10 DEF vars, slots, PoolInv, TypeOK, DepthIsWork
<1> QED BY <1>1, <1>2, <1>3, <1>4, <1>5, <1>6, <1>7, <1>8, <1>9, <1>10 DEF Next, Work, Await

-----------------------------------------------------------------------------
(* Every variable keeps its type.                                           *)
THEOREM PoolTypeOK == Spec => []TypeOK
<1>1. PoolInv => TypeOK
  BY DEF PoolInv
<1> QED BY <1>1, InitPool, StepPool, PTL DEF Spec

(* The pool's depth is the work it has, whatever times out, overruns or is  *)
(* dropped, and it stays within the queue's bound (pool.rs, submit and      *)
(* the task).                                                               *)
THEOREM DepthNeverDrifts == Spec => []DepthIsWork
<1>1. PoolInv => DepthIsWork
  BY DEF PoolInv
<1> QED BY <1>1, InitPool, StepPool, PTL DEF Spec

(* No caller sleeps on an answer that has come: the lock that poll keeps    *)
(* while it stores its waker orders it before fill (pool.rs, poll, fill).   *)
THEOREM NoLostWakeup == Spec => []WakerInTime
<1>1. PoolInv => WakerInTime
  BY DEF PoolInv, WakerInTime, Slot, WakerIsTaken, WakeIsComing
<1> QED BY <1>1, InitPool, StepPool, PTL DEF Spec

-----------------------------------------------------------------------------
(* The step a caller sees: others see what they saw, ...                    *)
LEMMA OneSees ==
    ASSUME NEW c \in Callers,
           \A d \in Callers \ {c} :
             caller'[d] = caller[d] /\ answer'[d] = answer[d]
               /\ (d \in refused' <=> d \in refused)
    PROVE  Seen' = [Seen EXCEPT ![c] = SeenBy(c)']
<1>1. \A d \in Callers \ {c} : SeenBy(d)' = SeenBy(d)
  BY DEF SeenBy
<1> QED BY <1>1 DEF Seen

LEMMA InitSeen == Init => Future!Init
BY DEF Init, Future!Init, Seen, SeenBy

(* ... and it sees a step of a future.                                      *)
LEMMA SeenStep == PoolInv /\ [Next]_vars => [Future!Next]_Seen
<1> SUFFICES ASSUME PoolInv, [Next]_vars PROVE [Future!Next]_Seen
  OBVIOUS
<1>1. ASSUME NEW c \in Callers, Submit(c) PROVE Future!Accept(c) \/ Future!Refuse(c)
  <2>1. SeenBy(c) = "none" /\ SeenBy(c)' \in {"pending", "refused"}
    BY <1>1 DEF Submit, Set, PoolInv, TypeOK, SeenBy
  <2>2. Seen' = [Seen EXCEPT ![c] = SeenBy(c)']
    <3>1. \A d \in Callers \ {c} :
            caller'[d] = caller[d] /\ answer'[d] = answer[d]
              /\ (d \in refused' <=> d \in refused)
      BY <1>1 DEF Submit, Set, PoolInv, TypeOK
    <3> QED BY <3>1, OneSees
  <2>3. Seen[c] = SeenBy(c)
    BY DEF Seen
  <2> QED BY <2>1, <2>2, <2>3 DEF Future!Accept, Future!Refuse
<1>2. ASSUME NEW c \in Callers, Work(c) PROVE UNCHANGED Seen
  <2>1. \A d \in Callers : SeenBy(d)' = SeenBy(d)
    BY <1>2 DEF Work, StartTask, CountOut, FillValue, TakeWaker, Wake, SeenBy
  <2> QED BY <2>1 DEF Seen
<1>3. ASSUME NEW c \in Callers, Poll(c), value[c] # "none" PROVE Future!Resolve(c)
  <2>1. SeenBy(c) = "pending" /\ SeenBy(c)' \in Answers
    BY <1>3 DEF Poll, Set, PoolInv, TypeOK, Slot, RefusedIsDone, SeenBy
  <2>2. Seen' = [Seen EXCEPT ![c] = SeenBy(c)']
    <3>1. \A d \in Callers \ {c} :
            caller'[d] = caller[d] /\ answer'[d] = answer[d]
              /\ (d \in refused' <=> d \in refused)
      BY <1>3 DEF Poll, Set, PoolInv, TypeOK
    <3> QED BY <3>1, OneSees
  <2>3. Seen[c] = SeenBy(c)
    BY DEF Seen
  <2> QED BY <2>1, <2>2, <2>3 DEF Future!Resolve
<1>4. ASSUME NEW c \in Callers,
             \/ Poll(c) /\ value[c] = "none"
             \/ StoreWaker(c) \/ Resume(c) \/ PolledAnyway(c)
      PROVE  UNCHANGED Seen
  <2>1. caller[c] \in {"poll", "store", "parked"} /\ caller'[c] \in {"poll", "store", "parked"}
    BY <1>4 DEF Poll, StoreWaker, Resume, PolledAnyway, Set, PoolInv, TypeOK
  <2>2. /\ \A d \in Callers \ {c} : caller'[d] = caller[d]
        /\ UNCHANGED <<answer, refused>>
    BY <1>4 DEF Poll, StoreWaker, Resume, PolledAnyway, Set, PoolInv, TypeOK
  <2>3. \A d \in Callers : SeenBy(d)' = SeenBy(d)
    BY <2>1, <2>2 DEF SeenBy
  <2> QED BY <2>3 DEF Seen
<1>5. ASSUME NEW c \in Callers, Drop(c) PROVE Future!Drop(c)
  <2>1. SeenBy(c) = "pending" /\ SeenBy(c)' = "dropped"
    BY <1>5 DEF Drop, Set, PoolInv, TypeOK, SeenBy
  <2>2. Seen' = [Seen EXCEPT ![c] = SeenBy(c)']
    <3>1. \A d \in Callers \ {c} :
            caller'[d] = caller[d] /\ answer'[d] = answer[d]
              /\ (d \in refused' <=> d \in refused)
      BY <1>5 DEF Drop, Set, PoolInv, TypeOK
    <3> QED BY <3>1, OneSees
  <2>3. Seen[c] = SeenBy(c)
    BY DEF Seen
  <2> QED BY <2>1, <2>2, <2>3 DEF Future!Drop
<1>6. ASSUME UNCHANGED vars PROVE UNCHANGED Seen
  <2>1. \A d \in Callers : SeenBy(d)' = SeenBy(d)
    BY <1>6 DEF vars, SeenBy
  <2> QED BY <2>1 DEF Seen
<1> QED BY <1>1, <1>2, <1>3, <1>4, <1>5, <1>6 DEF Next, Await, Future!Next

(* The safety half of FutureSpec: the pool implements the one-shot future,  *)
(* step by step.                                                            *)
THEOREM PoolIsFuture == Spec => Future!Init /\ [][Future!Next]_Seen
BY InitPool, StepPool, InitSeen, SeenStep, PTL DEF Spec
=============================================================================
