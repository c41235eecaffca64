------------------------------ MODULE LossySink -----------------------------
(***************************************************************************)
(* What the analytics ingest path promises (crates/liyasa-store/src/        *)
(* ingest.rs, its header): every event offered has one fate.  It waits in a *)
(* bounded buffer until a batch takes it and keeps it, or it is dropped, and *)
(* only in a full buffer and for want of anything of a lower class; a batch *)
(* whose transaction fails is the one other way out.                        *)
(***************************************************************************)
EXTENDS Naturals, FiniteSets

CONSTANTS
    Events,
    Class,      \* the class of an event, 1 the first to be dropped
    Capacity    \* of the buffer

VARIABLE fate

Fates == {"new", "waiting", "taken", "kept", "dropped", "failed"}

With(f) == {e \in Events : fate[e] = f}
Move(S, f) == fate' = [e \in Events |-> IF e \in S THEN f ELSE fate[e]]
Full == Cardinality(With("waiting")) >= Capacity

Accept(e) == fate[e] = "new" /\ ~Full /\ Move({e}, "waiting")

Displace(e, victim) ==
    /\ fate[e] = "new" /\ Full
    /\ victim \in With("waiting") /\ Class[victim] < Class[e]
    /\ \A other \in With("waiting") : Class[victim] <= Class[other]
    /\ fate' = [fate EXCEPT ![e] = "waiting", ![victim] = "dropped"]

Refuse(e) ==
    /\ fate[e] = "new" /\ Full
    /\ \A other \in With("waiting") : Class[e] <= Class[other]
    /\ Move({e}, "dropped")

(* One batch at a time, nothing left behind of a higher class than what it  *)
(* takes.                                                                   *)
Take(S) ==
    /\ S # {} /\ S \subseteq With("waiting") /\ With("taken") = {}
    /\ \A e \in S : \A other \in With("waiting") \ S : Class[other] <= Class[e]
    /\ Move(S, "taken")

Keep == With("taken") # {} /\ Move(With("taken"), "kept")
Fail == With("taken") # {} /\ Move(With("taken"), "failed")

Init == fate = [e \in Events |-> "new"]

Next ==
    \/ \E e \in Events :
         \/ Accept(e) \/ Refuse(e)
         \/ \E victim \in Events : Displace(e, victim)
    \/ \E S \in SUBSET With("waiting") : Take(S)
    \/ Keep \/ Fail

Spec == Init /\ [][Next]_fate
=============================================================================
