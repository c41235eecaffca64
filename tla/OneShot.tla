------------------------------ MODULE OneShot -------------------------------
(***************************************************************************)
(* What RenderPool::submit gives its caller (crates/liyasa-build/src/       *)
(* pool.rs): a future that is refused at once, or pends until it resolves   *)
(* once and for all, or is dropped.                                         *)
(***************************************************************************)
CONSTANTS Callers, Answers

VARIABLE state

Init == state = [c \in Callers |-> "none"]

Accept(c) == state[c] = "none" /\ state' = [state EXCEPT ![c] = "pending"]
Refuse(c) == state[c] = "none" /\ state' = [state EXCEPT ![c] = "refused"]
Drop(c) == state[c] = "pending" /\ state' = [state EXCEPT ![c] = "dropped"]
Resolve(c) == state[c] = "pending" /\ \E v \in Answers : state' = [state EXCEPT ![c] = v]

Next == \E c \in Callers : Accept(c) \/ Refuse(c) \/ Drop(c) \/ Resolve(c)

Settled(c) == Resolve(c) \/ Drop(c)

Spec == Init /\ [][Next]_state /\ \A c \in Callers : WF_state(Settled(c))
=============================================================================
