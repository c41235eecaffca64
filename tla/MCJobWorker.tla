---------------------------- MODULE MCJobWorker -----------------------------
(* JobWorker on two replicas.  "orphan" is enqueued above everything else   *)
(* and no kind handles it; "timer" is what fire_timers enqueues.            *)
EXTENDS JobWorker, TLC

CONSTANTS build, orphan, timer

MCPriority == [k \in Keys |-> CASE k = orphan -> 2 [] k = build -> 1 [] OTHER -> 0]
MCLadder == <<1, 2>>

(* Replicas are interchangeable in everything the safety run checks.        *)
Replicas == Permutations(Workers)
=============================================================================
