---------------------------- MODULE MCDeployments ---------------------------
(* Deployments of one project with a production, a staging and a preview    *)
(* environment.  v1, v2 and v3 are contents with ids 1, 2 and 3.             *)
EXTENDS Deployments, TLC

CONSTANTS prod, staging, v1, v2, v3

MCBuildOf == [x \in Contents |-> CASE x = v2 -> 2 [] x = v3 -> 3 [] OTHER -> 1]
KeepOne == [e \in Envs |-> IF e = Preview THEN 0 ELSE 1]
KeepNone == [e \in Envs |-> 0]

Push(e, x) == [env |-> e, content |-> x, push |-> TRUE, pull |-> FALSE]
Pull(x) == [env |-> Preview, content |-> x, push |-> FALSE, pull |-> TRUE]

Pushes == {Push(prod, x) : x \in Contents}
BothPushes == Pushes \cup {Push(staging, x) : x \in Contents}
PushesAndPulls == Pushes \cup {Pull(x) : x \in Contents}
Mixed == {Push(prod, v1), Push(prod, v2), Push(staging, v1), Pull(v2)}
=============================================================================
