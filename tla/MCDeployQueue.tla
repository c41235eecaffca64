---------------------------- MODULE MCDeployQueue ---------------------------
(* DeployQueue with two branches of project 1 and two of project 2; wiki is *)
(* the one that previews are built for.                                     *)
EXTENDS DeployQueue, TLC

CONSTANTS main, docs, site, wiki

MCProject == (main :> 1) @@ (docs :> 1) @@ (site :> 2) @@ (wiki :> 2)
MCPriority == [k \in Keys |-> IF k = wiki THEN 30 ELSE 40]
MCLadder == <<1>>

(* Four branches of one project, all alike, so that keys and submitters may *)
(* be interchanged.                                                         *)
OneProject == [k \in Keys |-> 1]
AllAlike == [k \in Keys |-> 40]
Alike == Permutations(Keys) \cup Permutations(Submitters)
=============================================================================
