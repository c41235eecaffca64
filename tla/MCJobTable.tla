----------------------------- MODULE MCJobTable -----------------------------
(* JobTable on two ids, two keys and two workers, with every operation      *)
(* open to every caller.                                                    *)
EXTENDS JobTable, TLC

CONSTANTS k1, k2, MaxVersion

MCPriority == (k1 :> 0) @@ (k2 :> 1)
MCLadder == <<1, 2>>

(* The table's history is unbounded; the run looks at the first MaxVersion  *)
(* writes of each row.                                                      *)
FirstWrites == \A i \in Ids : row[i].ver <= MaxVersion
=============================================================================
