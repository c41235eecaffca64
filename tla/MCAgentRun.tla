----------------------------- MODULE MCAgentRun -----------------------------
(* AgentRun on a site of two pages and a config file.                       *)
EXTENDS AgentRun

CONSTANTS guide, install, config_file, prose, key, host

MCSite == [f \in Files |-> IF f = guide THEN {} ELSE {prose}]
MCMinTrust == [t \in Tools |-> IF t = "search_docs" THEN 3 ELSE 1]
MCStarts == {<<{1}, 1, "direct">>, <<{0, 3}, 0, "automerge-if-verified">>}
MCTexts == {{prose, host}, {key}}
=============================================================================
