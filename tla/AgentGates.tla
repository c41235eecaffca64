----------------------------- MODULE AgentGates -----------------------------
(***************************************************************************)
(* What the writing agent may write, and what its output must pass          *)
(* (crates/liyasa-agent/src: trust.rs, scope.rs, diff.rs, gates.rs and      *)
(* policy.rs): functions of a run's trust, its trigger's pages and its      *)
(* diff.                                                                    *)
(*                                                                          *)
(* A text is a set of lines, and a line is what the gates find in it: a     *)
(* secret, a link to a host new to the site, a phrase of the injection      *)
(* corpus, an access field, front matter that does not parse.  A missing    *)
(* text reads as the empty one, as it does to every gate.  Paths are        *)
(* normalised and in the project.  Not modelled: flags, which only the      *)
(* proposal's header shows, and the areas of a config change.               *)
(***************************************************************************)
EXTENDS Naturals, FiniteSets

CONSTANTS
    Files,        \* paths in the project
    Pages,        \* those that are content pages; the rest no trigger names
    Lines,
    Secrets, NewHosts, Phrases, AccessFields, Unreadable,   \* kinds of line
    MaxFiles, MaxLines, MaxDeleted                          \* Limits

ASSUME GatesAssumption ==
    /\ IsFiniteSet(Files) /\ Pages \subseteq Files
    /\ IsFiniteSet(Lines)
    /\ {MaxFiles, MaxLines, MaxDeleted} \subseteq Nat

-----------------------------------------------------------------------------
(* TrustLevel, in its derived order: a greater level is trusted less.       *)
Operator  == 0
Member    == 1
Anonymous == 2
External  == 3
TrustLevel == Operator .. External

is_untrusted(t) == t \in {Anonymous, External}

(* Restrictions::for_inputs with effective_trust: the least trusted of the  *)
(* inputs and the trigger.                                                  *)
for_inputs(inputs, trigger) ==
    CHOOSE t \in inputs \cup {trigger} : \A u \in inputs \cup {trigger} : u <= t

(* Restrictions::permits: an untrusted run writes the pages its trigger     *)
(* named, and nothing else.                                                 *)
permits(t, named, f) == is_untrusted(t) => f \in named \cap Pages

-----------------------------------------------------------------------------
(* FileChange and Diff: one change per path.                                *)
Text == SUBSET Lines

Change == [kind : {"none", "added", "modified", "deleted"},
           before : Text, after : Text]

NoChange == [kind |-> "none", before |-> {}, after |-> {}]

Diff == [Files -> Change]

Touched(diff) == {f \in Files : diff[f].kind # "none"}

(* The part of a diff that is about some files.                             *)
Only(diff, fs) == [f \in Files |-> IF f \in fs THEN diff[f] ELSE NoChange]

(* lines_changed: what is on one side only, over all files.                 *)
lines_changed(diff) ==
    Cardinality({fl \in Files \X Lines :
                   \/ fl[2] \in diff[fl[1]].before \ diff[fl[1]].after
                   \/ fl[2] \in diff[fl[1]].after \ diff[fl[1]].before})

deleted_pages(diff) == {f \in Pages : diff[f].kind = "deleted"}

-----------------------------------------------------------------------------
(* The gates' rejections.                                                   *)
size(diff) ==
    \/ Cardinality(Touched(diff)) > MaxFiles
    \/ lines_changed(diff) > MaxLines

deletions(diff, allow_bulk_delete) ==
    Cardinality(deleted_pages(diff)) > MaxDeleted /\ ~allow_bulk_delete

(* Slip: like the gates on text, the scope is not asked of a deletion.      *)
scope_of_text(t, named, f, c) == c.after # {} /\ ~permits(t, named, f)
scope(t, named, f, c) == ~permits(t, named, f)

access(t, f, c) ==
    /\ f \in Pages
    /\ \/ (c.before \cup c.after) \cap Unreadable # {}
       \/ /\ c.before \cap AccessFields # c.after \cap AccessFields
          /\ is_untrusted(t)

(* Novelty::New: after the change and not before it.                        *)
Adds(c, kind) == (c.after \ c.before) \cap kind # {}

secrets(c) == Adds(c, Secrets)
links(t, c) == Adds(c, NewHosts) /\ is_untrusted(t)
phrases(t, c) == Adds(c, Phrases) /\ is_untrusted(t)

(* check, then Report::rejected.                                            *)
rejected(t, named, diff, allow_bulk_delete) ==
    \/ size(diff)
    \/ deletions(diff, allow_bulk_delete)
    \/ \E f \in Touched(diff) :
         \/ scope(t, named, f, diff[f])
         \/ access(t, f, diff[f])
         \/ secrets(diff[f])
         \/ links(t, diff[f])
         \/ phrases(t, diff[f])

-----------------------------------------------------------------------------
(* policy.rs.  The checks a caller reports (validation, verification, CI,   *)
(* limits) are one signal, an admin's consent and branch protection         *)
(* another.                                                                 *)
Policy == {"proposal", "automerge-if-verified", "direct"}
Outcome == {"proposal", "automerge", "direct"}
Signals == [checks : BOOLEAN, consent : BOOLEAN]

(* available_to.                                                            *)
available_to(t) == IF is_untrusted(t) THEN {"proposal"} ELSE Policy

(* decide, with gate_passed as from_gate set it.                            *)
decide(policy, t, signals, gate_passed) ==
    LET verified == signals.checks /\ gate_passed
    IN  IF policy \notin available_to(t) \/ ~verified THEN "proposal"
        ELSE IF policy = "automerge-if-verified" THEN "automerge"
        ELSE IF policy = "direct" /\ signals.consent THEN "direct"
        ELSE "proposal"
=============================================================================
