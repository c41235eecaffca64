------------------------------ MODULE AgentRun ------------------------------
(***************************************************************************)
(* One run of the writing agent (crates/liyasa-agent/src: run.rs,           *)
(* dispatch.rs, record.rs) and the review of its proposal (proposal.rs).    *)
(*                                                                          *)
(* The run is driven by a caller, which enters phases, serves tools and     *)
(* publishes, and by a model, whose turns are lists of calls.  Both are     *)
(* free: any call comes in any order.  Run borrows itself mutably, so the   *)
(* calls of a turn are applied one after another with nothing between them  *)
(* but the clock.  A call's input is chosen when it is applied, and `sound` *)
(* says whether it passes what is not modelled further: its schema, the     *)
(* repositories and hosts a tool may reach.                                 *)
(*                                                                          *)
(* Bounds: MaxTurn calls in a turn, MaxRecorded calls on record, tokens     *)
(* counted to MaxTokens, one proposal per run, MaxFollowUps rounds of       *)
(* comments, a round changing one page.                                     *)
(***************************************************************************)
EXTENDS AgentGates, Sequences

CONSTANTS
    Site,          \* the text of each file of the content tree, {} if none
    Texts,         \* what may be written
    Forbidden,     \* the lines AGENTS.md's rules forbid
    Tools,         \* the tools but write_page
    MinTrust,      \* of each of them
    Named,         \* the pages the trigger names
    Starts,        \* <<inputs' trust levels, trigger's trust level, policy>>
    MaxCalls, MaxTokens,                             \* Budget
    MaxTurn, MaxRecorded, MaxFollowUps               \* bounds

ASSUME RunAssumption ==
    /\ Site \in [Files -> Text] /\ Texts \subseteq Text
    /\ Named \subseteq Pages
    /\ MinTrust \in [Tools -> TrustLevel]
    /\ Starts \subseteq (SUBSET TrustLevel) \X TrustLevel \X Policy
    /\ {MaxCalls, MaxTokens, MaxTurn, MaxRecorded, MaxFollowUps} \subseteq Nat

VARIABLES
    start,      \* the run's element of Starts
    phase,      \* of the record: 0 before the first, 5 at Publish
    calls,      \* calls on the record
    served,     \* the calls on the record that were not refused
    tokens,     \* tokens_spent
    results,    \* the trust levels of the results on the record
    external,   \* saw_external_content
    expired,    \* the deadline is past
    turn,       \* calls of the model's turn not yet applied
    written,    \* the working copy
    validated,  \* the caller holds a Validated
    proposals   \* none, the proposal, or the parts it was split into

record == <<calls, served>>
vars == <<start, phase, record, tokens, results, external, expired, turn,
          written, validated, proposals>>

Research == 1
Write    == 3
Publish  == 5

trust  == for_inputs(start[1], start[2])
policy == start[3]

(* The levels of a run with no inputs of its own are the trigger's.         *)
Init ==
    /\ start \in Starts
    /\ phase = 0 /\ calls = 0 /\ served = 0 /\ tokens = 0
    /\ results = {} /\ external = FALSE /\ expired = FALSE /\ turn = 0
    /\ written = [f \in Files |-> NoChange]
    /\ validated = FALSE /\ proposals = {}

(* A run is not used after its proposal: a bound.                           *)
Unpublished == proposals = {}
Idle == turn = 0 /\ Unpublished

-----------------------------------------------------------------------------
(* Slip: a phase follows the last.                                          *)
EnterPast ==
    /\ Idle
    /\ phase' = phase + 1
    /\ UNCHANGED <<start, record, tokens, results, external, expired, turn,
                   written, validated, proposals>>

(* Run::enter: the next phase and no other.                                 *)
Enter ==
    /\ Idle /\ phase < Publish
    /\ phase' = phase + 1
    /\ UNCHANGED <<start, record, tokens, results, external, expired, turn,
                   written, validated, proposals>>

(* The deadline passes.                                                     *)
Expire ==
    /\ Unpublished /\ ~expired
    /\ expired' = TRUE
    /\ UNCHANGED <<start, phase, record, tokens, results, external, turn,
                   written, validated, proposals>>

(* write_turn up to its calls: one exchange with the model, paid for even   *)
(* when the token budget is spent.                                          *)
WriteTurn ==
    /\ Idle /\ ~expired
    /\ \E usage \in 0 .. 1 :
         /\ tokens + usage <= MaxTokens
         /\ tokens' = tokens + usage
    /\ turn' \in 1 .. MaxTurn
    /\ UNCHANGED <<start, phase, record, results, external, expired,
                   written, validated, proposals>>

-----------------------------------------------------------------------------
(* Slip: the budget allows one call too many.                               *)
WithinBudgetLate == calls <= MaxCalls /\ tokens < MaxTokens
WithinBudget == calls < MaxCalls /\ tokens < MaxTokens

(* Run::authorise: the deadline, then ToolGate::decide; recorded whichever  *)
(* way it goes.  The call is the next of the model's turn, or the caller's. *)
Allowed(min_trust, sound) ==
    ~expired /\ trust <= min_trust /\ sound /\ WithinBudget

Recorded(ok) ==
    /\ Unpublished /\ calls < MaxRecorded
    /\ calls' = calls + 1
    /\ served' = IF ok THEN served + 1 ELSE served
    /\ turn' = IF turn = 0 THEN 0 ELSE turn - 1

Authorise ==
    /\ \E tool \in Tools, sound \in BOOLEAN :
         Recorded(Allowed(MinTrust[tool], sound))
    /\ UNCHANGED <<start, phase, tokens, results, external, expired,
                   written, validated, proposals>>

(* result_trust: web_fetch alone returns a third party's bytes.             *)
result_trust(tool) == IF tool = "web_fetch" THEN External ELSE Member

(* Slip: a later result of the site's own unsays the third party's.         *)
RecordResultForgets ==
    /\ Idle
    /\ \E tool \in Tools :
         /\ results' = results \cup {result_trust(tool)}
         /\ external' = is_untrusted(result_trust(tool))
    /\ UNCHANGED <<start, phase, record, tokens, expired, turn, written,
                   validated, proposals>>

(* record_result, which does not ask whether the call was authorised.       *)
RecordResult ==
    /\ Idle
    /\ \E tool \in Tools :
         /\ results' = results \cup {result_trust(tool)}
         /\ external' = (external \/ is_untrusted(result_trust(tool)))
    /\ UNCHANGED <<start, phase, record, tokens, expired, turn, written,
                   validated, proposals>>

-----------------------------------------------------------------------------
(* The change a write leaves at a path: a second one replaces the text and  *)
(* nothing else, a deletion's kind included.                                *)
WriteOver(c, before, text) ==
    IF c.kind # "none" THEN [c EXCEPT !.after = text]
    ELSE IF before = {} THEN [kind |-> "added", before |-> {}, after |-> text]
    ELSE [kind |-> "modified", before |-> before, after |-> text]

(* Slip: the write goes where the caller said, not where the route lives.   *)
WritePageAnywhere ==
    /\ phase = Write
    /\ \E page, path \in Pages, text \in Texts :
         LET ok == Allowed(External, TRUE) /\ permits(trust, Named, page)
         IN  /\ Recorded(ok)
             /\ written' = IF ok
                           THEN [written EXCEPT ![path] =
                                   WriteOver(@, Site[path], text)]
                           ELSE written
    /\ UNCHANGED <<start, phase, tokens, results, external, expired,
                   validated, proposals>>

(* Run::write of a page at its own path, in the phase for it.               *)
WritePage ==
    /\ phase = Write
    /\ \E page \in Pages, text \in Texts :
         LET ok == Allowed(External, TRUE) /\ permits(trust, Named, page)
         IN  /\ Recorded(ok)
             /\ written' = IF ok
                           THEN [written EXCEPT ![page] =
                                   WriteOver(@, Site[page], text)]
                           ELSE written
    /\ UNCHANGED <<start, phase, tokens, results, external, expired,
                   validated, proposals>>

(* Run::write in another phase, or of a path that is not the route's:       *)
(* nothing is recorded.                                                     *)
WriteNothing ==
    /\ Unpublished /\ turn > 0
    /\ turn' = turn - 1
    /\ UNCHANGED <<start, phase, record, tokens, results, external, expired,
                   written, validated, proposals>>

(* Run::delete, which asks nothing: of any path, one the run has added      *)
(* included.  The text before it is the caller's word, here the site's.     *)
Delete ==
    /\ Idle
    /\ \E f \in Files :
         written' = [written EXCEPT ![f] =
                       [kind |-> "deleted", before |-> Site[f], after |-> {}]]
    /\ UNCHANGED <<start, phase, record, tokens, results, external, expired,
                   turn, validated, proposals>>

(* Run::validate, in any phase, of what is written at the time; the         *)
(* diagnostics are the caller's.                                            *)
Validate ==
    /\ Idle
    /\ \A f \in Files : written[f].after \cap Forbidden = {}
    /\ validated' = TRUE
    /\ UNCHANGED <<start, phase, record, tokens, results, external, expired,
                   turn, written, proposals>>

-----------------------------------------------------------------------------
(* The review.  A proposal has its diff, the diffs of its follow-ups, a     *)
(* decision per file, and the run's outcome; histories: the text each file  *)
(* was accepted with, and whether a follow-up was lost in a split.          *)
Decision == {"none", "undecided", "accepted", "rejected"}

Proposal == [diff : Diff, follow_ups : SUBSET Diff, text : [Files -> Text],
             decisions : [Files -> Decision], outcome : Outcome,
             seen : [Files -> Text], cut : BOOLEAN]

files(p) == {f \in Files : p.decisions[f] # "none"}

(* Proposal::open, of a diff the gates passed.                              *)
Opened(diff, outcome) ==
    [diff |-> diff, follow_ups |-> {},
     text |-> [f \in Files |-> diff[f].after],
     decisions |-> [f \in Files |->
                      IF f \in Touched(diff) THEN "undecided" ELSE "none"],
     outcome |-> outcome, seen |-> [f \in Files |-> {}], cut |-> FALSE]

(* Run::publish; a diff the gates reject opens nothing.                     *)
PublishRun ==
    /\ Idle /\ phase = Publish /\ validated
    /\ \E signals \in Signals, allow_bulk_delete \in BOOLEAN :
         /\ ~rejected(trust, Named, written, allow_bulk_delete)
         /\ proposals' =
              {Opened(written,
                      IF external THEN "proposal"
                      ELSE decide(policy, trust, signals, TRUE))}
    /\ UNCHANGED <<start, phase, record, tokens, results, external, expired,
                   turn, written, validated>>

Becomes(p, q) ==
    /\ proposals' = (proposals \ {p}) \cup {q}
    /\ UNCHANGED <<start, phase, record, tokens, results, external, expired,
                   turn, written, validated>>

Decided(p, fs, d) ==
    [p EXCEPT !.decisions = [f \in Files |-> IF f \in fs THEN d ELSE @[f]],
              !.seen = [f \in Files |-> IF f \notin fs THEN @[f]
                                        ELSE IF d = "accepted" THEN p.text[f] ELSE {}]]

(* accept and reject, of one file or of all.                                *)
Decide(p) ==
    \E d \in {"accepted", "rejected"} :
      \/ \E f \in files(p) : Becomes(p, Decided(p, {f}, d))
      \/ Becomes(p, Decided(p, files(p), d))

(* The diff of a round of comments: one page rewritten.                     *)
FollowUps(p) ==
    {[f \in Files |-> IF f = page
                      THEN [kind |-> "modified", before |-> p.text[f], after |-> text]
                      ELSE NoChange] : page \in Pages, text \in Texts}

(* Slip: a file that has a decision keeps it.                               *)
AddressKeeps(p) ==
    /\ Cardinality(p.follow_ups) < MaxFollowUps
    /\ \E diff \in FollowUps(p) \ p.follow_ups, allow \in BOOLEAN :
         /\ ~rejected(trust, Named, diff, allow)
         /\ Becomes(p, [p EXCEPT
              !.follow_ups = @ \cup {diff},
              !.text = [f \in Files |->
                          IF f \in Touched(diff) THEN diff[f].after ELSE @[f]],
              !.decisions = [f \in Files |->
                               IF f \in Touched(diff) /\ @[f] = "none"
                               THEN "undecided" ELSE @[f]]])

(* address, with a report of the follow-up's own diff.                      *)
Address(p) ==
    /\ Cardinality(p.follow_ups) < MaxFollowUps
    /\ \E diff \in FollowUps(p) \ p.follow_ups, allow \in BOOLEAN :
         /\ ~rejected(trust, Named, diff, allow)
         /\ Becomes(p, [p EXCEPT
              !.follow_ups = @ \cup {diff},
              !.text = [f \in Files |->
                          IF f \in Touched(diff) THEN diff[f].after ELSE @[f]],
              !.decisions = [f \in Files |->
                               IF f \in Touched(diff) THEN "undecided" ELSE @[f]]])

(* A part is its files of the diff with their decisions, and no follow-up.  *)
Part(p, fs) ==
    [p EXCEPT !.diff = Only(@, fs),
              !.follow_ups = {},
              !.text = [f \in Files |-> Only(p.diff, fs)[f].after],
              !.decisions = [f \in Files |-> IF f \in fs THEN @[f] ELSE "none"],
              !.cut = @ \/ p.follow_ups # {}]

(* Slip: what is no page goes to no part.                                   *)
PartsOfPages(p, first) ==
    {Part(p, {page}) : page \in Touched(p.diff) \cap Pages}

(* split_per_page: a part for each page; the first also has the rest.       *)
Parts(p, first) ==
    {Part(p, {page} \cup (IF page = first THEN Touched(p.diff) \ Pages ELSE {}))
       : page \in Touched(p.diff) \cap Pages}

Split(p) ==
    /\ \E page \in Touched(p.diff) \cap Pages :
         /\ Touched(p.diff) # {page}
         /\ proposals' = (proposals \ {p}) \cup Parts(p, page)
    /\ UNCHANGED <<start, phase, record, tokens, results, external, expired,
                   turn, written, validated>>

-----------------------------------------------------------------------------
Next ==
    \/ Enter \/ Expire \/ WriteTurn \/ Authorise \/ RecordResult
    \/ WritePage \/ WriteNothing \/ Delete \/ Validate \/ PublishRun
    \/ \E p \in proposals : Decide(p) \/ Address(p) \/ Split(p)

Spec == Init /\ [][Next]_vars

-----------------------------------------------------------------------------
(* Every variable has its type.                                             *)
TypeOK ==
    /\ start \in Starts
    /\ phase \in 0 .. Publish
    /\ {calls, served, tokens, turn} \subseteq Nat
    /\ results \subseteq TrustLevel
    /\ {external, expired, validated} \subseteq BOOLEAN
    /\ written \in Diff
    /\ proposals \subseteq Proposal

(* What a person did not read came of trusted inputs alone: a run whose     *)
(* proposal is merged or pushed had no untrusted input or trigger, and its  *)
(* record holds no result of a third party, however early it was read and   *)
(* whatever was read after it (run.rs:580-592, RFC 2502).                   *)
ReviewedUnlessTrusted ==
    \A p \in proposals :
      p.outcome # "proposal" =>
        \A t \in start[1] \cup {start[2]} \cup results : ~is_untrusted(t)

(* An untrusted run's working copy holds text of no page but those its      *)
(* trigger named, by whatever call it was written.                          *)
WorkingCopyInScope ==
    is_untrusted(trust) =>
      \A f \in Files \ Named : written[f].after = {}

(* What is up for review lies in the run's scope, deletions and follow-ups  *)
(* included, and brings no secret the site did not have.                    *)
ProposalsAreGated ==
    \A p \in proposals :
      \A diff \in {p.diff} \cup p.follow_ups : \A f \in Touched(diff) :
        permits(trust, Named, f) /\ ~secrets(diff[f])

(* However calls are refused, the calls served stay within the budget.      *)
ServedWithinBudget == served <= MaxCalls

(* A file accepted is one whose present text was up when it was accepted,   *)
(* unless a split lost the follow-up it was accepted with.                  *)
AcceptedAsSeen ==
    \A p \in proposals : \A f \in Files :
      p.decisions[f] = "accepted" /\ ~p.cut => p.text[f] = p.seen[f]

(* Whatever is decided, addressed or split, every file of the run's diff is *)
(* in exactly one proposal, as the run wrote it.                            *)
FilesStayInReview ==
    proposals # {} =>
      \A f \in Touched(written) :
        /\ \E p \in proposals : p.diff[f] = written[f]
        /\ \A p, q \in proposals :
             f \in Touched(p.diff) \cap Touched(q.diff) => p = q

(* Does not hold (README, other departures).                                *)
(* "Validation failures block the proposal": no text that breaks a rule of  *)
(* AGENTS.md is up for review.                                              *)
PublishedIsValidated ==
    \A p \in proposals : \A f \in Files :
      p.diff[f].after \cap Forbidden = {}
=============================================================================
