----------------------------- MODULE AgentProofs ----------------------------
(***************************************************************************)
(* For any site, triggers, tools, limits and any order of calls: what a run *)
(* publishes unreviewed came of trusted inputs alone, an untrusted run      *)
(* stays within the pages its trigger named, and a review loses no file and *)
(* accepts none unseen.                                                     *)
(***************************************************************************)
EXTENDS AgentRun, TLAPS

(* What the record knows of the results on it.                              *)
ExternalIsSeen == (\E t \in results : is_untrusted(t)) => external
ServedAreCalls == served <= calls

(* What holds of a proposal by itself.                                      *)
Unreviewed(p) == p.outcome # "proposal"
Trusted == \A t \in start[1] \cup {start[2]} \cup results : ~is_untrusted(t)
Gated(diff) == \A f \in Touched(diff) : permits(trust, Named, f) /\ ~secrets(diff[f])
Seen(p) == \A f \in Files : p.decisions[f] = "accepted" /\ ~p.cut => p.text[f] = p.seen[f]
TextIsDiffs(p) == p.follow_ups = {} => \A f \in Files : p.text[f] = p.diff[f].after

Fine(p) ==
    /\ p \in Proposal
    /\ Unreviewed(p) => Trusted
    /\ \A diff \in {p.diff} \cup p.follow_ups : Gated(diff)
    /\ Seen(p)
    /\ TextIsDiffs(p)

(* The run before its proposal, and all of it.                              *)
RunTypeOK ==
    /\ start \in Starts
    /\ phase \in 0 .. Publish
    /\ calls \in Nat /\ served \in Nat /\ tokens \in Nat /\ turn \in Nat
    /\ results \subseteq TrustLevel
    /\ external \in BOOLEAN /\ expired \in BOOLEAN /\ validated \in BOOLEAN
    /\ written \in Diff

RunInv ==
    RunTypeOK /\ ExternalIsSeen /\ ServedAreCalls /\ ServedWithinBudget /\ WorkingCopyInScope

AgentInv == RunInv /\ (\A p \in proposals : Fine(p)) /\ FilesStayInReview

run == <<start, phase, record, tokens, results, external, expired, turn, written, validated>>

-----------------------------------------------------------------------------
(* for_inputs is the least trusted level of a run: a run that may do more   *)
(* than propose has no untrusted input.                                     *)
LEMMA TrustIsTheLeast ==
    ASSUME NEW S \in SUBSET TrustLevel, S # {}
    PROVE  \E t \in S : \A u \in S : u <= t
<1>1. CASE 3 \in S
  BY <1>1 DEF TrustLevel, Operator, External
<1>2. CASE 3 \notin S /\ 2 \in S
  BY <1>2 DEF TrustLevel, Operator, External
<1>3. CASE 3 \notin S /\ 2 \notin S /\ 1 \in S
  BY <1>3 DEF TrustLevel, Operator, External
<1>4. CASE 3 \notin S /\ 2 \notin S /\ 1 \notin S
  <2>1. \A u \in S : u = 0
    BY <1>4 DEF TrustLevel, Operator, External
  <2>2. \E t \in S : t = 0
    BY <2>1
  <2> QED BY <2>1, <2>2
<1> QED BY <1>1, <1>2, <1>3, <1>4

LEMMA StartTypes ==
    ASSUME RunTypeOK
    PROVE  /\ start[1] \subseteq TrustLevel /\ start[2] \in TrustLevel /\ start[3] \in Policy
           /\ trust \in start[1] \cup {start[2]} /\ trust \in TrustLevel
           /\ \A u \in start[1] \cup {start[2]} : u <= trust
<1>1. start[1] \subseteq TrustLevel /\ start[2] \in TrustLevel /\ start[3] \in Policy
  BY RunAssumption DEF RunTypeOK
<1>2. \E t \in start[1] \cup {start[2]} : \A u \in start[1] \cup {start[2]} : u <= t
  <2>1. start[1] \cup {start[2]} \in SUBSET TrustLevel /\ start[1] \cup {start[2]} # {}
    BY <1>1
  <2> QED BY ONLY <2>1, TrustIsTheLeast
<1>3. trust \in start[1] \cup {start[2]} /\ \A u \in start[1] \cup {start[2]} : u <= trust
  BY <1>2 DEF trust, for_inputs
<1> QED BY <1>1, <1>3

LEMMA TrustedStart ==
    ASSUME RunTypeOK, ~is_untrusted(trust)
    PROVE  \A t \in start[1] \cup {start[2]} : ~is_untrusted(t)
BY StartTypes DEF is_untrusted, TrustLevel, Operator, Anonymous, External

-----------------------------------------------------------------------------
LEMMA InitAgent == Init => AgentInv
<1> SUFFICES ASSUME Init PROVE AgentInv
  OBVIOUS
<1>1. NoChange \in Change
  BY DEF NoChange, Change, Text
<1>2. RunTypeOK
  <2>1. written \in Diff
    BY <1>1 DEF Init, Diff
  <2>2. phase \in 0 .. Publish
    BY DEF Init, Publish
  <2> QED BY <2>1, <2>2 DEF Init, RunTypeOK
<1>3. WorkingCopyInScope
  BY DEF Init, WorkingCopyInScope, NoChange
<1>4. ExternalIsSeen /\ ServedAreCalls /\ ServedWithinBudget
  BY RunAssumption DEF Init, ExternalIsSeen, ServedAreCalls, ServedWithinBudget
<1> QED BY <1>2, <1>3, <1>4 DEF Init, AgentInv, RunInv, FilesStayInReview

-----------------------------------------------------------------------------
(* Before the proposal only the run's own invariant is at stake.            *)
LEMMA BeforeProposal ==
    ASSUME AgentInv, proposals = {}, proposals' = proposals, RunInv'
    PROVE  AgentInv'
BY DEF AgentInv, FilesStayInReview

LEMMA RecordedKeeps ==
    ASSUME RunInv, NEW m \in Nat,
           NEW sound \in BOOLEAN, NEW ok \in BOOLEAN, ok => Allowed(m, sound),
           Recorded(ok)
    PROVE  /\ calls' \in Nat /\ served' \in Nat /\ turn' \in Nat
           /\ ServedAreCalls' /\ ServedWithinBudget'
<1>1. /\ calls \in Nat /\ served \in Nat /\ turn \in Nat /\ served <= calls
      /\ served <= MaxCalls /\ MaxCalls \in Nat
  BY RunAssumption DEF RunInv, RunTypeOK, ServedAreCalls, ServedWithinBudget
<1>2. CASE ok
  <2>1. calls < MaxCalls
    BY <1>2 DEF Allowed, WithinBudget
  <2> QED BY <1>1, <1>2, <2>1 DEF Recorded, ServedAreCalls, ServedWithinBudget
<1>3. CASE ~ok
  BY <1>1, <1>3 DEF Recorded, ServedAreCalls, ServedWithinBudget
<1> QED BY <1>2, <1>3

LEMMA AuthoriseKeeps == ASSUME AgentInv, Authorise PROVE RunInv' /\ proposals = {} /\ UNCHANGED proposals
<1>1. PICK tool \in Tools, sound \in BOOLEAN : Recorded(Allowed(MinTrust[tool], sound))
  BY DEF Authorise
<1>2. MinTrust[tool] \in Nat
  BY <1>1, RunAssumption DEF TrustLevel, Operator, External
<1>3. Allowed(MinTrust[tool], sound) \in BOOLEAN
  BY StartTypes DEF Allowed, WithinBudget, AgentInv, RunInv, RunTypeOK
<1>4. /\ calls' \in Nat /\ served' \in Nat /\ turn' \in Nat
      /\ ServedAreCalls' /\ ServedWithinBudget'
  BY <1>1, <1>2, <1>3, RecordedKeeps DEF AgentInv
<1> QED BY <1>1, <1>4 DEF Authorise, Recorded, Unpublished, AgentInv, RunInv, RunTypeOK,
           ExternalIsSeen, WorkingCopyInScope, trust

(* A page written is one the run may write; what it leaves is a change.     *)
LEMMA WriteOverType ==
    ASSUME NEW c \in Change, NEW before \in Text, NEW text \in Text
    PROVE  WriteOver(c, before, text) \in Change
BY DEF WriteOver, Change, Text

LEMMA WritePageKeeps == ASSUME AgentInv, WritePage PROVE RunInv' /\ proposals = {} /\ UNCHANGED proposals
<1> DEFINE ok(page) == Allowed(External, TRUE) /\ permits(trust, Named, page)
<1>1. PICK page \in Pages, text \in Texts :
        /\ Recorded(ok(page))
        /\ written' = IF ok(page) THEN [written EXCEPT ![page] = WriteOver(@, Site[page], text)]
                                  ELSE written
  BY DEF WritePage
<1>2. /\ calls' \in Nat /\ served' \in Nat /\ turn' \in Nat
      /\ ServedAreCalls' /\ ServedWithinBudget'
  <2>1. External \in Nat /\ TRUE \in BOOLEAN /\ ok(page) \in BOOLEAN
    BY DEF External, Allowed, WithinBudget, permits, is_untrusted
  <2> QED BY <1>1, <2>1, RecordedKeeps DEF AgentInv
<1>3. page \in Files /\ written \in Diff /\ Site[page] \in Text /\ text \in Text
  BY <1>1, RunAssumption, GatesAssumption DEF AgentInv, RunInv, RunTypeOK
<1>4. written' \in Diff
  <2>1. WriteOver(written[page], Site[page], text) \in Change
    BY <1>3, WriteOverType DEF Diff
  <2> QED BY <1>1, <1>3, <2>1 DEF Diff
<1>5. UNCHANGED <<start, phase, tokens, results, external, expired, validated, proposals>>
      /\ proposals = {}
  BY <1>1 DEF WritePage, Recorded, Unpublished
<1>6. WorkingCopyInScope'
  <2> SUFFICES ASSUME is_untrusted(trust), NEW f \in Files \ Named PROVE written'[f].after = {}
    BY <1>5 DEF WorkingCopyInScope, trust
  <2>1. written[f].after = {}
    BY DEF AgentInv, RunInv, WorkingCopyInScope
  <2>2. ok(page) => f # page
    BY DEF permits
  <2>3. written'[f] = written[f]
    BY <1>1, <1>3, <2>2 DEF Diff
  <2> QED BY <2>1, <2>3
<1> QED BY <1>2, <1>4, <1>5, <1>6 DEF AgentInv, RunInv, RunTypeOK, ExternalIsSeen

LEMMA DeleteKeeps == ASSUME AgentInv, Delete PROVE RunInv' /\ proposals = {} /\ UNCHANGED proposals
<1>1. PICK f \in Files :
        written' = [written EXCEPT ![f] = [kind |-> "deleted", before |-> Site[f], after |-> {}]]
  BY DEF Delete
<1>2. written \in Diff
  BY DEF AgentInv, RunInv, RunTypeOK
<1>3. [kind |-> "deleted", before |-> Site[f], after |-> {}] \in Change
  BY RunAssumption DEF Change, Text
<1>4. written' \in Diff
  BY <1>1, <1>2, <1>3 DEF Diff
<1>5. WorkingCopyInScope'
  BY <1>1, <1>2 DEF Delete, AgentInv, RunInv, WorkingCopyInScope, trust, Diff
<1> QED BY <1>4, <1>5 DEF Delete, Idle, Unpublished, record, AgentInv, RunInv, RunTypeOK,
           ExternalIsSeen, ServedAreCalls, ServedWithinBudget

LEMMA ResultKeeps == ASSUME AgentInv, RecordResult PROVE RunInv' /\ proposals = {} /\ UNCHANGED proposals
<1>1. PICK tool \in Tools :
        /\ results' = results \cup {result_trust(tool)}
        /\ external' = (external \/ is_untrusted(result_trust(tool)))
  BY DEF RecordResult
<1>2. result_trust(tool) \in TrustLevel
  BY DEF result_trust, TrustLevel, Operator, Member, External
<1>3. ExternalIsSeen'
  BY <1>1 DEF AgentInv, RunInv, ExternalIsSeen
<1>4. external' \in BOOLEAN
  BY <1>1 DEF AgentInv, RunInv, RunTypeOK, is_untrusted
<1> QED BY <1>1, <1>2, <1>3, <1>4 DEF RecordResult, Idle, Unpublished, record, AgentInv, RunInv,
           RunTypeOK, WorkingCopyInScope, trust, ServedAreCalls, ServedWithinBudget

LEMMA OthersKeep ==
    ASSUME AgentInv, Enter \/ Expire \/ WriteTurn \/ WriteNothing \/ Validate
    PROVE  RunInv' /\ proposals = {} /\ UNCHANGED proposals
<1>1. proposals = {} /\ UNCHANGED <<start, record, results, external, written, proposals>>
  BY DEF Enter, Expire, WriteTurn, WriteNothing, Validate, Idle, Unpublished
<1>2. /\ phase' \in 0 .. Publish /\ tokens' \in Nat /\ turn' \in Nat
      /\ expired' \in BOOLEAN /\ validated' \in BOOLEAN
  <2> USE DEF AgentInv, RunInv, RunTypeOK, Publish
  <2>1. CASE Enter
    BY <2>1 DEF Enter
  <2>2. CASE WriteTurn
    BY <2>2, RunAssumption DEF WriteTurn
  <2>3. CASE WriteNothing
    BY <2>3 DEF WriteNothing
  <2>4. CASE Expire \/ Validate
    BY <2>4 DEF Expire, Validate
  <2> QED BY <2>1, <2>2, <2>3, <2>4
<1> QED BY <1>1, <1>2 DEF record, AgentInv, RunInv, RunTypeOK, ExternalIsSeen,
           WorkingCopyInScope, trust, ServedAreCalls, ServedWithinBudget

-----------------------------------------------------------------------------
(* What is published: a diff the gates passed, and unreviewed only if       *)
(* nothing untrusted went into it.                                          *)
LEMMA GatesPass ==
    ASSUME NEW diff, NEW allow, ~rejected(trust, Named, diff, allow)
    PROVE  Gated(diff)
BY DEF rejected, scope, Gated

LEMMA RunStays == ASSUME RunInv, UNCHANGED run PROVE RunInv'
BY DEF run, record, RunInv, RunTypeOK, ExternalIsSeen, ServedAreCalls, ServedWithinBudget,
       WorkingCopyInScope, trust

LEMMA FineStays == ASSUME NEW q, Fine(q), UNCHANGED run PROVE Fine(q)'
BY DEF Fine, Unreviewed, Trusted, Gated, trust, run, Seen, TextIsDiffs

LEMMA PublishKeeps == ASSUME AgentInv, PublishRun PROVE AgentInv'
<1>1. PICK signals \in Signals, allow \in BOOLEAN :
        /\ ~rejected(trust, Named, written, allow)
        /\ proposals' = {Opened(written, IF external THEN "proposal"
                                         ELSE decide(policy, trust, signals, TRUE))}
  BY DEF PublishRun
<1> DEFINE outcome == IF external THEN "proposal" ELSE decide(policy, trust, signals, TRUE)
           p == Opened(written, outcome)
<1>2. UNCHANGED run
  BY DEF PublishRun, run
<1>3. RunInv'
  BY <1>2, RunStays DEF AgentInv
<1>4. written \in Diff
  BY DEF AgentInv, RunInv, RunTypeOK
<1>5. outcome \in Outcome
  BY StartTypes DEF decide, Outcome, policy, Policy, AgentInv, RunInv
<1>6. outcome # "proposal" => Trusted
  <2> SUFFICES ASSUME outcome # "proposal" PROVE Trusted
    OBVIOUS
  <2>1. ~external /\ policy \in available_to(trust)
    BY DEF decide
  <2>2. ~is_untrusted(trust)
    <3>1. is_untrusted(trust) => policy = "proposal"
      BY <2>1 DEF available_to
    <3>2. policy = "proposal" => outcome = "proposal"
      BY DEF decide
    <3> QED BY <3>1, <3>2
  <2>3. \A t \in results : ~is_untrusted(t)
    BY <2>1 DEF AgentInv, RunInv, ExternalIsSeen
  <2>4. \A t \in start[1] \cup {start[2]} : ~is_untrusted(t)
    BY <2>2, TrustedStart DEF AgentInv, RunInv
  <2> QED BY <2>3, <2>4 DEF Trusted
<1>7. p \in Proposal
  <2>1. [f \in Files |-> written[f].after] \in [Files -> Text]
    BY <1>4 DEF Diff, Change
  <2>2. [f \in Files |-> {}] \in [Files -> Text]
    BY DEF Text
  <2>3. [f \in Files |-> IF f \in Touched(written) THEN "undecided" ELSE "none"]
          \in [Files -> Decision]
    BY DEF Decision
  <2> QED BY <1>4, <1>5, <2>1, <2>2, <2>3 DEF Opened, Proposal
<1>8. Gated(written)
  BY <1>1, GatesPass
<1>9. Fine(p)
  <2>1. Seen(p)
    BY DEF Seen, Opened
  <2>2. TextIsDiffs(p)
    BY DEF TextIsDiffs, Opened
  <2>3. \A diff \in {p.diff} \cup p.follow_ups : Gated(diff)
    BY <1>8 DEF Opened
  <2>4. Unreviewed(p) => Trusted
    BY <1>6 DEF Unreviewed, Opened
  <2> QED BY <1>7, <2>1, <2>2, <2>3, <2>4 DEF Fine
<1>10. PICK q : proposals' = {q} /\ Fine(q) /\ q.diff = written
  <2>1. proposals' = {p}
    BY <1>1
  <2>2. p.diff = written
    BY DEF Opened
  <2> QED BY <1>9, <2>1, <2>2
<1>11. FilesStayInReview'
  BY <1>2, <1>10 DEF FilesStayInReview, run, Touched
<1>12. \A r \in proposals' : Fine(r)'
  BY <1>2, <1>10, FineStays
<1> QED BY <1>3, <1>11, <1>12 DEF AgentInv

-----------------------------------------------------------------------------
(* A review puts proposals in the place of one, which cover what it covered *)
(* without overlap.                                                         *)
Covers(Q, p) ==
    /\ \A q \in Q : Fine(q)
    /\ \A q \in Q : \A f \in Touched(q.diff) : f \in Touched(p.diff)
    /\ \A f \in Touched(p.diff) : \E q \in Q : q.diff[f] = p.diff[f]
    /\ \A q, r \in Q : \A f \in Touched(q.diff) \cap Touched(r.diff) : q = r

LEMMA Replaced ==
    ASSUME AgentInv, UNCHANGED run, NEW p \in proposals, NEW Q,
           proposals' = (proposals \ {p}) \cup Q, Covers(Q, p)
    PROVE  AgentInv'
<1> USE DEF Covers
<1>1. RunInv'
  BY RunStays DEF AgentInv
<1>2. \A q \in proposals' : Fine(q)
  BY DEF AgentInv
<1>3. \A q \in proposals' : Fine(q)'
  BY <1>2, FineStays
<1>4. \A f \in Touched(written) : \E q \in proposals : q.diff[f] = written[f]
  BY DEF AgentInv, FilesStayInReview
<1>5. \A f \in Touched(written) : \A q, r \in proposals :
        f \in Touched(q.diff) \cap Touched(r.diff) => q = r
  BY DEF AgentInv, FilesStayInReview
<1>6. \A f \in Touched(written) : \E q \in proposals' : q.diff[f] = written[f]
  <2> SUFFICES ASSUME NEW f \in Touched(written)
               PROVE  \E q \in proposals' : q.diff[f] = written[f]
    OBVIOUS
  <2>1. PICK q \in proposals : q.diff[f] = written[f]
    BY <1>4
  <2>2. f \in Touched(q.diff)
    BY <2>1 DEF Touched
  <2> QED BY <2>1, <2>2
<1>7. \A f \in Touched(written) : \A q, r \in proposals' :
        f \in Touched(q.diff) \cap Touched(r.diff) => q = r
  <2> SUFFICES ASSUME NEW f \in Touched(written), NEW q \in proposals', NEW r \in proposals',
                      f \in Touched(q.diff) \cap Touched(r.diff)
               PROVE  q = r
    OBVIOUS
  <2>1. CASE q \in Q /\ r \in Q
    BY <2>1
  <2>2. CASE q \notin Q /\ r \notin Q
    BY <2>2, <1>5
  <2>3. CASE q \in Q /\ r \notin Q
    <3>1. f \in Touched(p.diff) /\ r \in proposals /\ r # p
      BY <2>3
    <3> QED BY <3>1, <1>5
  <2>4. CASE q \notin Q /\ r \in Q
    <3>1. f \in Touched(p.diff) /\ q \in proposals /\ q # p
      BY <2>4
    <3> QED BY <3>1, <1>5
  <2> QED BY <2>1, <2>2, <2>3, <2>4
<1>8. FilesStayInReview'
  BY <1>6, <1>7 DEF FilesStayInReview, run, Touched
<1> QED BY <1>1, <1>3, <1>8 DEF AgentInv

(* A proposal that takes another's place with the same diff.                *)
LEMMA BecomesKeeps ==
    ASSUME AgentInv, NEW p \in proposals, NEW q, Becomes(p, q), Fine(q), q.diff = p.diff
    PROVE  AgentInv'
<1>1. UNCHANGED run /\ proposals' = (proposals \ {p}) \cup {q}
  BY DEF Becomes, run
<1>2. Covers({q}, p)
  BY DEF Covers
<1> QED BY ONLY AgentInv, p \in proposals, <1>1, <1>2, Replaced

LEMMA DecideKeeps == ASSUME AgentInv, NEW p \in proposals, Decide(p) PROVE AgentInv'
<1>1. PICK d \in {"accepted", "rejected"}, fs \in SUBSET Files : Becomes(p, Decided(p, fs, d))
  <2>1. files(p) \in SUBSET Files
    BY DEF files
  <2>2. \A f \in files(p) : {f} \in SUBSET Files
    BY <2>1
  <2> QED BY <2>1, <2>2 DEF Decide
<1> DEFINE q == Decided(p, fs, d)
<1>2. p \in Proposal /\ Fine(p)
  BY DEF AgentInv, Fine
<1>3. q \in Proposal
  <2>1. [f \in Files |-> IF f \in fs THEN d ELSE p.decisions[f]] \in [Files -> Decision]
    BY <1>1, <1>2 DEF Proposal, Decision
  <2>2. [f \in Files |-> IF f \notin fs THEN p.seen[f]
                        ELSE IF d = "accepted" THEN p.text[f] ELSE {}]
          \in [Files -> Text]
    BY <1>2 DEF Proposal, Text
  <2> QED BY <1>2, <2>1, <2>2 DEF Decided, Proposal
<1>4. /\ q.diff = p.diff /\ q.follow_ups = p.follow_ups /\ q.text = p.text
      /\ q.outcome = p.outcome /\ q.cut = p.cut
      /\ q.decisions = [f \in Files |-> IF f \in fs THEN d ELSE p.decisions[f]]
      /\ q.seen = [f \in Files |-> IF f \notin fs THEN p.seen[f]
                        ELSE IF d = "accepted" THEN p.text[f] ELSE {}]
  BY <1>2 DEF Decided, Proposal
<1>5. Seen(q)
  BY <1>1, <1>2, <1>4 DEF Seen, Fine
<1>6. Fine(q)
  BY <1>2, <1>3, <1>4, <1>5 DEF Fine, Unreviewed, TextIsDiffs
<1> QED BY <1>1, <1>4, <1>6, BecomesKeeps

LEMMA AddressKeepsAll == ASSUME AgentInv, NEW p \in proposals, Address(p) PROVE AgentInv'
<1> DEFINE text(diff) == [f \in Files |-> IF f \in Touched(diff) THEN diff[f].after ELSE p.text[f]]
           decisions(diff) == [f \in Files |-> IF f \in Touched(diff) THEN "undecided"
                                              ELSE p.decisions[f]]
           q(diff) == [p EXCEPT !.follow_ups = @ \cup {diff}, !.text = text(diff),
                                !.decisions = decisions(diff)]
<1>1. p \in Proposal /\ Fine(p)
  BY DEF AgentInv, Fine
<1>2. PICK diff \in FollowUps(p), allow \in BOOLEAN :
        ~rejected(trust, Named, diff, allow) /\ Becomes(p, q(diff))
  BY <1>1 DEF Address, Proposal
<1>3. diff \in Diff
  <2>1. \A page \in Pages, t \in Texts :
          [kind |-> "modified", before |-> p.text[page], after |-> t] \in Change
    BY <1>1, RunAssumption, GatesAssumption DEF Change, Proposal
  <2>2. NoChange \in Change
    BY DEF NoChange, Change, Text
  <2> QED BY <2>1, <2>2 DEF FollowUps, Diff
<1>4. text(diff) \in [Files -> Text] /\ decisions(diff) \in [Files -> Decision]
  BY <1>1, <1>3 DEF Proposal, Diff, Change, Decision
<1>5. q(diff) \in Proposal
  BY <1>1, <1>3, <1>4 DEF Proposal
<1>6. /\ q(diff).diff = p.diff /\ q(diff).follow_ups = p.follow_ups \cup {diff}
      /\ q(diff).text = text(diff) /\ q(diff).decisions = decisions(diff)
      /\ q(diff).outcome = p.outcome /\ q(diff).cut = p.cut /\ q(diff).seen = p.seen
  BY <1>1 DEF Proposal
<1>7. Gated(diff)
  BY <1>2, GatesPass
<1>8. Seen(q(diff))
  BY <1>1, <1>6 DEF Seen, Fine
<1>9. Fine(q(diff))
  <2>1. TextIsDiffs(q(diff))
    BY <1>6 DEF TextIsDiffs
  <2>2. \A g \in {q(diff).diff} \cup q(diff).follow_ups : Gated(g)
    BY <1>1, <1>6, <1>7 DEF Fine
  <2>3. Unreviewed(q(diff)) => Trusted
    BY <1>1, <1>6 DEF Fine, Unreviewed
  <2> QED BY <1>5, <1>8, <2>1, <2>2, <2>3 DEF Fine
<1> QED BY <1>2, <1>6, <1>9, BecomesKeeps

(* A part is fine, and touches what it was given.                           *)
LEMMA PartIsFine ==
    ASSUME NEW p, Fine(p), NEW fs \in SUBSET Files
    PROVE  /\ Fine(Part(p, fs))
           /\ Part(p, fs).diff = Only(p.diff, fs)
           /\ Touched(Part(p, fs).diff) = Touched(p.diff) \cap fs
<1> DEFINE q == Part(p, fs)
<1>1. p \in Proposal
  BY DEF Fine
<1>2. /\ q.diff = Only(p.diff, fs) /\ q.follow_ups = {}
      /\ q.text = [f \in Files |-> Only(p.diff, fs)[f].after]
      /\ q.decisions = [f \in Files |-> IF f \in fs THEN p.decisions[f] ELSE "none"]
      /\ q.cut = (p.cut \/ p.follow_ups # {}) /\ q.outcome = p.outcome /\ q.seen = p.seen
  BY <1>1 DEF Part, Proposal
<1>3. Only(p.diff, fs) \in Diff
  <2>1. NoChange \in Change
    BY DEF NoChange, Change, Text
  <2> QED BY <1>1, <2>1 DEF Only, Diff, Proposal
<1>4. \A f \in Files : Only(p.diff, fs)[f] = IF f \in fs THEN p.diff[f] ELSE NoChange
  BY DEF Only
<1>5. Touched(Only(p.diff, fs)) = Touched(p.diff) \cap fs
  BY <1>4 DEF Touched, NoChange
<1>6. q \in Proposal
  <2>1. [f \in Files |-> Only(p.diff, fs)[f].after] \in [Files -> Text]
    BY <1>3 DEF Diff, Change
  <2>2. [f \in Files |-> IF f \in fs THEN p.decisions[f] ELSE "none"] \in [Files -> Decision]
    BY <1>1 DEF Proposal, Decision
  <2>3. (p.cut \/ p.follow_ups # {}) \in BOOLEAN
    OBVIOUS
  <2> QED BY <1>1, <1>3, <2>1, <2>2, <2>3 DEF Part, Proposal
<1>7. Gated(Only(p.diff, fs))
  BY <1>4, <1>5 DEF Fine, Gated
<1>8. Seen(q)
  <2> SUFFICES ASSUME NEW f \in Files, q.decisions[f] = "accepted", ~q.cut
               PROVE  q.text[f] = q.seen[f]
    BY DEF Seen
  <2>1. f \in fs /\ p.decisions[f] = "accepted" /\ ~p.cut /\ p.follow_ups = {}
    BY <1>2
  <2>2. p.text[f] = p.seen[f] /\ p.text[f] = p.diff[f].after
    BY <2>1 DEF Fine, Seen, TextIsDiffs
  <2> QED BY <1>2, <1>4, <2>1, <2>2
<1>9. TextIsDiffs(q)
  BY <1>2 DEF TextIsDiffs
<1> QED BY <1>2, <1>5, <1>6, <1>7, <1>8, <1>9 DEF Fine, Unreviewed

LEMMA SplitKeeps == ASSUME AgentInv, NEW p \in proposals, Split(p) PROVE AgentInv'
<1>1. PICK first \in Touched(p.diff) \cap Pages : proposals' = (proposals \ {p}) \cup Parts(p, first)
  BY DEF Split
<1> DEFINE mine(page) == {page} \cup (IF page = first THEN Touched(p.diff) \ Pages ELSE {})
<1>2. Fine(p) /\ \A page \in Touched(p.diff) \cap Pages : mine(page) \in SUBSET Files
  BY DEF AgentInv, Touched
<1>3. Parts(p, first) = {Part(p, mine(page)) : page \in Touched(p.diff) \cap Pages}
  BY DEF Parts
<1>4. \A page \in Touched(p.diff) \cap Pages :
        /\ Fine(Part(p, mine(page)))
        /\ Part(p, mine(page)).diff = Only(p.diff, mine(page))
        /\ Touched(Part(p, mine(page)).diff) = Touched(p.diff) \cap mine(page)
  BY <1>2, PartIsFine
<1>5. \A q \in Parts(p, first) : Fine(q) /\ \A f \in Touched(q.diff) : f \in Touched(p.diff)
  <2> SUFFICES ASSUME NEW q \in Parts(p, first)
               PROVE  Fine(q) /\ \A f \in Touched(q.diff) : f \in Touched(p.diff)
    OBVIOUS
  <2>1. PICK page \in Touched(p.diff) \cap Pages : q = Part(p, mine(page))
    BY <1>3
  <2> QED BY <1>4, <2>1
<1>6. \A f \in Touched(p.diff) : \E q \in Parts(p, first) : q.diff[f] = p.diff[f]
  <2> SUFFICES ASSUME NEW f \in Touched(p.diff)
               PROVE  \E q \in Parts(p, first) : q.diff[f] = p.diff[f]
    OBVIOUS
  <2>1. PICK page \in Touched(p.diff) \cap Pages : f \in mine(page)
    BY <1>1
  <2>2. Part(p, mine(page)).diff[f] = p.diff[f]
    BY <1>4, <2>1 DEF Only, Touched
  <2> QED BY <1>3, <2>2
<1>7. \A q, r \in Parts(p, first) : \A f \in Touched(q.diff) \cap Touched(r.diff) : q = r
  <2> SUFFICES ASSUME NEW q \in Parts(p, first), NEW r \in Parts(p, first),
                      NEW f \in Touched(q.diff) \cap Touched(r.diff)
               PROVE  q = r
    OBVIOUS
  <2>1. PICK a \in Touched(p.diff) \cap Pages : q = Part(p, mine(a))
    BY <1>3
  <2>2. PICK b \in Touched(p.diff) \cap Pages : r = Part(p, mine(b))
    BY <1>3
  <2>3. f \in mine(a) \cap mine(b)
    BY <1>4, <2>1, <2>2
  <2>4. a = b
    BY <2>3
  <2> QED BY <2>1, <2>2, <2>4
<1>8. UNCHANGED run
  BY DEF Split, run
<1>9. Covers(Parts(p, first), p)
  BY ONLY <1>5, <1>6, <1>7 DEF Covers
<1> QED BY ONLY AgentInv, p \in proposals, <1>1, <1>8, <1>9, Replaced

-----------------------------------------------------------------------------
LEMMA StepAgent == AgentInv /\ [Next]_vars => AgentInv'
<1> SUFFICES ASSUME AgentInv, [Next]_vars PROVE AgentInv'
  OBVIOUS
<1>1. CASE Enter \/ Expire \/ WriteTurn \/ WriteNothing \/ Validate
  BY <1>1, OthersKeep, BeforeProposal
<1>2. CASE Authorise
  BY <1>2, AuthoriseKeeps, BeforeProposal
<1>3. CASE RecordResult
  BY <1>3, ResultKeeps, BeforeProposal
<1>4. CASE WritePage
  BY <1>4, WritePageKeeps, BeforeProposal
<1>5. CASE Delete
  BY <1>5, DeleteKeeps, BeforeProposal
<1>6. CASE PublishRun
  BY <1>6, PublishKeeps
<1>7. CASE \E p \in proposals : Decide(p) \/ Address(p) \/ Split(p)
  BY <1>7, DecideKeeps, AddressKeepsAll, SplitKeeps
<1>8. CASE UNCHANGED vars
  <2>1. UNCHANGED run /\ UNCHANGED proposals
    BY <1>8 DEF vars, run
  <2> QED BY <2>1 DEF run, record, AgentInv, RunInv, RunTypeOK, ExternalIsSeen, ServedAreCalls,
             ServedWithinBudget, WorkingCopyInScope, trust, Fine, Unreviewed, Trusted, Gated,
             FilesStayInReview
<1> QED BY <1>1, <1>2, <1>3, <1>4, <1>5, <1>6, <1>7, <1>8 DEF Next

(* The invariant of a run and its review, for every order of calls: the     *)
(* theorems below are its parts.                                            *)
THEOREM AgentAlways == Spec => []AgentInv
BY InitAgent, StepAgent, PTL DEF Spec

-----------------------------------------------------------------------------
(* Every variable keeps its type.                                           *)
THEOREM AgentTypeOK == Spec => []TypeOK
<1>1. AgentInv => TypeOK
  BY DEF AgentInv, RunInv, RunTypeOK, Fine, TypeOK
<1> QED BY <1>1, AgentAlways, PTL

(* A proposal nobody reviews came of trusted inputs, a trusted trigger and  *)
(* trusted results alone (run.rs, publish; policy.rs, decide).              *)
THEOREM UnreviewedIsTrusted == Spec => []ReviewedUnlessTrusted
<1>1. AgentInv => ReviewedUnlessTrusted
  BY DEF AgentInv, Fine, Unreviewed, Trusted, ReviewedUnlessTrusted
<1> QED BY <1>1, AgentAlways, PTL

(* An untrusted run writes no page but those its trigger named              *)
(* (scope.rs, in_scope).                                                    *)
THEOREM ScopeIsKept == Spec => []WorkingCopyInScope
<1>1. AgentInv => WorkingCopyInScope
  BY DEF AgentInv, RunInv
<1> QED BY <1>1, AgentAlways, PTL

(* What any run proposes, deletions and follow-ups included, is in its      *)
(* scope and adds no secret (gates.rs).                                     *)
THEOREM OnlyGatedIsProposed == Spec => []ProposalsAreGated
<1>1. AgentInv => ProposalsAreGated
  BY DEF AgentInv, Fine, Gated, ProposalsAreGated
<1> QED BY <1>1, AgentAlways, PTL

(* The calls served stay within the budget however they are interleaved     *)
(* with refused ones (record.rs, dispatch.rs).                              *)
THEOREM BudgetIsKept == Spec => []ServedWithinBudget
<1>1. AgentInv => ServedWithinBudget
  BY DEF AgentInv, RunInv
<1> QED BY <1>1, AgentAlways, PTL

(* No file is accepted whose text was not up when it was accepted           *)
(* (proposal.rs, accept and address).                                       *)
THEOREM AcceptedWasSeen == Spec => []AcceptedAsSeen
<1>1. AgentInv => AcceptedAsSeen
  BY DEF AgentInv, Fine, Seen, AcceptedAsSeen
<1> QED BY <1>1, AgentAlways, PTL

(* A review loses no file of the diff and duplicates none (proposal.rs,     *)
(* split_per_page).                                                         *)
THEOREM ReviewIsSound == Spec => []FilesStayInReview
<1>1. AgentInv => FilesStayInReview
  BY DEF AgentInv
<1> QED BY <1>1, AgentAlways, PTL
=============================================================================
