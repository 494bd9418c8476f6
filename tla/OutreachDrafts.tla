--------------------------- MODULE OutreachDrafts ---------------------------
(***************************************************************************)
(* The email drafts of one outreach campaign (src/outreach/outreach-draft.ts,  *)
(* quality.ts and compliance.ts): a call picks investors, and for each of them  *)
(* reads the sources, inserts a draft and then the event of its compliance       *)
(* check; drafts are reviewed, draftDecisions and proposed as actions meanwhile, and     *)
(* the leads they are written to dismissed and merged (InvestorLeads). No two      *)
(* of these statements are one transaction.                                   *)
(*                                                                         *)
(* All that the checks ask of a draft's text, which nothing changes later, is     *)
(* one value of DraftTexts. Left out: the status of an investor, which only picks   *)
(* who a draft is for, scores, reviews of leads, and what becomes of a proposal     *)
(* (ActionProposals).                                                         *)
(***************************************************************************)
EXTENDS Naturals, Sequences

CONSTANTS
    Investors,       \* ids of investors, each also that of the source it is found in
    OutreachCalls,   \* calls that run at the same time
    MaxDraftRows,    \* drafts ever inserted (bound)
    MaxDraftProposals    \* proposals ever inserted (bound)

ASSUME DraftAssumption ==
    MaxDraftRows \in Nat /\ MaxDraftProposals \in Nat /\ "none" \notin Investors

VARIABLES
    sourceOf,        \* investor_sources: the investor each is of, "none" if not inserted
    outreachDrafts,  \* outreach_drafts in insertion order
    draftProposals,  \* the action proposals made, each by the draft it is of
    complianceEvents,    \* outreach_compliance_events of the drafts
    draftCalls,      \* what each call does
    draftDecisions,  \* history: of each draft the last decision of the user
    draftCut         \* history: <<what, id>> a call was cut at

draftTables == <<sourceOf, outreachDrafts, draftProposals, complianceEvents>>
outreachVars == <<draftTables, draftCalls, draftDecisions, draftCut>>

DraftTexts == {"clean", "wordy", "blocked"}    \* "wordy" is compliant, but too long or pushy
Sources == Investors
NoDraftCall == [pc |-> "none"]

\* checkOutboundCompliance, of whose notes nothing else is asked
Compliant(text) == text # "blocked"

SourcesFound(i) == {s \in Sources : sourceOf[s] = i}
Draft(d) == outreachDrafts[d]

OutreachInit ==
    /\ sourceOf = [s \in Sources |-> "none"]
    /\ outreachDrafts = <<>> /\ draftProposals = <<>> /\ complianceEvents = {}
    /\ draftCalls = [c \in OutreachCalls |-> NoDraftCall]
    /\ draftDecisions = <<>> /\ draftCut = {}

DraftRows == [sources : SUBSET Sources, text : DraftTexts,
              status : {"draft", "proposed", "approved", "rejected"},
              proposal : 0..MaxDraftProposals]
Events == [draft : 1..MaxDraftRows, type : {"outbound_compliance_check", "draft_quality_review"},
           ok : BOOLEAN]

OutreachTypeOK ==
    /\ sourceOf \in [Sources -> Investors \cup {"none"}]
    /\ outreachDrafts \in Seq(DraftRows) /\ Len(outreachDrafts) <= MaxDraftRows
    /\ draftProposals \in Seq(DOMAIN outreachDrafts)
    /\ complianceEvents \subseteq Events
    /\ draftDecisions \in [DOMAIN outreachDrafts -> {"none", "approved", "rejected"}]

-----------------------------------------------------------------------------
(* draftOutreachEmails *)

DraftAt(c, pc) == draftCalls[c].pc = pc
DraftSet(c, call) == draftCalls' = [draftCalls EXCEPT ![c] = call]
DraftStart(c, call) == draftCalls[c] = NoDraftCall /\ DraftSet(c, call)
DraftDone(c) == DraftSet(c, NoDraftCall)

\* The investors the user names, dismissed or not, or else all not dismissed: any.
StartDrafts(c, todo) ==
    /\ todo # {} /\ DraftStart(c, [pc |-> "sources", todo |-> todo])
    /\ UNCHANGED <<draftTables, draftDecisions, draftCut>>

NextInvestor(c, todo) ==
    IF todo = {} THEN DraftDone(c) ELSE DraftSet(c, [pc |-> "sources", todo |-> todo])

ReadSources(c) ==
    /\ DraftAt(c, "sources")
    /\ \E i \in draftCalls[c].todo :
         LET todo == draftCalls[c].todo \ {i}  found == SourcesFound(i) IN
         IF found = {} THEN NextInvestor(c, todo)
         ELSE DraftSet(c, [pc |-> "insert", todo |-> todo, sources |-> found])
    /\ UNCHANGED <<draftTables, draftDecisions, draftCut>>

InsertDraft(c, text) ==
    /\ DraftAt(c, "insert") /\ Len(outreachDrafts) < MaxDraftRows          \* bound
    /\ outreachDrafts' = Append(outreachDrafts,
         [sources |-> draftCalls[c].sources, text |-> text,
          status |-> IF Compliant(text) THEN "proposed" ELSE "draft", proposal |-> 0])
    /\ DraftSet(c, [pc |-> "check", todo |-> draftCalls[c].todo, draft |-> Len(outreachDrafts) + 1])
    /\ draftDecisions' = Append(draftDecisions, "none")
    /\ UNCHANGED <<sourceOf, draftProposals, complianceEvents, draftCut>>

RecordEvent(d, type, ok) ==
    complianceEvents' = complianceEvents \cup {[draft |-> d, type |-> type, ok |-> ok]}

RecordCheck(c) ==
    /\ DraftAt(c, "check")
    /\ LET d == draftCalls[c].draft IN
         RecordEvent(d, "outbound_compliance_check", Compliant(Draft(d).text))
    /\ NextInvestor(c, draftCalls[c].todo)
    /\ UNCHANGED <<sourceOf, outreachDrafts, draftProposals, draftDecisions, draftCut>>

-----------------------------------------------------------------------------
(* reviewDraftQuality: its SELECTs, and the INSERT. The SELECT of the draft, of     *)
(* which only what never changes is used, counts to that of its sources.            *)

\* The sources of the draft that are stored, whoever they are of by now.
Evidence(d) == {s \in Draft(d).sources : sourceOf[s] # "none"}

PassesReview(d) ==
    Draft(d).text = "clean" /\ Evidence(d) # {} /\ Evidence(d) = Draft(d).sources

ReviewDraft(c, d) ==
    /\ DraftStart(c, [pc |-> "review", draft |-> d, passed |-> PassesReview(d)])
    /\ UNCHANGED <<draftTables, draftDecisions, draftCut>>

RecordReview(c) ==
    /\ DraftAt(c, "review")
    /\ RecordEvent(draftCalls[c].draft, "draft_quality_review", draftCalls[c].passed)
    /\ DraftDone(c)
    /\ UNCHANGED <<sourceOf, outreachDrafts, draftProposals, draftDecisions, draftCut>>

\* latestDraftQualityReview is the newest of these.
QualityReviews(d) == {e \in complianceEvents : e.draft = d /\ e.type = "draft_quality_review"}

-----------------------------------------------------------------------------
(* createActionProposalForDraft and updateOutreachDraftStatus *)

\* The SELECT of the draft, of which only what never changes is used, and the INSERT.
InsertDraftProposal(c, d) ==
    /\ Len(draftProposals) < MaxDraftProposals          \* bound
    /\ draftProposals' = Append(draftProposals, d)
    /\ DraftStart(c, [pc |-> "link", draft |-> d, proposal |-> Len(draftProposals) + 1])
    /\ UNCHANGED <<sourceOf, outreachDrafts, complianceEvents, draftDecisions, draftCut>>

LinkProposal(c) ==
    /\ DraftAt(c, "link")
    /\ outreachDrafts' = [outreachDrafts EXCEPT
         ![draftCalls[c].draft].proposal = draftCalls[c].proposal]
    /\ DraftDone(c)
    /\ UNCHANGED <<sourceOf, draftProposals, complianceEvents, draftDecisions, draftCut>>

\* campaignReviewPack: the draft whose proposal a draft is shown with, 0 for none.
ShownProposalOf(d) == IF Draft(d).proposal = 0 THEN 0 ELSE draftProposals[Draft(d).proposal]

\* Whatever the status is: a blocked draft may be approved, a rejected one too.
DecideDraft(d, status) ==
    /\ outreachDrafts' = [outreachDrafts EXCEPT ![d].status = status]
    /\ draftDecisions' = [draftDecisions EXCEPT ![d] = status]
    /\ UNCHANGED <<sourceOf, draftProposals, complianceEvents, draftCalls, draftCut>>

\* draftsNeedingReview of campaignQualitySummary
NeedsReview(d) == Draft(d).status \in {"draft", "proposed"}

-----------------------------------------------------------------------------
(* What becomes of the leads meanwhile. *)

InsertInvestorSource(i) ==
    /\ sourceOf[i] = "none" /\ sourceOf' = [sourceOf EXCEPT ![i] = i]
    /\ UNCHANGED <<outreachDrafts, draftProposals, complianceEvents, draftCalls,
                   draftDecisions, draftCut>>

\* The UPDATE of mergeInvestorLeads on the sources; its others change nothing here.
MergeInvestors(i, target) ==
    /\ i # target /\ SourcesFound(i) # {}
    /\ sourceOf' = [s \in Sources |-> IF sourceOf[s] = i THEN target ELSE sourceOf[s]]
    /\ UNCHANGED <<outreachDrafts, draftProposals, complianceEvents, draftCalls,
                   draftDecisions, draftCut>>

\* A statement fails or the process dies, once in a run (bound).
DraftCallFails(c) ==
    /\ draftCalls[c] # NoDraftCall /\ draftCut = {}
    /\ draftCut' = CASE DraftAt(c, "check") -> {<<"draft", draftCalls[c].draft>>}
                     [] DraftAt(c, "link")  -> {<<"proposal", draftCalls[c].proposal>>}
                     [] OTHER -> {<<"none", 0>>}
    /\ DraftDone(c)
    /\ UNCHANGED <<draftTables, draftDecisions>>

OutreachNext ==
    \/ \E c \in OutreachCalls :
         \/ \E todo \in SUBSET Investors : StartDrafts(c, todo)
         \/ ReadSources(c) \/ \E text \in DraftTexts : InsertDraft(c, text)
         \/ RecordCheck(c) \/ RecordReview(c) \/ LinkProposal(c) \/ DraftCallFails(c)
         \/ \E d \in DOMAIN outreachDrafts : ReviewDraft(c, d) \/ InsertDraftProposal(c, d)
    \/ \E d \in DOMAIN outreachDrafts, status \in {"approved", "rejected"} : DecideDraft(d, status)
    \/ \E i \in Investors : InsertInvestorSource(i) \/ \E j \in Investors : MergeInvestors(i, j)

OutreachSpec == OutreachInit /\ [][OutreachNext]_outreachVars

-----------------------------------------------------------------------------
(* Properties *)

\* What is recorded of a draft is of its text: every review, whenever it is made and
\* whatever was merged since, says the same and so does the newest, and none passes a
\* draft that was blocked when it was written; a draft with no event of its check is
\* at the INSERT of it, or its call was cut there (docs/outreach/
\* investor-outreach-policy.md, Required Checks).
ReviewsAgree ==
    \A d \in DOMAIN outreachDrafts :
      LET checks == {e \in complianceEvents : e.draft = d} \ QualityReviews(d) IN
        /\ \A e \in QualityReviews(d) : e.ok <=> Draft(d).text = "clean"
        /\ \A e \in checks : e.ok <=> Draft(d).text # "blocked"
        /\ \/ checks # {} \/ <<"draft", d>> \in draftCut
           \/ \E c \in OutreachCalls : DraftAt(c, "check") /\ draftCalls[c].draft = d

\* A draft needs review until the user decides, and its status is the last decision:
\* no call that makes a proposal of it meanwhile puts an older one back.
DecisionStands == \A d \in DOMAIN outreachDrafts :
    IF draftDecisions[d] = "none" THEN NeedsReview(d) ELSE Draft(d).status = draftDecisions[d]

\* No proposal is lost or of another draft: a draft is shown with one of its own, and
\* a draft that has proposals but is shown with none is about to be linked to each,
\* unless its call was cut before.
ProposalsAreLinked ==
    /\ \A d \in DOMAIN outreachDrafts : ShownProposalOf(d) \in {0, d}
    /\ \A p \in DOMAIN draftProposals :
         \/ ShownProposalOf(draftProposals[p]) # 0 \/ <<"proposal", p>> \in draftCut
         \/ \E c \in OutreachCalls : DraftAt(c, "link") /\ draftCalls[c].proposal = p

DraftsAreReviewable == ReviewsAgree /\ DecisionStands /\ ProposalsAreLinked
=============================================================================
