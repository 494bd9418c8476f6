---------------------------- MODULE InvestorLeads ----------------------------
(***************************************************************************)
(* The investor leads of one campaign (src/outreach): research inserts a lead, *)
(* then the source it was found in, then what the source says of its contact;  *)
(* leads of one firm are marked duplicates, merged or told apart. No two of     *)
(* these statements are one transaction. A call that fails, or whose process   *)
(* dies, is one that takes no further step.                                   *)
(*                                                                         *)
(* All leads here are of one firm, and each is found in one source. Left out:   *)
(* the search itself (RequestBudget), scores, the shortlist, quality reviews,   *)
(* drafts and compliance events, which change no field that is here.           *)
(***************************************************************************)
EXTENDS Naturals, FiniteSets

CONSTANTS
    Leads,         \* ids of leads, each also that of the source it is found in
    LeadCalls      \* calls that run at the same time

ASSUME LeadAssumption == "none" \notin Leads

VARIABLES
    leads,         \* investor_profiles
    sources,       \* investor_sources: the lead each belongs to, and if it has an email
    leadCalls,     \* what each call does
    noted          \* history: <<what, lead>>, see below

leadRows == <<leads, sources>>
leadVars == <<leadRows, leadCalls, noted>>

NoLead == [duplicate |-> "none"]
NoSource == [of |-> "none"]
NoLeadCall == [pc |-> "none"]

LeadStored(i) == leads[i] # NoLead
SourcesOf(i) == {s \in Leads : sources[s] # NoSource /\ sources[s].of = i}

LeadInit ==
    /\ leads = [i \in Leads |-> NoLead] /\ sources = [s \in Leads |-> NoSource]
    /\ noted = {}
    /\ leadCalls = [c \in LeadCalls |-> NoLeadCall]

\* What is noted of a lead: its INSERT fell between the search for duplicates
\* and the INSERT of another, it was told apart, a merge into it began, its
\* source came after its sources had been moved away.
Notes == {"raced", "dismissed", "target", "late"}

LeadTypeOK ==
    /\ leads \in [Leads -> {NoLead} \cup
         [duplicate : {"unique", "candidate_duplicate", "merged"}, email : Leads \cup {"none"},
          emailStatus : {"unknown", "source_backed"}]]
    /\ sources \in [Leads -> {NoSource} \cup [of : Leads, email : BOOLEAN]]
    /\ noted \subseteq Notes \X Leads

-----------------------------------------------------------------------------
(* A definition marked "mutant" is a faulty variant of the one after it; no    *)
(* formula uses it.                                                          *)

LeadAt(c, pc) == leadCalls[c].pc = pc
LeadSet(c, call) == leadCalls' = [leadCalls EXCEPT ![c] = call]
LeadStart(c, call) == leadCalls[c] = NoLeadCall /\ LeadSet(c, call)
LeadDone(c) == LeadSet(c, NoLeadCall)

(* persistSourceBackedInvestors *)

\* detectDuplicateStatus
DuplicateStatus ==
    IF \E i \in Leads : LeadStored(i) /\ leads[i].duplicate = "unique"
    THEN "candidate_duplicate" ELSE "unique"

DetectDuplicate(c) ==
    /\ LeadStart(c, [pc |-> "lead", duplicate |-> DuplicateStatus])
    /\ UNCHANGED <<leadRows, noted>>

InsertLead(c) ==
    /\ LeadAt(c, "lead")
    /\ \E i \in Leads :
         /\ ~LeadStored(i)
         /\ leads' = [leads EXCEPT ![i] =
              [duplicate |-> leadCalls[c].duplicate, email |-> "none", emailStatus |-> "unknown"]]
         /\ LeadSet(c, [pc |-> "source", lead |-> i])
         /\ noted' = noted \cup
              IF \E d \in LeadCalls \ {c} : LeadAt(d, "lead") THEN {<<"raced", i>>} ELSE {}
    /\ UNCHANGED sources

MovedAway(i) == leads[i].duplicate = "merged" \/ \E c \in LeadCalls :
    leadCalls[c].pc \in {"target", "merged"} /\ leadCalls[c].lead = i

InsertSource(c, email) ==
    /\ LeadAt(c, "source")
    /\ LET i == leadCalls[c].lead IN
         /\ sources' = [sources EXCEPT ![i] = [of |-> i, email |-> email]]
         /\ LeadSet(c, [pc |-> "contact", lead |-> i, email |-> email])
         /\ noted' = noted \cup IF MovedAway(i) THEN {<<"late", i>>} ELSE {}
    /\ UNCHANGED leads

\* assessContactConfidence of the one source, and the UPDATE.
UpdateContact(c) ==
    /\ LeadAt(c, "contact")
    /\ LET i == leadCalls[c].lead  found == leadCalls[c].email IN
         leads' = [leads EXCEPT
             ![i].email = IF found THEN i ELSE "none",
             ![i].emailStatus = IF found THEN "source_backed" ELSE "unknown"]
    /\ LeadDone(c)
    /\ UNCHANGED <<sources, noted>>

-----------------------------------------------------------------------------
(* mergeInvestorLeads and dismissDuplicateCandidate *)

\* The two SELECTs; any two leads of a firm may be merged, merged ones too.
StartMerge(c, duplicate, target) ==
    /\ duplicate # target /\ LeadStored(duplicate) /\ LeadStored(target)
    /\ <<"target", target>> \notin noted                                     \* bound
    /\ LeadStart(c, [pc |-> "move", lead |-> duplicate, target |-> target,
                     read |-> leads[target], other |-> leads[duplicate]])
    /\ noted' = noted \cup {<<"target", target>>}
    /\ UNCHANGED leadRows

MoveSources(c) ==
    /\ LeadAt(c, "move")
    /\ LET call == leadCalls[c] IN
         sources' = [s \in Leads |-> IF s \in SourcesOf(call.lead)
                                     THEN [sources[s] EXCEPT !.of = call.target] ELSE sources[s]]
    /\ leadCalls' = [leadCalls EXCEPT ![c].pc = "target"]
    /\ UNCHANGED <<leads, noted>>

MergedStatusOfTarget(target, other) == target.emailStatus        \* mutant

MergedStatus(target, other) ==
    IF target.emailStatus = "source_backed" THEN target.emailStatus ELSE other.emailStatus

\* The target's UPDATE, from both rows as they were read.
UpdateTarget(c) ==
    /\ LeadAt(c, "target")
    /\ LET call == leadCalls[c]  target == call.read  other == call.other IN
         leads' = [leads EXCEPT
             ![call.target].email = IF target.email # "none" THEN target.email ELSE other.email,
             ![call.target].emailStatus = MergedStatus(target, other)]
    /\ LeadSet(c, [pc |-> "merged", lead |-> leadCalls[c].lead])
    /\ UNCHANGED <<sources, noted>>

MarkMerged(c) ==
    /\ LeadAt(c, "merged")
    /\ leads' = [leads EXCEPT ![leadCalls[c].lead].duplicate = "merged"]
    /\ LeadDone(c)
    /\ UNCHANGED <<sources, noted>>

DismissDuplicate(i) ==
    /\ LeadStored(i) /\ leads[i].duplicate # "unique"
    /\ <<"dismissed", i>> \notin noted                                       \* bound
    /\ leads' = [leads EXCEPT ![i].duplicate = "unique"]
    /\ noted' = noted \cup {<<"dismissed", i>>}
    /\ UNCHANGED <<sources, leadCalls>>

LeadNext ==
    \/ \E c \in LeadCalls :
         \/ DetectDuplicate(c) \/ InsertLead(c) \/ UpdateContact(c)
         \/ \E email \in BOOLEAN : InsertSource(c, email)
         \/ \E i, j \in Leads : StartMerge(c, i, j)
         \/ MoveSources(c) \/ UpdateTarget(c) \/ MarkMerged(c)
    \/ \E i \in Leads : DismissDuplicate(i)

LeadSpec == LeadInit /\ [][LeadNext]_leadVars

-----------------------------------------------------------------------------
(* Properties *)

\* docs/outreach/contact-confidence-policy.md:7: an email is stored only when it
\* appears in a stored source. A merge and a research that overwrite each other's
\* contact leave the email, its source and its status of one piece.
EmailIsSourced == \A i \in Leads : LeadStored(i) =>
    /\ leads[i].email # "none" <=> leads[i].emailStatus = "source_backed"
    /\ leads[i].email # "none" =>
         sources[leads[i].email] # NoSource /\ sources[leads[i].email].email

\* One lead of a firm is unique: another one was found by a research that ran at
\* the same time, or was told apart by the user.
OneUniqueLead == \A i, j \in Leads :
    /\ i # j /\ LeadStored(i) /\ LeadStored(j)
    /\ leads[i].duplicate = "unique" /\ leads[j].duplicate = "unique"
    => \E k \in {i, j} : {<<"raced", k>>, <<"dismissed", k>>} \cap noted # {}

\* A merged lead has no sources, so that no draft is written to it, unless a lead
\* was merged into it or its source came late.
MergedIsSilent == \A i \in Leads :
    LeadStored(i) /\ leads[i].duplicate = "merged" /\ SourcesOf(i) # {}
        => {<<"target", i>>, <<"late", i>>} \cap noted # {}

LeadsAreSound == EmailIsSourced /\ OneUniqueLead /\ MergedIsSilent
=============================================================================
