---------------------------- MODULE LearnedSkills ----------------------------
(***************************************************************************)
(* Skills of one user, workflow templates the assistant may use (src/skills): a *)
(* saved session's reflection or a brain query proposes one, an import brings   *)
(* one or a fact of the profile, and the user approves, enables and disables    *)
(* them. An export carries the enabled skills, and their status with them.      *)
(* Imported private facts and what is said for support are kept if the user agrees;  *)
(* the stress a text tells of is stored as a proposed fact without being asked for.  *)
(*                                                                         *)
(* Left out: names, steps and trigger patterns (a draft is dangerous or not, as  *)
(* validateSkillManifest finds), facts of low sensitivity, the manifest kept    *)
(* with a version, which nothing reads, the row of the reflection, and that a crisis  *)
(* is stored with its content whatever was agreed to.                           *)
(***************************************************************************)
EXTENDS Naturals, Sequences

CONSTANTS
    SkillCalls,    \* calls that run at the same time
    MaxSkills      \* skills there may be

VARIABLES
    skills,        \* their status, in the order of their ids
    kept,          \* imported private facts, and stress_events that have content
    stressFacts,   \* statuses of the facts of human_profile_facts that tell of stress
    stressOptIn,   \* human_profiles.stress_support_opt_in
    skillCalls,    \* what each call does
    approvedSkills,  \* history: skills the user approved
    agreed         \* history: what the user agreed to have kept

skillVars == <<skills, kept, stressFacts, stressOptIn, skillCalls, approvedSkills, agreed>>

SkillStatus == {"proposed", "approved", "enabled", "disabled"}
PrivateFacts == {"sensitive", "stress"}
NoSkillCall == [pc |-> "none"]
SkillIds == DOMAIN skills

SkillsInit ==
    /\ skills = <<>> /\ kept = {} /\ stressFacts = {} /\ stressOptIn = FALSE
    /\ skillCalls = [c \in SkillCalls |-> NoSkillCall]
    /\ approvedSkills = {} /\ agreed = {}

SkillsTypeOK ==
    /\ skills \in Seq(SkillStatus) /\ approvedSkills \subseteq SkillIds
    /\ kept \cup agreed \subseteq PrivateFacts \cup {"support", "told"}
    /\ stressFacts \subseteq {"proposed", "confirmed"} /\ stressOptIn \in BOOLEAN
    /\ \A c \in SkillCalls : skillCalls[c].pc \in 
         {"none", "draft", "facts", "skills", "enable", "support", "told"}

-----------------------------------------------------------------------------
(* A definition marked "mutant" is a faulty variant of the one after it; no    *)
(* formula uses it.                                                          *)

SkillAt(c, pc) == skillCalls[c].pc = pc
SkillSet(c, call) == skillCalls' = [skillCalls EXCEPT ![c] = call]
SkillStart(c, call) == skillCalls[c] = NoSkillCall /\ SkillSet(c, call)
SkillDone(c) == SkillSet(c, NoSkillCall)

\* reflectOnSavedSession has found its session saved, or answerBrainQuery a
\* workflow in the text. proposeSkillFromReflection drafts nothing from words
\* that are dangerous.
DraftSkill(c) ==
    /\ SkillStart(c, [pc |-> "draft"])
    /\ UNCHANGED <<skills, kept, stressFacts, stressOptIn, approvedSkills, agreed>>

\* createProposedSkill
InsertLearned(c) ==
    /\ SkillAt(c, "draft") /\ SkillDone(c) /\ Len(skills) < MaxSkills
    /\ skills' = Append(skills, "proposed")
    /\ UNCHANGED <<kept, stressFacts, stressOptIn, approvedSkills, agreed>>

\* An item of what exportMemorySkills makes: skills that are enabled, facts, the
\* sensitive ones by option.
Exported == [skill : {"enabled"}] \cup [fact : PrivateFacts]

\* An item of a payload that can be parsed: an export, or what the user makes of
\* one. A status that is missing is read as "enabled".
Portable == Exported \cup [skill : {"proposed", "dangerous"}]

\* importMemorySkills, up to its INSERT of the facts it does not skip.
StartImport(c, item, allow) ==
    /\ LET skipped == IF item.fact = "stress" THEN ~stressOptIn /\ ~allow ELSE ~allow IN
       IF "skill" \in DOMAIN item
       THEN SkillStart(c, [pc |-> "skills", status |-> item.skill]) /\ UNCHANGED agreed
       ELSE /\ ~skipped
            /\ SkillStart(c, [pc |-> "facts", fact |-> item.fact])
            /\ agreed' = IF allow THEN agreed \cup {item.fact} ELSE agreed
    /\ UNCHANGED <<skills, kept, stressFacts, stressOptIn, approvedSkills>>

ImportFacts(c) ==
    /\ SkillAt(c, "facts") /\ SkillDone(c)
    /\ kept' = kept \cup {skillCalls[c].fact}
    /\ UNCHANGED <<skills, stressFacts, stressOptIn, approvedSkills, agreed>>

\* What validateSkillManifest finds of a skill.
isSkillSafe(skill) == skill # "dangerous"

ImportKeepsStatus(c) ==                                          \* mutant
    /\ SkillAt(c, "skills") /\ SkillDone(c) /\ Len(skills) < MaxSkills
    /\ isSkillSafe(skillCalls[c].status)
    /\ skills' = Append(skills, skillCalls[c].status)
    /\ UNCHANGED <<kept, stressFacts, stressOptIn, approvedSkills, agreed>>

\* A dangerous skill is skipped, another proposed whatever its status was.
ImportSkills(c) ==
    /\ SkillAt(c, "skills") /\ SkillDone(c)
    /\ IF isSkillSafe(skillCalls[c].status)
       THEN Len(skills) < MaxSkills /\ skills' = Append(skills, "proposed")
       ELSE UNCHANGED skills
    /\ UNCHANGED <<kept, stressFacts, stressOptIn, approvedSkills, agreed>>

\* approveSkill and disableSkill update the row whatever its status.
ApproveSkillRow(i) ==
    /\ skills' = [skills EXCEPT ![i] = "approved"]
    /\ approvedSkills' = approvedSkills \cup {i}
    /\ UNCHANGED <<kept, stressFacts, stressOptIn, skillCalls, agreed>>

DisableSkillRow(i) ==
    /\ skills' = [skills EXCEPT ![i] = "disabled"]
    /\ UNCHANGED <<kept, stressFacts, stressOptIn, skillCalls, approvedSkills, agreed>>

\* enableSkill: the status is read, then the row updated.
ReadSkillRow(c, i) ==
    /\ skills[i] \in {"approved", "enabled"}
    /\ SkillStart(c, [pc |-> "enable", skill |-> i])
    /\ UNCHANGED <<skills, kept, stressFacts, stressOptIn, approvedSkills, agreed>>

EnableSkill(c) ==
    /\ SkillAt(c, "enable") /\ SkillDone(c)
    /\ skills' = [skills EXCEPT ![skillCalls[c].skill] = "enabled"]
    /\ UNCHANGED <<kept, stressFacts, stressOptIn, approvedSkills, agreed>>

\* setStressSupportOptIn
SetStressSupport(optIn) ==
    /\ stressOptIn' = optIn
    /\ agreed' = IF optIn THEN agreed \cup {"stress", "support", "told"} ELSE agreed
    /\ UNCHANGED <<skills, kept, stressFacts, skillCalls, approvedSkills>>

\* A text that tells of stress (proposeProfileFactsFromText): the opt-in is read, and the
\* fact stored, confirmed at once with the opt-in and HUMAN_PROFILE_AUTO_SAVE_SENSITIVE.
ReadToldStress(c) ==
    /\ SkillStart(c, [pc |-> "told", optedIn |-> stressOptIn])
    /\ UNCHANGED <<skills, kept, stressFacts, stressOptIn, approvedSkills, agreed>>

InsertToldStress(c) ==
    /\ SkillAt(c, "told") /\ SkillDone(c)
    /\ \E status \in IF skillCalls[c].optedIn THEN {"proposed", "confirmed"} ELSE {"proposed"} :
         stressFacts' = stressFacts \cup {status}
    /\ UNCHANGED <<skills, kept, stressOptIn, approvedSkills, agreed>>

\* confirmProfileFact, by the user
ConfirmToldStress ==
    /\ stressFacts # {} /\ stressFacts' = stressFacts \cup {"confirmed"}
    /\ agreed' = agreed \cup {"told"}
    /\ UNCHANGED <<skills, kept, stressOptIn, skillCalls, approvedSkills>>

\* generateStressSupport: the profile is read, then the event stored, with its
\* content if the user had opted in. That of a crisis always has content.
ReadStressSupport(c) ==
    /\ SkillStart(c, [pc |-> "support", optedIn |-> stressOptIn])
    /\ UNCHANGED <<skills, kept, stressFacts, stressOptIn, approvedSkills, agreed>>

InsertStressEvent(c) ==
    /\ SkillAt(c, "support") /\ SkillDone(c)
    /\ kept' = IF skillCalls[c].optedIn THEN kept \cup {"support"} ELSE kept
    /\ UNCHANGED <<skills, stressFacts, stressOptIn, approvedSkills, agreed>>

\* A statement fails or the process dies.
SkillCallFails(c) ==
    /\ SkillDone(c)
    /\ UNCHANGED <<skills, kept, stressFacts, stressOptIn, approvedSkills, agreed>>

-----------------------------------------------------------------------------

SkillsNext ==
    \/ \E c \in SkillCalls :
         \/ DraftSkill(c) \/ InsertLearned(c)
         \/ \E item \in Portable, allow \in BOOLEAN : StartImport(c, item, allow)
         \/ ImportFacts(c) \/ ImportSkills(c)
         \/ \E i \in SkillIds : ReadSkillRow(c, i)
         \/ EnableSkill(c) \/ ReadStressSupport(c) \/ InsertStressEvent(c)
         \/ ReadToldStress(c) \/ InsertToldStress(c) \/ SkillCallFails(c)
    \/ \E i \in SkillIds : ApproveSkillRow(i) \/ DisableSkillRow(i)
    \/ \E optIn \in BOOLEAN : SetStressSupport(optIn)
    \/ ConfirmToldStress

-----------------------------------------------------------------------------
(* Properties *)

\* A skill the assistant uses was approved by its user, wherever it comes from: none is
\* enabled by being learned or imported, or by an enable that overlaps other calls
\* (docs/brain/skill-learning-policy.md). No dangerous skill is stored. No private fact
\* is imported, and nothing said for support kept, that the user has not agreed to, once;
\* and stress a text tells of is a confirmed fact only if the user had opted in when it
\* was told, or has confirmed it. That it is stored at all, as a proposed fact, is not
\* asked for, which docs/brain/human-model-policy.md:27 says it is.
SkillsAreApproved ==
    /\ \A i \in SkillIds : skills[i] \in {"approved", "enabled"} => i \in approvedSkills
    /\ \A i \in SkillIds : isSkillSafe(skills[i])
    /\ kept \subseteq agreed
    /\ "confirmed" \in stressFacts => "told" \in agreed
=============================================================================
