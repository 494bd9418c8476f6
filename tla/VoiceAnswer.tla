---------------------------- MODULE VoiceAnswer ----------------------------
(***************************************************************************)
(* What the voice agent does with one text of the user (src/voice/agent.ts):  *)
(* the text is tried against one pattern after another, the first that matches *)
(* decides, and some of them write rows before the answer says so. A text may  *)
(* match several patterns at once, so it is the set of intents it matches.     *)
(*                                                                         *)
(* Left out: the wording of texts and answers, the context of the profile, and  *)
(* what is read for an answer that only reads.                               *)
(***************************************************************************)
EXTENDS Naturals, Sequences, FiniteSetsExt

CONSTANT MaxIntents     \* patterns a text matches at once (bound)

ASSUME VoiceAnswerAssumption == MaxIntents \in Nat

VoicePolicies == {"conversation_agent", "whisper_copilot"}

\* A text matches some intents; the two refusals follow from them.
ActionIntents == {"draft", "schedule", "send", "remind"}
Intents == ActionIntents \cup {"stress", "brief", "waiting", "easier", "weekly",
    "investor_list", "strongest", "outreach", "promised", "remember", "prepare"}

Texts == {text \in SUBSET Intents : Cardinality(text) <= MaxIntents}

\* Rows an answer may leave; "earlier" is a task there was already, whatever its status.
AnswerRows == {"support", "review", "proposal", "campaign", "research", "commitment",
    "task", "earlier"}

VARIABLES
    spoken,        \* the text: the intents it matches
    spokenPolicy,
    answerStep,    \* what the answer does next
    answerRows,    \* rows it has made, and an earlier task it found
    claimed,       \* rows its text says it has made
    answerKind     \* "none", or how it ended

voiceAnswerVars == <<spoken, spokenPolicy, answerStep, answerRows, claimed, answerKind>>

VoiceAnswerInit ==
    /\ spoken = {} /\ spokenPolicy = "conversation_agent" /\ answerStep = "idle"
    /\ answerRows = {} /\ claimed = {} /\ answerKind = "none"

VoiceAnswerTypeOK ==
    /\ spoken \subseteq Intents /\ spokenPolicy \in VoicePolicies
    /\ answerStep \in {"idle", "route", "research", "tasks", "ask", "done"}
    /\ answerRows \subseteq AnswerRows /\ claimed \subseteq AnswerRows
    /\ answerKind \in {"none", "assistant_text", "provider_not_configured", "thrown"}
    /\ answerStep = "done" <=> answerKind # "none"

-----------------------------------------------------------------------------
(* The patterns, in the order they are tried. A definition marked "mutant" is *)
(* a faulty variant of the one after it; no formula uses it.                  *)

PatternsOutreachFirst == <<                                      \* mutant
    "stress", "brief", "waiting", "easier", "weekly", "refuse_action",
    "investor_list", "strongest", "outreach", "refuse_outreach",
    "draft", "schedule", "send", "remind", "promised", "remember", "prepare", "any">>

Patterns == <<
    "stress", "brief", "waiting", "easier", "weekly", "refuse_action",
    "investor_list", "strongest", "refuse_outreach", "outreach",
    "draft", "schedule", "send", "remind", "promised", "remember", "prepare", "any">>

Whispering == spokenPolicy = "whisper_copilot"

Matches(pattern) ==
    \/ pattern = "any" \/ pattern \in spoken
    \/ pattern = "refuse_action" /\ Whispering /\ spoken \cap ActionIntents # {}
    \/ pattern = "refuse_outreach" /\ Whispering /\ "outreach" \in spoken

\* The one that decides: the first that matches.
Pattern == Patterns[Min({i \in DOMAIN Patterns : Matches(Patterns[i])})]

-----------------------------------------------------------------------------
(* The answer *)

Hear(text, policy) ==
    /\ answerStep = "idle" /\ answerStep' = "route"
    /\ spoken' = text /\ spokenPolicy' = policy
    /\ UNCHANGED <<answerRows, claimed, answerKind>>

Say(rows) ==
    /\ answerStep' = "done" /\ answerKind' = "assistant_text"
    /\ answerRows' = answerRows \cup rows /\ claimed' = claimed \cup rows

\* An answer that refuses, or only reads: what is stored, or a playbook.
AnswerReads ==
    /\ answerStep = "route"
    /\ Pattern \notin ActionIntents \cup {"stress", "weekly", "outreach", "remember", "any"}
    /\ Say({})
    /\ UNCHANGED <<spoken, spokenPolicy>>

\* Support for stress: an event is stored, of which the answer says nothing.
AnswerSupports ==
    /\ answerStep = "route" /\ Pattern = "stress"
    /\ answerStep' = "done" /\ answerKind' = "assistant_text"
    /\ answerRows' = answerRows \cup {"support"}
    /\ UNCHANGED <<spoken, spokenPolicy, claimed>>

AnswerReviews ==
    /\ answerStep = "route" /\ Pattern = "weekly"
    /\ Say({"review"})
    /\ UNCHANGED <<spoken, spokenPolicy>>

AnswerProposes ==
    /\ answerStep = "route" /\ Pattern \in ActionIntents
    /\ Say({"proposal"})
    /\ UNCHANGED <<spoken, spokenPolicy>>

\* A campaign, and then the task that researches it.
CreateCampaign ==
    /\ answerStep = "route" /\ Pattern = "outreach"
    /\ answerRows' = answerRows \cup {"campaign"} /\ answerStep' = "research"
    /\ UNCHANGED <<spoken, spokenPolicy, claimed, answerKind>>

StartResearch ==
    /\ answerStep = "research"
    /\ answerStep' = "done" /\ answerKind' = "assistant_text"
    /\ answerRows' = answerRows \cup {"research"} /\ claimed' = {"campaign", "research"}
    /\ UNCHANGED <<spoken, spokenPolicy>>

\* Commitments found in the text, and then a task for each of them ...
InsertCommitments ==
    /\ answerStep = "route" /\ Pattern = "remember"
    /\ answerRows' = answerRows \cup {"commitment"} /\ answerStep' = "tasks"
    /\ UNCHANGED <<spoken, spokenPolicy, claimed, answerKind>>

\* createTaskFromCommitment: a new task, or the one of the same dedupe key there is.
CreateTaskFor(row) ==
    /\ answerStep = "tasks"
    /\ answerRows' = answerRows \cup {row}
    /\ UNCHANGED <<spoken, spokenPolicy, answerStep, claimed, answerKind>>

\* The answer says that it has proposed as many tasks as there are commitments.
ClaimTasks ==
    /\ answerStep = "tasks" /\ answerRows \cap {"task", "earlier"} # {}
    /\ answerStep' = "done" /\ answerKind' = "assistant_text"
    /\ claimed' = {"task"}
    /\ UNCHANGED <<spoken, spokenPolicy, answerRows>>

\* ... or none are found, and the text is answered as any other.
FindNoCommitment ==
    /\ answerStep = "route" /\ Pattern = "remember"
    /\ IF "prepare" \in spoken THEN Say({})
       ELSE answerStep' = "ask" /\ UNCHANGED <<answerRows, claimed, answerKind>>
    /\ UNCHANGED <<spoken, spokenPolicy>>

AskProvider ==
    /\ answerStep = "route" /\ Pattern = "any"
    /\ answerStep' = "ask"
    /\ UNCHANGED <<spoken, spokenPolicy, answerRows, claimed, answerKind>>

\* The provider answers, or there is none, or the budget is spent.
ProviderSpeaks ==
    /\ answerStep = "ask" /\ answerStep' = "done"
    /\ answerKind' \in {"assistant_text", "provider_not_configured"}
    /\ UNCHANGED <<spoken, spokenPolicy, answerRows, claimed>>

\* A statement or the provider fails: the socket answers with an error.
AnswerThrows ==
    /\ answerStep \notin {"idle", "done"}
    /\ answerStep' = "done" /\ answerKind' = "thrown"
    /\ UNCHANGED <<spoken, spokenPolicy, answerRows, claimed>>

VoiceAnswerNext ==
    \/ \E text \in Texts, policy \in VoicePolicies : Hear(text, policy)
    \/ AnswerReads \/ AnswerSupports \/ AnswerReviews \/ AnswerProposes
    \/ CreateCampaign \/ StartResearch \/ InsertCommitments \/ ClaimTasks
    \/ \E row \in {"task", "earlier"} : CreateTaskFor(row)
    \/ FindNoCommitment \/ AskProvider \/ ProviderSpeaks \/ AnswerThrows

VoiceAnswerSpec == VoiceAnswerInit /\ [][VoiceAnswerNext]_voiceAnswerVars

-----------------------------------------------------------------------------
(* Properties *)

\* Whatever else a text says, nothing is proposed, researched or set up for
\* outreach while the user is in a live conversation; a text leaves the rows of
\* one pattern only; and a row an answer names was made for it, but that a task may
\* be one found, of an earlier commitment, and no longer in the inbox
\* (answerVoiceUserText, createTaskFromCommitment).
AnswersKeepPolicy ==
    /\ Whispering => answerRows \cap {"proposal", "campaign", "research"} = {}
    /\ \E rows \in {{"support"}, {"review"}, {"proposal"}, {"campaign", "research"},
                    {"commitment", "task", "earlier"}} : answerRows \subseteq rows
    /\ claimed \ {"task"} \subseteq answerRows
    /\ "task" \in claimed => answerRows \cap {"task", "earlier"} # {}
    /\ answerKind = "assistant_text" =>
         answerRows \ {"support", "commitment", "task", "earlier"} \subseteq claimed
=============================================================================
