---------------------------- MODULE HumanProfile ----------------------------
(***************************************************************************)
(* What is kept about one user (src/human): texts propose facts, some are      *)
(* confirmed at once, others by the user, and a confirmed fact is applied to   *)
(* the profile row by a SELECT and an UPDATE of what was selected. One voice   *)
(* session tells facts, is saved and reflected on, discarded or interrupted;   *)
(* POST /brain/query tells facts of it, too, also when it has ended.          *)
(*                                                                         *)
(* A project joins a list that keeps the last ones; a goal, which stands for an    *)
(* occupation, a style and a preference too, replaces the one there was; a        *)
(* sensitive candidate changes nothing of the row. The list has a project of an   *)
(* earlier session.                                                           *)
(*                                                                         *)
(* Left out: the wording that makes a fact, its confidence, and the opt-in to     *)
(* stress support (an input). A preference shares the column of the goal: one that *)
(* is applied from a row read before may take the goal out again, as a project does *)
(* another one, which the single kind cannot show.                              *)
(***************************************************************************)
EXTENDS Naturals, Sequences

CONSTANTS
    Facts,          \* ids of fact rows
    ProfileCalls,   \* calls that run at the same time
    ProjectLimit    \* projects the list keeps (12)

ASSUME ProjectAssumption == ProjectLimit \in Nat \ {0} /\ "earlier" \notin Facts

VARIABLES
    facts,          \* human_profile_facts
    projects,       \* human_profiles.active_projects
    goal,           \* the goal of the row, if there is one
    told,           \* the session: "active" or how it ended
    profileCalls,   \* what each call does
    confirmedOnce,  \* history: facts that were confirmed
    racedFacts,     \* history: facts applied from rows read at the same time
    profileCut,     \* history: facts of a call that failed half-way
    leftover        \* history: facts of the row, or of a call, at the discard

profileRows == <<facts, projects, goal, told>>
profileHistory == <<confirmedOnce, racedFacts, profileCut, leftover>>
profileVars == <<profileRows, profileCalls, profileHistory>>

FactSources == {"session", "request"}
FactKinds == {"project", "goal", "sensitive_candidate"}
NoFact == [status |-> "none"]
DeletedFact == [status |-> "deleted"]
NoProfileCall == [pc |-> "none"]

ProfileInit ==
    /\ facts = [f \in Facts |-> NoFact] /\ projects = <<"earlier">> /\ goal = {}
    /\ told = "active"
    /\ profileCalls = [c \in ProfileCalls |-> NoProfileCall]
    /\ confirmedOnce = {} /\ racedFacts = {} /\ profileCut = {} /\ leftover = {}

FactRows == [status : {"proposed", "confirmed", "rejected"},
             kind : FactKinds, source : FactSources]

ProfileTypeOK ==
    /\ facts \in [Facts -> {NoFact, DeletedFact} \cup FactRows]
    /\ projects \in Seq(Facts \cup {"earlier"}) /\ Len(projects) <= ProjectLimit
    /\ goal \cup confirmedOnce \cup racedFacts \cup profileCut \cup leftover \subseteq Facts
    /\ told \in {"active", "saved", "discarded", "interrupted"}
    /\ \A c \in ProfileCalls : profileCalls[c].pc \in
         {"none", "insert", "profile", "update", "delete"}

-----------------------------------------------------------------------------
(* A definition marked "mutant" is a faulty variant of the one after it; no    *)
(* formula uses it.                                                          *)

ProfileAt(c, pc) == profileCalls[c].pc = pc
ProfileSet(c, call) == profileCalls' = [profileCalls EXCEPT ![c] = call]
ProfileStart(c, call) == profileCalls[c] = NoProfileCall /\ ProfileSet(c, call)
ProfileDone(c) == ProfileSet(c, NoProfileCall)

\* The message queue of the socket: a text or a save of the session is handled.
TextHandled == \E c \in ProfileCalls :
    profileCalls[c].pc # "none" /\ profileCalls[c].from = "session"

\* What extractProfileFactsFromText makes of a text: an inferred fact is
\* proposed, an explicit project confirmed (HUMAN_PROFILE_AUTO_SAVE_LOW_RISK); a
\* sensitive fact is confirmed by configuration and with the user's opt-in.
FactDrafts == [kind : FactKinds, status : {"proposed", "confirmed"}]

\* A text passes decideProfileMutation: one of the session while it is active,
\* or one of a query, which may name the session whatever has become of it. No
\* text comes once all of Facts are used (bound).
StartText(c, source) ==
    /\ \E f \in Facts : facts[f] = NoFact
    /\ source = "session" => told = "active" /\ ~TextHandled
    /\ ProfileStart(c, [pc |-> "insert", from |-> source])
    /\ UNCHANGED <<profileRows, profileHistory>>

\* insertProfileFactDrafts, with what the text was found to say
InsertFact(c, f, draft) ==
    /\ ProfileAt(c, "insert") /\ facts[f] = NoFact
    /\ LET call == profileCalls[c] IN
         /\ facts' = [facts EXCEPT ![f] =
              [status |-> draft.status, kind |-> draft.kind, source |-> call.from]]
         /\ IF draft.status = "confirmed"
            THEN /\ confirmedOnce' = confirmedOnce \cup {f}
                 /\ ProfileSet(c, [pc |-> "profile", from |-> call.from, fact |-> f,
                                   kind |-> draft.kind])
            ELSE ProfileDone(c) /\ UNCHANGED confirmedOnce
    /\ UNCHANGED <<projects, goal, told, racedFacts, profileCut, leftover>>

FactStored(f) == facts[f].status \notin {"none", "deleted"}

\* confirmProfileFact, by its route or by executing a proposal, whatever the
\* status of the fact was.
ConfirmFact(c, f) ==
    /\ FactStored(f)
    /\ facts' = [facts EXCEPT ![f].status = "confirmed"]
    /\ confirmedOnce' = confirmedOnce \cup {f}
    /\ ProfileStart(c, [pc |-> "profile", from |-> "request", fact |-> f,
                       kind |-> facts[f].kind])
    /\ UNCHANGED <<projects, goal, told, racedFacts, profileCut, leftover>>

RejectFact(f) ==
    /\ FactStored(f)
    /\ facts' = [facts EXCEPT ![f].status = "rejected"]
    /\ UNCHANGED <<projects, goal, told, profileCalls, profileHistory>>

Listing == {c \in ProfileCalls : ProfileAt(c, "update") /\ profileCalls[c].kind = "project"}

\* applyFactToProfile: the SELECT, the empty patch of a sensitive fact ...
ReadProfile(c) ==
    /\ ProfileAt(c, "profile")
    /\ LET call == profileCalls[c] IN
         /\ IF call.kind = "sensitive_candidate" THEN ProfileDone(c)
            ELSE ProfileSet(c, [pc |-> "update", from |-> call.from, fact |-> call.fact,
                     kind |-> call.kind,
                     read |-> IF call.kind = "project" THEN projects ELSE <<>>])
         /\ racedFacts' = racedFacts \cup
              IF call.kind # "project" \/ Listing = {} THEN {}
              ELSE {call.fact} \cup {profileCalls[d].fact : d \in Listing}
    /\ UNCHANGED <<profileRows, confirmedOnce, profileCut, leftover>>

UpdateProfileReplaces(c) ==                                      \* mutant
    /\ ProfileAt(c, "update") /\ ProfileDone(c)
    /\ LET call == profileCalls[c] IN
         IF call.kind = "project" THEN projects' = <<call.fact>> /\ UNCHANGED goal
         ELSE goal' = {call.fact} /\ UNCHANGED projects
    /\ UNCHANGED <<facts, told, profileHistory>>

Elements(list) == {list[i] : i \in DOMAIN list}

\* appendUnique: a project that is listed stays where it is, and the oldest makes room.
AppendUnique(list, f) ==
    IF f \in Elements(list) THEN list
    ELSE Append(IF Len(list) < ProjectLimit THEN list ELSE Tail(list), f)

\* ... and the UPDATE of the column of its kind, with what was read and the fact.
UpdateProfile(c) ==
    /\ ProfileAt(c, "update") /\ ProfileDone(c)
    /\ LET call == profileCalls[c] IN
         IF call.kind = "project"
         THEN projects' = AppendUnique(call.read, call.fact) /\ UNCHANGED goal
         ELSE goal' = {call.fact} /\ UNCHANGED projects
    /\ UNCHANGED <<facts, told, profileHistory>>

-----------------------------------------------------------------------------
(* The session ends. *)

\* All facts here name the session as their source.
FactsDeleted == [f \in Facts |->
    IF FactStored(f) THEN DeletedFact ELSE facts[f]]

\* reflectOnSavedSession reads the session's transcript and proposes its facts.
SaveTold(c) ==
    /\ told = "active" /\ ~TextHandled /\ told' = "saved"
    /\ ProfileStart(c, [pc |-> "insert", from |-> "session"])
    /\ UNCHANGED <<facts, projects, goal, profileHistory>>

Listed == (Elements(projects) \cap Facts) \cup goal
Applying == {f \in Facts : \E c \in ProfileCalls :
    profileCalls[c].pc \in {"profile", "update"} /\ profileCalls[c].fact = f}
ListsRead == {f \in Facts : \E c \in Listing : f \in Elements(profileCalls[c].read)}

\* stopSession(false) deletes the facts in the transaction that ends the session.
DiscardTold ==
    /\ told = "active" /\ ~TextHandled /\ told' = "discarded"
    /\ facts' = FactsDeleted /\ leftover' = Listed \cup Applying \cup ListsRead
    /\ UNCHANGED <<projects, goal, profileCalls, confirmedOnce, racedFacts, profileCut>>

\* interruptVoiceSession runs beside the queue, and deletes the facts later.
InterruptTold(c) ==
    /\ told = "active" /\ told' = "interrupted"
    /\ ProfileStart(c, [pc |-> "delete", from |-> "close"])
    /\ UNCHANGED <<facts, projects, goal, profileHistory>>

DeleteFacts(c) ==
    /\ ProfileAt(c, "delete")
    /\ facts' = FactsDeleted
    /\ ProfileDone(c)
    /\ UNCHANGED <<projects, goal, told, profileHistory>>

\* A statement fails or the process dies, once for a fact (bound).
ProfileFails(c) ==
    /\ profileCalls[c] # NoProfileCall /\ profileCut = {}
    /\ profileCut' = profileCut \cup
         IF profileCalls[c].pc \in {"profile", "update"} THEN {profileCalls[c].fact} ELSE {}
    /\ ProfileDone(c)
    /\ UNCHANGED <<profileRows, confirmedOnce, racedFacts, leftover>>

ProfileNext ==
    \/ \E c \in ProfileCalls, f \in Facts, draft \in FactDrafts : InsertFact(c, f, draft)
    \/ \E c \in ProfileCalls :
         \/ \E source \in FactSources : StartText(c, source)
         \/ SaveTold(c) \/ ReadProfile(c) \/ UpdateProfile(c)
         \/ InterruptTold(c) \/ DeleteFacts(c) \/ ProfileFails(c)
         \/ \E f \in Facts : ConfirmFact(c, f)
    \/ \E f \in Facts : RejectFact(f)
    \/ DiscardTold

ProfileSpec == ProfileInit /\ [][ProfileNext]_profileVars

-----------------------------------------------------------------------------
(* Properties *)

\* The row has a fact only if it was confirmed and is of the kind of its column, never a
\* sensitive one. A project that is confirmed is listed once its call went well, unless two
\* calls applied their facts from the same row, or the list is full of later ones; and a
\* goal, once one is confirmed, is there, as far as goals go (applyFactToProfile).
ProfileListsConfirmed ==
    /\ Listed \subseteq confirmedOnce
    /\ \A f \in Listed : FactStored(f) =>
         facts[f].kind = IF f \in goal THEN "goal" ELSE "project"
    /\ \A f \in Facts \ (Applying \cup profileCut) : facts[f].status = "confirmed" =>
         /\ facts[f].kind = "project" =>
              \/ f \in Listed \cup racedFacts
              \/ Len(projects) = ProjectLimit /\ "earlier" \notin Elements(projects)
         /\ facts[f].kind = "goal" => goal # {}

\* A session discarded by a stop leaves no fact of what was said in it: the stop waits for
\* the text before it, which a close does not. Of a fact that is deleted the row keeps
\* what it had at the discard, or what a call was applying or had selected: this much of a
\* discarded session does change the profile (docs/mobile/mobile-privacy-contract.md:9 says
\* that none does), and no more.
DiscardForgetsFacts == told = "discarded" =>
    /\ \A f \in Facts : FactStored(f) => facts[f].source = "request"
    /\ \A f \in Listed : facts[f] = DeletedFact => f \in leftover

ProfileFollowsFacts == ProfileListsConfirmed /\ DiscardForgetsFacts
=============================================================================
