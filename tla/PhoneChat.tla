----------------------------- MODULE PhoneChat -----------------------------
(***************************************************************************)
(* The chat of the phone (apps/ios, ChatViewModel): every text is sent in a    *)
(* task of its own on the main actor. A text asks for an approval, is answered  *)
(* at once, or waits for the backend; the text field stays enabled, so several   *)
(* wait together and share one loading flag and one pending approval.          *)
(*                                                                         *)
(* Left out: the wording that tells one text from another and what answers say, *)
(* the briefing above the chat, and that the sheet of an approval names it.     *)
(***************************************************************************)
EXTENDS Naturals

CONSTANT ChatTexts

VARIABLES
    chatStep,        \* of a text: "unsent", "queued", "waiting", "done"
    chatKind,        \* what the text turned out to be
    chatReplies,     \* assistant messages for the text
    pendingApproval,
    confirmed,       \* history: approvals that were carried out
    isLoading,
    tokenStored,
    outlived         \* history: texts that waited when another one's answer came

chatVars == <<chatStep, chatKind, chatReplies, pendingApproval, confirmed, isLoading,
              tokenStored, outlived>>

\* Approvals to open Live or a voice chat, to change the voice, to open the profile.
Approvals == {"launch", "setting", "profile"}
\* A request is of today's items, of the memory, or a question to the assistant.
ChatKinds == Approvals \cup {"refusal", "relay", "request"}

ChatInit ==
    /\ chatStep = [t \in ChatTexts |-> "unsent"]
    /\ chatKind = [t \in ChatTexts |-> "none"]
    /\ chatReplies = [t \in ChatTexts |-> 0]
    /\ pendingApproval = "none" /\ confirmed = {} /\ isLoading = FALSE
    /\ tokenStored = TRUE /\ outlived = {}

ChatTypeOK ==
    /\ chatStep \in [ChatTexts -> {"unsent", "queued", "waiting", "done"}]
    /\ chatKind \in [ChatTexts -> ChatKinds \cup {"none"}]
    /\ chatReplies \in [ChatTexts -> Nat]
    /\ pendingApproval \in Approvals \cup {"none"} /\ confirmed \subseteq Approvals
    /\ isLoading \in BOOLEAN /\ tokenStored \in BOOLEAN /\ outlived \subseteq ChatTexts

-----------------------------------------------------------------------------
(* A definition marked "mutant" is a faulty variant of the one after it; no    *)
(* formula uses it.                                                          *)

Waiting == {t \in ChatTexts : chatStep[t] = "waiting"}

\* submitInput, handleQuickAction: the text and the task that sends it.
Submit(t) ==
    /\ chatStep[t] = "unsent"
    /\ chatStep' = [chatStep EXCEPT ![t] = "queued"]
    /\ UNCHANGED <<chatKind, chatReplies, pendingApproval, confirmed, isLoading, tokenStored, outlived>>

ReplyOnce(t) == chatReplies' = [chatReplies EXCEPT ![t] = @ + 1]
ChatDone(t) == chatStep' = [chatStep EXCEPT ![t] = "done"]
Recognised(t, kind) ==
    chatStep[t] = "queued" /\ chatKind' = [chatKind EXCEPT ![t] = kind]

\* The texts that ask for an approval; a change of the voice says nothing.
AskApproval(t) ==
    /\ \E kind \in Approvals :
         /\ Recognised(t, kind)
         /\ pendingApproval' = kind
         /\ IF kind = "setting" THEN UNCHANGED chatReplies ELSE ReplyOnce(t)
    /\ ChatDone(t)
    /\ UNCHANGED <<confirmed, isLoading, tokenStored, outlived>>

\* A voice of somebody else, a text without a token, a Relay request.
AnswerAtOnce(t) ==
    /\ \E kind \in {"refusal", "relay", "request"} :
         /\ Recognised(t, kind)
         /\ kind = "request" => ~tokenStored
    /\ ReplyOnce(t) /\ ChatDone(t)
    /\ UNCHANGED <<pendingApproval, confirmed, isLoading, tokenStored, outlived>>

\* loadTodaySummary, loadMemorySummary, runAssistantQuery.
StartRequest(t) ==
    /\ Recognised(t, "request") /\ tokenStored
    /\ isLoading' = TRUE
    /\ chatStep' = [chatStep EXCEPT ![t] = "waiting"]
    /\ UNCHANGED <<chatReplies, pendingApproval, confirmed, tokenStored, outlived>>

RequestReturnsLoading(t) ==                                      \* mutant
    /\ t \in Waiting
    /\ ReplyOnce(t) /\ ChatDone(t)
    /\ UNCHANGED <<chatKind, pendingApproval, confirmed, isLoading, tokenStored, outlived>>

\* The answer, or the error that is told instead.
RequestReturns(t) ==
    /\ t \in Waiting
    /\ ReplyOnce(t) /\ ChatDone(t)
    /\ isLoading' = FALSE
    /\ outlived' = outlived \cup (Waiting \ {t})
    /\ UNCHANGED <<chatKind, pendingApproval, confirmed, tokenStored>>

TapMic ==
    /\ pendingApproval' = "launch"
    /\ UNCHANGED <<chatStep, chatKind, chatReplies, confirmed, isLoading, tokenStored, outlived>>

ConfirmApproval ==
    /\ pendingApproval # "none" /\ pendingApproval' = "none"
    /\ confirmed' = confirmed \cup {pendingApproval}
    /\ UNCHANGED <<chatStep, chatKind, chatReplies, isLoading, tokenStored, outlived>>

CancelApproval ==
    /\ pendingApproval # "none" /\ pendingApproval' = "none"
    /\ UNCHANGED <<chatStep, chatKind, chatReplies, confirmed, isLoading, tokenStored, outlived>>

\* The user signs in or out elsewhere in the app.
TokenChanges ==
    /\ tokenStored' = ~tokenStored
    /\ UNCHANGED <<chatStep, chatKind, chatReplies, pendingApproval, confirmed, isLoading, outlived>>

ChatNext ==
    \/ \E t \in ChatTexts :
         Submit(t) \/ AskApproval(t) \/ AnswerAtOnce(t) \/ StartRequest(t) \/ RequestReturns(t)
    \/ TapMic \/ ConfirmApproval \/ CancelApproval \/ TokenChanges

\* A task of the main actor runs, and a request returns: it has a timeout.
ChatFairness == \A t \in ChatTexts :
    /\ WF_chatVars(AskApproval(t) \/ AnswerAtOnce(t) \/ StartRequest(t))
    /\ WF_chatVars(RequestReturns(t))

ChatSpec == ChatInit /\ [][ChatNext]_chatVars /\ ChatFairness

-----------------------------------------------------------------------------
(* Properties *)

\* A text gets one message in the end, but for one that changes the voice; the
\* spinner shows only while a text waits, and a text waits without it only if
\* another one that waited with it was answered first (send, isLoading).
ChatRepliesOnce ==
    /\ \A t \in ChatTexts : chatReplies[t] =
         IF chatStep[t] = "done" /\ chatKind[t] # "setting" THEN 1 ELSE 0
    /\ isLoading => Waiting # {}
    /\ Waiting # {} /\ ~isLoading => Waiting \subseteq outlived

\* Every text that is submitted is done with.
TextsAreDone == \A t \in ChatTexts : chatStep[t] = "queued" ~> chatStep[t] = "done"
=============================================================================
