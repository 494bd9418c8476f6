----------------------- MODULE AssistantClientsProofs -----------------------
(***************************************************************************)
(* Theorems about the clients of the assistant (AssistantClients), for every  *)
(* number of calls, starts, rows and clicks: what several calls of one client  *)
(* share is not undone or done twice by their overlap. A section per client     *)
(* shows that its inductive invariant holds initially and that a step of that   *)
(* client keeps it, and Lift that a step of the clients is a step of each or     *)
(* leaves its variables alone.                                              *)
(***************************************************************************)
EXTENDS AssistantClients, SpeechSegmentsProofs, FiniteSetTheorems, SequenceTheorems, TLAPS

-----------------------------------------------------------------------------
(* Chat: a text is replied to when it is done with, and waits without the        *)
(* spinner only behind an answer.                                            *)

ChatInv ==
    /\ ChatTypeOK /\ ChatRepliesOnce
    /\ \A t \in Waiting : chatKind[t] = "request"

LEMMA ChatStepKeeps == ChatInv /\ [ChatNext]_chatVars => ChatInv'
<1>. SUFFICES ASSUME ChatInv, [ChatNext]_chatVars PROVE ChatInv'
  OBVIOUS
<1>. USE DEF ChatInv, ChatTypeOK, ChatRepliesOnce, Waiting
<1>1. ASSUME NEW t \in ChatTexts, Submit(t) PROVE ChatInv'
  BY <1>1 DEF Submit
<1>2. ASSUME NEW t \in ChatTexts, AskApproval(t) PROVE ChatInv'
  BY <1>2 DEF AskApproval, Recognised, ReplyOnce, ChatDone, Approvals, ChatKinds
<1>3. ASSUME NEW t \in ChatTexts, AnswerAtOnce(t) PROVE ChatInv'
  BY <1>3 DEF AnswerAtOnce, Recognised, ReplyOnce, ChatDone, ChatKinds
<1>4. ASSUME NEW t \in ChatTexts, StartRequest(t) PROVE ChatInv'
  BY <1>4 DEF StartRequest, Recognised, ChatKinds
<1>5. ASSUME NEW t \in ChatTexts, RequestReturns(t) PROVE ChatInv'
  <2>1. /\ chatReplies' = [chatReplies EXCEPT ![t] = @ + 1] /\ chatStep[t] = "waiting"
        /\ chatStep' = [chatStep EXCEPT ![t] = "done"] /\ chatKind' = chatKind
        /\ isLoading' = FALSE /\ outlived' = outlived \cup (Waiting \ {t})
    BY <1>5 DEF RequestReturns, ReplyOnce, ChatDone
  <2>2. ChatTypeOK'
    <3>1. chatReplies' \in [ChatTexts -> Nat] /\ chatStep' \in [ChatTexts -> {"unsent", "queued", "waiting", "done"}]
      BY <2>1
    <3>2. outlived' \subseteq ChatTexts /\ isLoading' \in BOOLEAN
      BY <2>1
    <3>. QED
      BY <1>5, <2>1, <3>1, <3>2 DEF RequestReturns
  <2>3. chatKind[t] # "setting"
    BY <2>1
  <2>. QED
    BY <2>1, <2>2, <2>3
<1>6. CASE TapMic
  BY <1>6 DEF TapMic, Approvals
<1>7. CASE ConfirmApproval
  BY <1>7 DEF ConfirmApproval
<1>8. CASE CancelApproval
  BY <1>8 DEF CancelApproval
<1>9. CASE TokenChanges
  BY <1>9 DEF TokenChanges
<1>10. CASE UNCHANGED chatVars
  BY <1>10 DEF chatVars
<1>. QED
  BY <1>1, <1>2, <1>3, <1>4, <1>5, <1>6, <1>7, <1>8, <1>9, <1>10 DEF ChatNext

-----------------------------------------------------------------------------
(* Speech: what was canceled is not awaited any more.                         *)

SpeechInv == SpeechTypeOK /\ silenced \cap (synthesizing \cup Sounding) = {}

\* What is queued after a speech is asked for and after one ends (Append, Tail).
LEMMA QueueSets ==
    ASSUME NEW S, NEW s \in Seq(S), NEW e \in S
    PROVE  /\ Append(s, e) \in Seq(S) /\ ToSet(Append(s, e)) = ToSet(s) \cup {e}
           /\ ToSet(<<>>) = {}
           /\ s # <<>> => Tail(s) \in Seq(S) /\ ToSet(Tail(s)) \subseteq ToSet(s)
<1>1. Append(s, e) \in Seq(S) /\ ToSet(Append(s, e)) = ToSet(s) \cup {e}
  BY AppendProperties DEF ToSet
<1>2. ToSet(<<>>) = {}
  BY EmptySeq DEF ToSet
<1>3. ASSUME s # <<>> PROVE Tail(s) \in Seq(S) /\ ToSet(Tail(s)) \subseteq ToSet(s)
  BY <1>3, HeadTailProperties DEF ToSet
<1>. QED
  BY <1>1, <1>2, <1>3

LEMMA SpeechStepKeeps == SpeechInv /\ [SpeechNext]_speechVars => SpeechInv'
<1>. SUFFICES ASSUME SpeechInv, [SpeechNext]_speechVars PROVE SpeechInv'
  OBVIOUS
<1>. USE SpeechAssumption DEF SpeechInv, SpeechTypeOK, Sounding, Speeches
<1>0. /\ nativeQueue \in Seq(Speeches)
      /\ \A n \in Speeches : /\ Append(nativeQueue, n) \in Seq(Speeches)
                             /\ ToSet(Append(nativeQueue, n)) = ToSet(nativeQueue) \cup {n}
      /\ <<>> \in Seq(Speeches) /\ ToSet(<<>>) = {}
      /\ nativeQueue # <<>> => /\ Tail(nativeQueue) \in Seq(Speeches)
                               /\ ToSet(Tail(nativeQueue)) \subseteq ToSet(nativeQueue)
  <2>1. nativeQueue \in Seq(Speeches) /\ <<>> \in Seq(Speeches)
    BY EmptySeq
  <2>2. ToSet(<<>>) = {}
    BY EmptySeq DEF ToSet
  <2>3. nativeQueue # <<>> => /\ Tail(nativeQueue) \in Seq(Speeches)
                               /\ ToSet(Tail(nativeQueue)) \subseteq ToSet(nativeQueue)
    BY <2>1, HeadTailProperties DEF ToSet
  <2>4. ASSUME NEW n \in Speeches
        PROVE  /\ Append(nativeQueue, n) \in Seq(Speeches)
               /\ ToSet(Append(nativeQueue, n)) = ToSet(nativeQueue) \cup {n}
    BY <2>1, QueueSets
  <2>. QED
    BY <2>1, <2>2, <2>3, <2>4
<1>1. CASE Speak
  <2>. DEFINE n == speechAsked + 1
  <2>1. /\ n \in Speeches /\ speechAsked' = n /\ currentSpeech' = n
        /\ UNCHANGED <<isMuted, outputMode, naturalSound, silenced>>
        /\ silenced \subseteq 1..speechAsked /\ 1..speechAsked \subseteq 1..n
    BY <1>1 DEF Speak
  <2>2. \/ synthesizing' = synthesizing \cup {n} /\ nativeQueue' = nativeQueue
        \/ nativeQueue' = Append(nativeQueue, n) /\ synthesizing' = synthesizing
    BY <1>1 DEF Speak
  <2>3. /\ nativeQueue' \in Seq(Speeches) /\ synthesizing' \subseteq 1..n
        /\ ToSet(nativeQueue') \cup synthesizing' = ToSet(nativeQueue) \cup synthesizing \cup {n}
    <3>1. synthesizing \subseteq 1..n /\ n \in 1..n
      BY <2>1
    <3>2. CASE synthesizing' = synthesizing \cup {n} /\ nativeQueue' = nativeQueue
      BY <3>1, <3>2
    <3>3. CASE nativeQueue' = Append(nativeQueue, n) /\ synthesizing' = synthesizing
      BY <1>0, <2>1, <3>1, <3>3
    <3>. HIDE DEF n
    <3>. QED
      BY <2>2, <3>2, <3>3
  <2>4. n \notin silenced
    BY <2>1
  <2>5. SpeechTypeOK'
    BY <2>1, <2>3
  <2>. QED
    BY <2>1, <2>3, <2>4, <2>5
<1>2. ASSUME NEW n \in Speeches, PlayNatural(n) PROVE SpeechInv'
  BY <1>2 DEF PlayNatural
<1>3. ASSUME NEW n \in Speeches, SynthesisFails(n) PROVE SpeechInv'
  <2>1. \/ nativeQueue' = nativeQueue
        \/ ToSet(nativeQueue') = ToSet(nativeQueue) \cup {n} /\ nativeQueue' \in Seq(Speeches)
    BY <1>0, <1>3 DEF SynthesisFails
  <2>2. /\ n \in synthesizing /\ synthesizing' = synthesizing \ {n} /\ naturalSound' \in {0, naturalSound}
        /\ UNCHANGED <<isMuted, outputMode, speechAsked, currentSpeech, silenced>>
    BY <1>3 DEF SynthesisFails
  <2>3. SpeechTypeOK'
    BY <2>1, <2>2
  <2>. QED
    BY <2>1, <2>2, <2>3
<1>4. ASSUME NEW n \in {0} \cup Speeches, Cancel(n) PROVE SpeechInv'
  BY <1>0, <1>4 DEF Cancel
<1>5. CASE NativeEnds
  BY <1>0, <1>5 DEF NativeEnds
<1>6. CASE NaturalEnds
  BY <1>6 DEF NaturalEnds
<1>7. CASE SetMuted
  BY <1>7 DEF SetMuted
<1>8. ASSUME NEW mode \in {"native", "natural"}, ConfigureNaturalVoice(mode) PROVE SpeechInv'
  BY <1>8 DEF ConfigureNaturalVoice
<1>9. CASE UNCHANGED speechVars
  BY <1>9 DEF speechVars
<1>. QED
  BY <1>1, <1>2, <1>3, <1>4, <1>5, <1>6, <1>7, <1>8, <1>9 DEF SpeechNext

-----------------------------------------------------------------------------
(* Account: an answer is of the stored token, or of one known to be outdated.   *)

AccountInv ==
    /\ AccountTypeOK /\ AccountIsOwn
    /\ \A c \in AccountCalls :
         AccountAt(c, "account") => accountCalls[c].token \in {0, keychain} \cup outdated

LEMMA AccountStepKeeps == AccountInv /\ [AccountNext]_accountVars => AccountInv'
<1>. SUFFICES ASSUME AccountInv, [AccountNext]_accountVars PROVE AccountInv'
  OBVIOUS
<1>. USE AccountAssumption DEF AccountInv, AccountTypeOK, AccountIsOwn, AccountAt, NoAccountCall
<1>0. \A c \in AccountCalls : AccountAt(c, "account") => accountCalls[c].token \in Borne
  BY DEF Borne
<1>1. CASE RefreshAuthStatus
  BY <1>1 DEF RefreshAuthStatus, Refreshed
<1>2. CASE SaveToken
  BY <1>2 DEF SaveToken, Refreshed
<1>3. CASE ClearToken
  BY <1>0, <1>3 DEF ClearToken, Refreshed
<1>4. CASE MarkTokenInvalid
  BY <1>4 DEF MarkTokenInvalid
<1>5. ASSUME NEW c \in AccountCalls, StartRefresh(c) PROVE AccountInv'
  BY <1>5 DEF StartRefresh, Refreshed, AccountGo
<1>6. ASSUME NEW c \in AccountCalls, SendRequest(c) PROVE AccountInv'
  BY <1>6 DEF SendRequest, AccountGo, AccountDone
<1>7. ASSUME NEW c \in AccountCalls, AccountReturns(c) PROVE AccountInv'
  BY <1>7 DEF AccountReturns, AccountDone
<1>8. ASSUME NEW c \in AccountCalls, StartSignOut(c) PROVE AccountInv'
  BY <1>8 DEF StartSignOut, AccountGo
<1>9. ASSUME NEW c \in AccountCalls, SignOutReturns(c) PROVE AccountInv'
  BY <1>0, <1>9 DEF SignOutReturns, AccountDone, Refreshed
<1>10. ASSUME NEW c \in AccountCalls, StartSignInWithApple(c) PROVE AccountInv'
  BY <1>10 DEF StartSignInWithApple, AccountGo
<1>11. ASSUME NEW c \in AccountCalls, SignInReturns(c) PROVE AccountInv'
  BY <1>0, <1>11 DEF SignInReturns, AccountDone
<1>12. ASSUME NEW c \in AccountCalls, AccountCallFails(c) PROVE AccountInv'
  BY <1>12 DEF AccountCallFails, AccountDone
<1>13. CASE UNCHANGED accountVars
  BY <1>13 DEF accountVars
<1>. QED
  BY <1>1, <1>2, <1>3, <1>4, <1>5, <1>6, <1>7, <1>8, <1>9, <1>10, <1>11, <1>12, <1>13
  DEF AccountNext

-----------------------------------------------------------------------------
(* Phone session: the starts whose continuation was resumed are the first ones,   *)
(* and only the next one can wait.                                           *)

\* The first n starts are over, and no other has been resumed.
ResumedTo(n) ==
    /\ \A w \in Waiters : resumed[w] = IF w <= n THEN 1 ELSE 0
    /\ waiters \subseteq {n + 1}

PhoneInv == PhoneTypeOK /\ \E n \in 0..MaxStarts : ResumedTo(n)

\* A start that is sent is the one after those that were resumed.
LEMMA StartedCounts == ASSUME PhoneInv PROVE started \in 0..MaxStarts /\ ResumedTo(started)
<1>1. PICK n \in 0..MaxStarts : ResumedTo(n)
  BY DEF PhoneInv
<1>2. {w \in Waiters : resumed[w] > 0} = 1..n
  BY <1>1, PhoneAssumption DEF ResumedTo, Waiters
<1>3. started = n
  <2>1. started = Cardinality(1..n)
    BY <1>2 DEF started
  <2>2. Cardinality(1..n) = n
    BY FS_Interval, PhoneAssumption
  <2>. QED
    BY <2>1, <2>2
<1>. QED
  BY <1>1, <1>3

\* Resuming waiters ends their start; the next has not begun.
LEMMA ResumeKeeps ==
    ASSUME PhoneInv, NEW W, W \subseteq waiters, NEW o \in {"acked", "failed"}, Resume(W, o)
    PROVE  /\ waiters' \subseteq Waiters /\ resumed' \in [Waiters -> Nat]
           /\ operation' \in {"none", "permission", "pong", "latePong", "answer", "acked", "failed"}
           /\ waiters' # {} => operation' = "answer" /\ \E w \in Waiters : waiters' = {w}
           /\ \E n \in 0..MaxStarts : ResumedTo(n)'
<1>. USE PhoneAssumption
<1>1. PICK n \in 0..MaxStarts : ResumedTo(n)
  BY DEF PhoneInv
<1>2. /\ waiters \subseteq Waiters /\ waiters # {} => operation = "answer"
      /\ operation \in {"none", "permission", "pong", "latePong", "answer", "acked", "failed"}
      /\ waiters # {} => \E w \in Waiters : waiters = {w}
      /\ resumed \in [Waiters -> Nat]
  BY DEF PhoneInv, PhoneTypeOK
<1>3. CASE W = {}
  <2>1. waiters' = waiters /\ operation' = operation /\ resumed' = resumed
    BY <1>2, <1>3 DEF Resume
  <2>. QED
    BY <1>1, <1>2, <2>1 DEF ResumedTo
<1>4. CASE W # {}
  <2>1. /\ n + 1 \in Waiters /\ W = {n + 1} /\ waiters' = {} /\ operation' = o
        /\ resumed' = [w \in Waiters |-> resumed[w] + IF w = n + 1 THEN 1 ELSE 0]
    BY <1>1, <1>2, <1>4 DEF Resume, ResumedTo
  <2>2. n + 1 \in 0..MaxStarts
    BY <2>1 DEF Waiters
  <2>3. \A w \in Waiters : resumed'[w] = IF w <= n + 1 THEN 1 ELSE 0
    BY <1>1, <1>2, <2>1 DEF ResumedTo, Waiters
  <2>4. resumed' \in [Waiters -> Nat]
    BY <1>2, <2>1
  <2>5. ResumedTo(n + 1)'
    BY <2>1, <2>3 DEF ResumedTo
  <2>. QED
    BY <2>1, <2>2, <2>4, <2>5
<1>. QED
  BY <1>3, <1>4

LEMMA PhoneStepKeeps == PhoneInv /\ [PhoneNext]_phoneVars => PhoneInv'
<1>. SUFFICES ASSUME PhoneInv, [PhoneNext]_phoneVars PROVE PhoneInv'
  OBVIOUS
<1>. USE PhoneAssumption
<1>t. PhoneTypeOK
  BY DEF PhoneInv
<1>e. waiters # {} => operation = "answer"
  BY DEF PhoneInv, PhoneTypeOK
<1>b. /\ connected \in BOOLEAN /\ oldLoop \in BOOLEAN /\ sessionActive \in BOOLEAN
      /\ isSessionActive \in BOOLEAN /\ stateEvent \in BOOLEAN /\ microphone \in BOOLEAN
      /\ hasReportedAudioSendError \in BOOLEAN
  BY <1>t DEF PhoneTypeOK
<1>q. ASSUME NEW S, NEW q \in Seq(S), NEW m \in S PROVE Append(q, m) \in Seq(S)
  BY <1>q, AppendProperties
<1>h. ASSUME NEW S, NEW q \in Seq(S), q # <<>> PROVE Tail(q) \in Seq(S)
  BY <1>h, HeadTailProperties
\* Nothing but a resumption and a start touches the waiters.
<1>u. ASSUME waiters' = waiters, resumed' = resumed, PhoneTypeOK' PROVE PhoneInv'
  BY <1>u DEF PhoneInv, ResumedTo
<1>r. ASSUME NEW W, W \subseteq waiters, NEW o \in {"acked", "failed"}, Resume(W, o),
             timers' \subseteq Waiters, unsent' \subseteq Waiters,
             {connected', oldLoop', sessionActive', isSessionActive', stateEvent', microphone',
              hasReportedAudioSendError'} \subseteq BOOLEAN,
             stops' \in Nat, breaks' \in 0..MaxBreaks,
             toGateway' \in Seq({"start", "stop"}), toPhone' \in Seq({"ack", "error"}),
             gateway' \in {"idle", "active", "over"},
             ~connected' => ~sessionActive' /\ toGateway' = <<>> /\ toPhone' = <<>>
      PROVE  PhoneInv'
  <2>1. PhoneTypeOK'
    BY <1>r, ResumeKeeps DEF PhoneTypeOK
  <2>. QED
    BY <1>r, <2>1, ResumeKeeps DEF PhoneInv
\* A disconnect.
<1>d. ASSUME disconnectClient, timers' = timers, unsent' = unsent,
             {oldLoop', isSessionActive', stateEvent', microphone',
              hasReportedAudioSendError'} \subseteq BOOLEAN,
             stops' \in Nat, breaks' \in 0..MaxBreaks
      PROVE  PhoneInv'
  <2>1. Resume(waiters, "failed") /\ connected' = FALSE /\ sessionActive' = FALSE
        /\ toGateway' = <<>> /\ toPhone' = <<>> /\ gateway' = "idle"
    BY <1>d DEF disconnectClient
  <2>2. {connected', oldLoop', sessionActive', isSessionActive', stateEvent', microphone',
              hasReportedAudioSendError'} \subseteq BOOLEAN
    BY <1>d, <2>1
  <2>3. toGateway' \in Seq({"start", "stop"}) /\ toPhone' \in Seq({"ack", "error"})
    BY <2>1, EmptySeq
  <2>4. timers' \subseteq Waiters /\ unsent' \subseteq Waiters
    BY <1>t, <1>d DEF PhoneTypeOK
  <2>. QED
    BY <1>d, <1>r, <2>1, <2>2, <2>3, <2>4
\* A start.
<1>s. ASSUME sendStart, operation # "answer", UNCHANGED <<connected, oldLoop, resumed, stops,
             isSessionActive, stateEvent, microphone, hasReportedAudioSendError, outside>>, connected
      PROVE  PhoneInv'
  <2>1. waiters = {} /\ started \in 0..MaxStarts /\ ResumedTo(started)
    BY <1>e, <1>s, StartedCounts
  <2>2. PICK w \in Waiters : /\ w = started + 1 /\ sessionActive' = FALSE
                             /\ waiters' = waiters \cup {w} /\ timers' = timers \cup {w}
                             /\ unsent' = unsent \cup {w} /\ operation' = "answer"
    BY <1>s DEF sendStart
  <2>3. waiters' = {w}
    BY <2>1, <2>2
  <2>4. PhoneTypeOK'
    BY <1>t, <1>s, <2>2, <2>3 DEF PhoneTypeOK, outside
  <2>. DEFINE n == started
  <2>5. \A v \in Waiters : resumed'[v] = IF v <= n THEN 1 ELSE 0
    BY <1>s, <2>1 DEF ResumedTo
  <2>6. \E m \in 0..MaxStarts : ResumedTo(m)'
    <3>. HIDE DEF n
    <3>1. n \in 0..MaxStarts /\ waiters' \subseteq {n + 1}
      BY <2>1, <2>2, <2>3 DEF n
    <3>. QED
      BY <2>5, <3>1 DEF ResumedTo
  <2>. QED
    BY <2>4, <2>6 DEF PhoneInv
<1>1. CASE TapStart
  BY <1>1, <1>t, <1>e, <1>u DEF TapStart, PhoneTypeOK, clientSide
<1>2. CASE PermissionDenied
  BY <1>2, <1>t, <1>e, <1>u DEF PermissionDenied, PhoneTypeOK, clientSide, outside
<1>3. CASE StartConnected
  BY <1>3, <1>s DEF StartConnected
<1>4. CASE Connect
  BY <1>4, <1>t, <1>e, <1>u DEF Connect, PhoneTypeOK, outside
<1>5. CASE Pong
  BY <1>5, <1>s DEF Pong
<1>c. ASSUME connectThrows, operation \in {"pong", "latePong"}, breaks' \in 0..MaxBreaks
      PROVE  PhoneInv'
  BY <1>c, <1>t, <1>e, <1>u, EmptySeq DEF connectThrows, PhoneTypeOK
<1>6. CASE PingFails
  BY <1>6, <1>c, <1>t DEF PingFails, PhoneTypeOK
<1>24. CASE LatePong
  BY <1>24, <1>c, <1>t DEF LatePong, PhoneTypeOK
<1>25. CASE PingBreaks
  BY <1>25, <1>c, <1>t DEF PingBreaks, PhoneTypeOK
<1>26. CASE PingTimeout
  BY <1>26, <1>t, <1>e, <1>u DEF PingTimeout, PhoneTypeOK, clientSide, outside
<1>7. ASSUME NEW w \in Waiters, SendStart(w) PROVE PhoneInv'
  <2>1. unsent' \subseteq Waiters
    BY <1>7, <1>t DEF SendStart, PhoneTypeOK
  <2>2. CASE connected
    <3>1. toGateway' = Append(toGateway, "start") /\ waiters' = waiters /\ resumed' = resumed
          /\ operation' = operation
      BY <1>7, <2>2 DEF SendStart
    <3>2. toGateway' \in Seq({"start", "stop"})
      BY <1>t, <1>q, <3>1 DEF PhoneTypeOK
    <3>3. PhoneTypeOK'
      BY <1>7, <1>t, <2>1, <2>2, <3>1, <3>2 DEF SendStart, PhoneTypeOK
    <3>. QED
      BY <1>u, <3>1, <3>3
  <2>3. CASE ~connected
    <3>1. Resume({w} \cap waiters, "failed") /\ toGateway' = toGateway
      BY <1>7, <2>3 DEF SendStart
    <3>2. {connected', oldLoop', sessionActive', isSessionActive', stateEvent', microphone',
              hasReportedAudioSendError'} \subseteq BOOLEAN
      BY <1>7, <1>t DEF SendStart, PhoneTypeOK
    <3>3. /\ timers' \subseteq Waiters /\ stops' \in Nat /\ breaks' \in 0..MaxBreaks
          /\ toGateway' \in Seq({"start", "stop"}) /\ toPhone' \in Seq({"ack", "error"})
          /\ gateway' \in {"idle", "active", "over"}
          /\ ~connected' => ~sessionActive' /\ toGateway' = <<>> /\ toPhone' = <<>>
      BY <1>7, <1>t, <3>1 DEF SendStart, PhoneTypeOK
    <3>. QED
      BY <1>r, <2>1, <3>1, <3>2, <3>3
  <2>. QED
    BY <2>2, <2>3
<1>8. ASSUME NEW w \in Waiters, AnswerTimeout(w) PROVE PhoneInv'
  <2>1. Resume({w} \cap waiters, "failed") /\ timers' \subseteq Waiters
    BY <1>8, <1>t DEF AnswerTimeout, PhoneTypeOK
  <2>2. {connected', oldLoop', sessionActive', isSessionActive', stateEvent', microphone',
              hasReportedAudioSendError'} \subseteq BOOLEAN
    BY <1>8, <1>t DEF AnswerTimeout, PhoneTypeOK
  <2>3. /\ unsent' \subseteq Waiters /\ stops' \in Nat /\ breaks' \in 0..MaxBreaks
        /\ toGateway' \in Seq({"start", "stop"}) /\ toPhone' \in Seq({"ack", "error"})
        /\ gateway' \in {"idle", "active", "over"}
        /\ ~connected' => ~sessionActive' /\ toGateway' = <<>> /\ toPhone' = <<>>
    BY <1>8, <1>t DEF AnswerTimeout, PhoneTypeOK, outside
  <2>. QED
    BY <1>r, <2>1, <2>2, <2>3
<1>9. CASE MicrophoneOn
  BY <1>9, <1>t, <1>e, <1>u DEF MicrophoneOn, PhoneTypeOK, clientSide, outside
<1>10. CASE MicrophoneFails
  BY <1>10, <1>t, <1>e, <1>u DEF MicrophoneFails, PhoneTypeOK, clientSide, outside
<1>11. CASE StartFails
  BY <1>11, <1>t, <1>e, <1>u DEF StartFails, PhoneTypeOK, clientSide, outside
<1>12. CASE Receive
  <2>1. connected /\ toPhone # <<>> /\ toPhone' = Tail(toPhone)
    BY <1>12 DEF Receive
  <2>2. {connected', oldLoop', sessionActive', isSessionActive', stateEvent', microphone',
              hasReportedAudioSendError'} \subseteq BOOLEAN
    BY <1>12, <1>b DEF Receive
  <2>3. toPhone' \in Seq({"ack", "error"})
    BY <1>t, <1>h, <2>1 DEF PhoneTypeOK
  <2>4. /\ timers' \subseteq Waiters /\ unsent' \subseteq Waiters
        /\ stops' \in Nat /\ breaks' \in 0..MaxBreaks
        /\ toGateway' \in Seq({"start", "stop"}) /\ gateway' \in {"idle", "active", "over"}
        /\ connected'
    BY <1>12, <1>t, <2>1 DEF Receive, PhoneTypeOK
  <2>5. CASE Head(toPhone) = "ack"
    <3>1. Resume(waiters, "acked")
      BY <1>12, <2>5 DEF Receive
    <3>. QED
      BY <1>r, <2>2, <2>3, <2>4, <3>1
  <2>6. CASE Head(toPhone) # "ack"
    <3>1. Resume(waiters, "failed")
      BY <1>12, <2>6 DEF Receive
    <3>. QED
      BY <1>r, <2>2, <2>3, <2>4, <3>1
  <2>. QED
    BY <2>5, <2>6
<1>13. CASE HandleEvent
  BY <1>13, <1>t, <1>u DEF HandleEvent, PhoneTypeOK, clientSide, outside
<1>14. CASE ConnectionBreaks
  <2>1. breaks' \in 0..MaxBreaks
    BY <1>14, <1>t DEF ConnectionBreaks, PhoneTypeOK
  <2>. QED
    BY <1>14, <1>t, <1>d, <2>1 DEF ConnectionBreaks, PhoneTypeOK
<1>15. CASE OldLoopEnds
  BY <1>15, <1>t, <1>d DEF OldLoopEnds, PhoneTypeOK
<1>16. CASE SendAudioFrame
  BY <1>16, <1>t, <1>u DEF SendAudioFrame, PhoneTypeOK, clientSide, outside
<1>17. CASE CaptureFails
  <2>1. breaks' \in 0..MaxBreaks
    BY <1>17, <1>t DEF CaptureFails, PhoneTypeOK
  <2>. QED
    BY <1>17, <1>t, <1>u, <2>1 DEF CaptureFails, PhoneTypeOK, clientSide
<1>18. CASE TapStop
  <2>1. stopSending
    BY <1>18 DEF TapStop
  <2>2. toGateway' \in Seq({"start", "stop"}) /\ stops' \in Nat
    <3>1. toGateway \in Seq({"start", "stop"}) /\ stops \in Nat
      BY <1>t DEF PhoneTypeOK
    <3>2. CASE connected
      <4>1. toGateway' = Append(toGateway, "stop") /\ stops' = stops + 1
        BY <2>1, <3>2 DEF stopSending
      <4>. QED
        BY <1>q, <3>1, <4>1
    <3>3. CASE ~connected
      BY <2>1, <3>1, <3>3 DEF stopSending
    <3>. QED
      BY <3>2, <3>3
  <2>3. ~connected => toGateway' = toGateway
    BY <2>1 DEF stopSending
  <2>. QED
    BY <1>18, <1>t, <1>u, <2>1, <2>2, <2>3 DEF TapStop, stopSending, PhoneTypeOK, clientSide
<1>19. CASE Background
  <2>1. stopSending
    BY <1>19 DEF Background
  <2>2. toGateway' \in Seq({"start", "stop"}) /\ stops' \in Nat
    <3>1. toGateway \in Seq({"start", "stop"}) /\ stops \in Nat
      BY <1>t DEF PhoneTypeOK
    <3>2. CASE connected
      <4>1. toGateway' = Append(toGateway, "stop") /\ stops' = stops + 1
        BY <2>1, <3>2 DEF stopSending
      <4>. QED
        BY <1>q, <3>1, <4>1
    <3>3. CASE ~connected
      BY <2>1, <3>1, <3>3 DEF stopSending
    <3>. QED
      BY <3>2, <3>3
  <2>3. ~connected => toGateway' = toGateway
    BY <2>1 DEF stopSending
  <2>. QED
    BY <1>19, <1>t, <1>u, <2>1, <2>2, <2>3 DEF Background, stopSending, PhoneTypeOK, clientSide
<1>20. CASE StopSent
  <2>1. stops' \in Nat
    BY <1>20, <1>t DEF StopSent, PhoneTypeOK
  <2>2. /\ sessionActive' = FALSE \/ sessionActive' = sessionActive
        /\ isSessionActive' = FALSE \/ isSessionActive' = isSessionActive
    BY <1>20 DEF StopSent
  <2>3. {connected', oldLoop', sessionActive', isSessionActive', stateEvent', microphone',
         hasReportedAudioSendError'} \subseteq BOOLEAN
    BY <1>20, <1>b, <2>2 DEF StopSent
  <2>4. ~connected' => ~sessionActive' /\ toGateway' = <<>> /\ toPhone' = <<>>
    BY <1>20, <1>t, <2>2 DEF StopSent, PhoneTypeOK, outside
  <2>. QED
    BY <1>20, <1>t, <1>u, <2>1, <2>3, <2>4 DEF StopSent, PhoneTypeOK, outside
<1>21. CASE CloseSession
  <2>1. {oldLoop', isSessionActive', stateEvent', microphone', hasReportedAudioSendError'}
            \subseteq BOOLEAN
    BY <1>21, <1>b DEF CloseSession
  <2>2. stops' \in Nat /\ breaks' \in 0..MaxBreaks /\ timers' = timers /\ unsent' = unsent
        /\ disconnectClient
    BY <1>21, <1>t DEF CloseSession, PhoneTypeOK
  <2>. QED
    BY <1>d, <2>1, <2>2
<1>22. CASE GatewayAnswers
  <2>1. toGateway # <<>> /\ toGateway' = Tail(toGateway) /\ waiters' = waiters
        /\ resumed' = resumed /\ connected
    BY <1>22, <1>t DEF GatewayAnswers, clientSide, PhoneTypeOK
  <2>2. toGateway' \in Seq({"start", "stop"})
    BY <1>t, <1>h, <2>1 DEF PhoneTypeOK
  <2>3. toPhone' = toPhone \/ \E m \in {"ack", "error"} : toPhone' = Append(toPhone, m)
    BY <1>22 DEF GatewayAnswers
  <2>4. toPhone' \in Seq({"ack", "error"})
    BY <1>t, <1>q, <2>3, ZenonT(60) DEF PhoneTypeOK
  <2>5. gateway' \in {"idle", "active", "over"}
    BY <1>22, <1>t DEF GatewayAnswers, PhoneTypeOK
  <2>. QED
    BY <1>22, <1>t, <1>u, <2>1, <2>2, <2>4, <2>5 DEF GatewayAnswers, PhoneTypeOK, clientSide, viewSide
<1>23. CASE UNCHANGED phoneVars
  BY <1>23, <1>t, <1>u DEF phoneVars, clientSide, viewSide, outside, PhoneTypeOK
<1>. QED
  BY <1>1, <1>2, <1>3, <1>4, <1>5, <1>6, <1>7, <1>8, <1>9, <1>10, <1>11, <1>12, <1>13, <1>14,
     <1>15, <1>16, <1>17, <1>18, <1>19, <1>20, <1>21, <1>22, <1>23,
     <1>24, <1>25, <1>26 DEF PhoneNext, OperationAsks, OperationGoesOn

-----------------------------------------------------------------------------
(* Relay screens: loads that did not overlap answer in the order of the        *)
(* decisions they follow. The bound of MaxRowChanges plays no part: it is a sum  *)
(* over the rows.                                                            *)

TaskPcs == {"unused", "load", "loaded", "mutate", "mutated", "select", "done"}

RelayTasksShape ==
    /\ rowVersion \in [RelayRows -> Nat] /\ listed \in [RelayRows -> Nat]
    /\ overlapped \in BOOLEAN
    /\ relayTasks \in [RelayTasks ->
         [pc : TaskPcs, row : RelayRows \cup {NoRow}, version : Nat, read : [RelayRows -> Nat]]]

\* A task that has changed a request knows a version the backend still has.
VersionOK(t) ==
    /\ relayTasks[t].version > 0 =>
         relayTasks[t].row \in RelayRows /\ relayTasks[t].version <= rowVersion[relayTasks[t].row]
    /\ TaskAt(t, "unused") => relayTasks[t].version = 0
    /\ TaskAt(t, "mutate") => relayTasks[t].row \in RelayRows

\* What a load has read holds what its own decision and those done with made.
ReadOK(t) ==
    \A u \in RelayTasks :
      TaskAt(t, "loaded") /\ relayTasks[u].version > 0 /\ (u = t \/ TaskAt(u, "done")) =>
        relayTasks[t].read[relayTasks[u].row] >= relayTasks[u].version

LoadsApart == \A t, u \in RelayTasks : t \in Loading /\ u \in Loading => t = u

RelayScreensInv ==
    /\ RelayTasksShape /\ RelayShowsItsOwn
    /\ \A t \in RelayTasks : VersionOK(t)
    /\ ~overlapped => LoadsApart /\ \A t \in RelayTasks : ReadOK(t)

LEMMA RelayScreensStepKeeps == RelayScreensInv /\ [PhoneRelayNext]_phoneRelayVars => RelayScreensInv'
<1>. SUFFICES ASSUME RelayScreensInv, [PhoneRelayNext]_phoneRelayVars PROVE RelayScreensInv'
  OBVIOUS
<1>. USE DEF RelayScreensInv, TaskAt
<1>s. /\ rowVersion \in [RelayRows -> Nat] /\ listed \in [RelayRows -> Nat]
      /\ overlapped \in BOOLEAN
      /\ relayTasks \in [RelayTasks ->
         [pc : TaskPcs, row : RelayRows \cup {NoRow}, version : Nat, read : [RelayRows -> Nat]]]
  BY DEF RelayTasksShape
<1>1. ASSUME NEW r \in RelayRows, RowChanges(r) PROVE RelayScreensInv'
  <2>1. rowVersion' = [rowVersion EXCEPT ![r] = @ + 1] /\ relayTasks' = relayTasks
        /\ listed' = listed /\ overlapped' = overlapped /\ opened' = opened
        /\ messagesOf' = messagesOf /\ messagesLate' = messagesLate /\ relayLoading' = relayLoading
    BY <1>1 DEF RowChanges
  <2>2. RelayTasksShape' /\ \A q \in RelayRows : rowVersion[q] <= rowVersion'[q]
    BY <1>s, <2>1 DEF RelayTasksShape
  <2>3. \A t \in RelayTasks : VersionOK(t)'
    <3>1. ASSUME NEW t \in RelayTasks, relayTasks[t].version > 0
          PROVE  relayTasks[t].row \in RelayRows
                 /\ relayTasks[t].version <= rowVersion'[relayTasks[t].row]
      BY <1>s, <2>2, <3>1 DEF VersionOK, RelayTasksShape
    <3>. QED
      BY <2>1, <3>1 DEF VersionOK
  <2>4. RelayShowsItsOwn'
    BY <2>1 DEF RelayShowsItsOwn, Loading, Deciding
  <2>. QED
    BY <2>1, <2>2, <2>3, <2>4 DEF ReadOK, LoadsApart, Loading
\* A task begins; none had a version for it.
<1>b. ASSUME NEW t \in RelayTasks, NEW pc \in {"load", "mutate", "select"},
             NEW r \in RelayRows \cup {NoRow}, TaskStart(t, pc, r), pc = "mutate" => r \in RelayRows,
             rowVersion' = rowVersion, listed' = listed,
             overlapped' = (overlapped \/ (pc = "load" /\ Loading # {}))
      PROVE  /\ RelayTasksShape' /\ \A u \in RelayTasks : VersionOK(u)'
             /\ ~overlapped' => LoadsApart' /\ \A u \in RelayTasks : ReadOK(u)'
             /\ \A u \in RelayTasks : u # t => relayTasks'[u] = relayTasks[u]
             /\ relayTasks[t].pc = "unused" /\ relayTasks'[t].pc = pc /\ relayTasks'[t].row = r
  <2>1. /\ relayTasks[t].pc = "unused" /\ relayTasks' = [relayTasks EXCEPT ![t].pc = pc, ![t].row = r]
    BY <1>b DEF TaskStart
  <2>2. /\ relayTasks'[t].pc = pc /\ relayTasks'[t].row = r
        /\ relayTasks'[t].version = 0
        /\ \A u \in RelayTasks : u # t => relayTasks'[u] = relayTasks[u]
    BY <1>s, <2>1 DEF VersionOK
  <2>3. RelayTasksShape'
    <3>1. relayTasks' \in [RelayTasks ->
         [pc : TaskPcs, row : RelayRows \cup {NoRow}, version : Nat, read : [RelayRows -> Nat]]]
      BY <1>s, <2>1, ZenonT(60) DEF TaskPcs
    <3>2. overlapped' \in BOOLEAN
      BY <1>b, <1>s
    <3>. QED
      BY <1>b, <1>s, <3>1, <3>2 DEF RelayTasksShape
  <2>4. \A u \in RelayTasks : VersionOK(u)'
    BY <1>b, <2>2 DEF VersionOK
  <2>5. ASSUME ~overlapped' PROVE LoadsApart' /\ \A u \in RelayTasks : ReadOK(u)'
    <3>1. ~overlapped /\ LoadsApart /\ \A u \in RelayTasks : ReadOK(u)
      BY <1>b, <2>5
    <3>2. LoadsApart'
      <4>1. CASE pc = "load"
        <5>1. Loading = {}
          BY <1>b, <2>5, <4>1
        <5>2. \A u \in RelayTasks : u # t => relayTasks'[u].pc \notin {"load", "loaded"}
          BY <2>2, <5>1 DEF Loading
        <5>. QED
          BY <5>2 DEF LoadsApart, Loading
      <4>2. CASE pc # "load"
        <5>1. \A u \in RelayTasks : relayTasks'[u].pc \in {"load", "loaded"} =>
                                      relayTasks[u].pc \in {"load", "loaded"}
          BY <1>b, <2>2, <4>2
        <5>. QED
          BY <3>1, <5>1 DEF LoadsApart, Loading
      <4>. QED
        BY <4>1, <4>2
    <3>3. ASSUME NEW u \in RelayTasks PROVE ReadOK(u)'
      BY <1>b, <2>2, <3>1 DEF ReadOK
    <3>. QED
      BY <3>2, <3>3
  <2>. QED
    BY <2>1, <2>2, <2>3, <2>4, <2>5
\* A task ends without a version.
<1>z. ASSUME NEW t \in RelayTasks, TaskEnds(t), rowVersion' = rowVersion, listed' = listed,
             overlapped' = overlapped
      PROVE  /\ RelayTasksShape' /\ \A u \in RelayTasks : VersionOK(u)'
             /\ ~overlapped' => LoadsApart' /\ \A u \in RelayTasks : ReadOK(u)'
             /\ \A u \in RelayTasks : u # t => relayTasks'[u] = relayTasks[u]
             /\ relayTasks'[t].pc = "done" /\ relayTasks'[t].version = 0
  <2>1. relayTasks' = [relayTasks EXCEPT ![t] = [UnusedTask EXCEPT !.pc = "done"]]
    BY <1>z DEF TaskEnds
  <2>2. /\ relayTasks'[t].pc = "done" /\ relayTasks'[t].version = 0
        /\ \A u \in RelayTasks : u # t => relayTasks'[u] = relayTasks[u]
    BY <1>s, <2>1 DEF UnusedTask
  <2>3. RelayTasksShape'
    BY <1>z, <1>s, <2>1 DEF RelayTasksShape, UnusedTask, TaskPcs, Unread
  <2>4. \A u \in RelayTasks : VersionOK(u)'
    BY <1>z, <2>2 DEF VersionOK
  <2>5. ~overlapped' => LoadsApart' /\ \A u \in RelayTasks : ReadOK(u)'
    BY <1>z, <2>2 DEF LoadsApart, Loading, ReadOK
  <2>. QED
    BY <2>2, <2>3, <2>4, <2>5
<1>2. ASSUME NEW t \in RelayTasks, StartLoad(t) PROVE RelayScreensInv'
  <2>1. /\ TaskStart(t, "load", NoRow) /\ rowVersion' = rowVersion /\ listed' = listed
        /\ overlapped' = (overlapped \/ Loading # {}) /\ opened' = opened
        /\ messagesOf' = messagesOf /\ messagesLate' = messagesLate
    BY <1>2 DEF StartLoad
  <2>2. /\ RelayTasksShape' /\ \A u \in RelayTasks : VersionOK(u)'
        /\ ~overlapped' => LoadsApart' /\ \A u \in RelayTasks : ReadOK(u)'
        /\ \A u \in RelayTasks : u # t => relayTasks'[u] = relayTasks[u]
        /\ relayTasks[t].pc = "unused" /\ relayTasks'[t].pc = "load"
    BY <1>b, <2>1
  <2>3. RelayShowsItsOwn'
    BY <2>1, <2>2 DEF RelayShowsItsOwn, Loading
  <2>. QED
    BY <2>2, <2>3
<1>3. ASSUME NEW t \in RelayTasks, NEW r \in RelayRows, StartMutate(t, r) PROVE RelayScreensInv'
  <2>1. /\ TaskStart(t, "mutate", r) /\ rowVersion' = rowVersion /\ listed' = listed
        /\ overlapped' = overlapped /\ opened' = opened
        /\ messagesOf' = messagesOf /\ messagesLate' = messagesLate
    BY <1>3 DEF StartMutate
  <2>o. overlapped' = (overlapped \/ ("mutate" = "load" /\ Loading # {}))
    BY <1>s, <2>1, SMTT(40)
  <2>2. /\ RelayTasksShape' /\ \A u \in RelayTasks : VersionOK(u)'
        /\ ~overlapped' => LoadsApart' /\ \A u \in RelayTasks : ReadOK(u)'
        /\ \A u \in RelayTasks : u # t => relayTasks'[u] = relayTasks[u]
        /\ relayTasks[t].pc = "unused" /\ relayTasks'[t].pc = "mutate"
    BY <1>b, <2>1, <2>o
  <2>3. RelayShowsItsOwn'
    BY <2>1, <2>2 DEF RelayShowsItsOwn, Deciding
  <2>. QED
    BY <2>2, <2>3
<1>4. ASSUME NEW t \in RelayTasks, NEW r \in RelayRows, OpenRequest(t, r) PROVE RelayScreensInv'
  <2>1. /\ TaskStart(t, "select", r) /\ rowVersion' = rowVersion /\ listed' = listed
        /\ overlapped' = overlapped /\ opened' = r /\ relayLoading' = relayLoading
    BY <1>4 DEF OpenRequest
  <2>o. overlapped' = (overlapped \/ ("select" = "load" /\ Loading # {}))
    BY <1>s, <2>1, SMTT(40)
  <2>2. /\ RelayTasksShape' /\ \A u \in RelayTasks : VersionOK(u)'
        /\ ~overlapped' => LoadsApart' /\ \A u \in RelayTasks : ReadOK(u)'
        /\ \A u \in RelayTasks : u # t => relayTasks'[u] = relayTasks[u]
        /\ relayTasks[t].pc = "unused" /\ relayTasks'[t].pc = "select" /\ relayTasks'[t].row = r
    BY <1>b, <2>1, <2>o
  <2>3. RelayShowsItsOwn'
    BY <2>1, <2>2 DEF RelayShowsItsOwn, Loading, Deciding
  <2>. QED
    BY <2>2, <2>3
<1>5. ASSUME NEW t \in RelayTasks, RelayCallFails(t) PROVE RelayScreensInv'
  <2>1. /\ TaskEnds(t) /\ rowVersion' = rowVersion /\ listed' = listed /\ overlapped' = overlapped
        /\ opened' = opened /\ messagesOf' = messagesOf /\ messagesLate' = messagesLate
        /\ relayLoading' = FALSE /\ relayTasks[t].pc # "select"
    BY <1>5 DEF RelayCallFails, Loading, Deciding
  <2>2. RelayShowsItsOwn'
    BY <1>z, <2>1 DEF RelayShowsItsOwn
  <2>. QED
    BY <1>z, <2>1, <2>2
<1>6. ASSUME NEW t \in RelayTasks, MessagesReturn(t) \/ MessagesFail(t) PROVE RelayScreensInv'
  <2>1. /\ TaskEnds(t) /\ rowVersion' = rowVersion /\ listed' = listed /\ overlapped' = overlapped
        /\ opened' = opened /\ relayLoading' = relayLoading /\ relayTasks[t].pc = "select"
        /\ messagesOf' # NoRow => messagesOf' = relayTasks[t].row
                                  /\ messagesLate' = (relayTasks[t].row # opened)
    BY <1>6 DEF MessagesReturn, MessagesFail
  <2>2. \A u \in RelayTasks : /\ relayTasks[u].pc # "select" => relayTasks'[u] = relayTasks[u]
                              /\ relayTasks'[u].pc = "done" /\ relayTasks'[u].version > 0 =>
                                   relayTasks'[u] = relayTasks[u]
    BY <1>z, <2>1
  <2>3. relayLoading' => Loading' \cup Deciding' # {}
    BY <2>1, <2>2 DEF RelayShowsItsOwn, Loading, Deciding
  <2>4. opened' # NoRow /\ messagesOf' \notin {NoRow, opened'} => messagesLate'
    BY <2>1
  <2>5. RelayShowsItsOwn'
    BY <2>1, <2>2, <2>3, <2>4 DEF RelayShowsItsOwn
  <2>. QED
    BY <1>z, <2>1, <2>5
<1>7. ASSUME NEW t \in RelayTasks, LoadRead(t) PROVE RelayScreensInv'
  <2>1. /\ relayTasks[t].pc = "load"
        /\ relayTasks' = [relayTasks EXCEPT ![t].pc = "loaded", ![t].read = rowVersion]
        /\ rowVersion' = rowVersion /\ listed' = listed /\ overlapped' = overlapped
        /\ opened' = opened /\ messagesOf' = messagesOf /\ messagesLate' = messagesLate
    BY <1>7 DEF LoadRead
  <2>2. /\ relayTasks'[t].pc = "loaded" /\ relayTasks'[t].read = rowVersion
        /\ relayTasks'[t].version = relayTasks[t].version /\ relayTasks'[t].row = relayTasks[t].row
        /\ \A u \in RelayTasks : u # t => relayTasks'[u] = relayTasks[u]
    BY <1>s, <2>1
  <2>3. RelayTasksShape'
    BY <1>s, <2>1, ZenonT(60) DEF RelayTasksShape, TaskPcs
  <2>4. \A u \in RelayTasks : VersionOK(u)'
    BY <2>1, <2>2 DEF VersionOK
  <2>5. RelayShowsItsOwn'
    <3>1. \A u \in RelayTasks : relayTasks[u].pc = "select" \/ relayTasks'[u].pc = "done" =>
                                   relayTasks'[u] = relayTasks[u]
      BY <2>1, <2>2
    <3>2. Loading' # {}
      BY <2>2 DEF Loading
    <3>. QED
      BY <2>1, <3>1, <3>2 DEF RelayShowsItsOwn
  <2>6. ASSUME ~overlapped' PROVE LoadsApart' /\ \A u \in RelayTasks : ReadOK(u)'
    <3>1. LoadsApart' /\ \A u \in RelayTasks : relayTasks'[u].pc = "loaded" => u = t
      BY <2>1, <2>2, <2>6 DEF LoadsApart, Loading
    <3>2. \A u \in RelayTasks : relayTasks[u].version > 0 =>
             rowVersion[relayTasks[u].row] >= relayTasks[u].version
      BY <1>s DEF VersionOK
    <3>3. \A u \in RelayTasks : relayTasks'[u].version = relayTasks[u].version
                                /\ relayTasks'[u].row = relayTasks[u].row
      BY <2>2
    <3>. QED
      BY <2>2, <3>1, <3>2, <3>3 DEF ReadOK
  <2>. QED
    BY <2>3, <2>4, <2>5, <2>6
<1>8. ASSUME NEW t \in RelayTasks, LoadReturns(t) PROVE RelayScreensInv'
  <2>1. /\ relayTasks[t].pc = "loaded"
        /\ relayTasks' = [relayTasks EXCEPT ![t].pc = "done", ![t].read = Unread]
        /\ rowVersion' = rowVersion /\ listed' = relayTasks[t].read /\ overlapped' = overlapped
        /\ relayLoading' = FALSE /\ opened' = opened /\ messagesOf' = messagesOf
        /\ messagesLate' = messagesLate
    BY <1>8 DEF LoadReturns, TaskGo
  <2>2. /\ relayTasks'[t].pc = "done"
        /\ relayTasks'[t].version = relayTasks[t].version /\ relayTasks'[t].row = relayTasks[t].row
        /\ \A u \in RelayTasks : u # t => relayTasks'[u] = relayTasks[u]
    BY <1>s, <2>1
  <2>3. RelayTasksShape'
    BY <1>s, <2>1, ZenonT(60) DEF RelayTasksShape, TaskPcs, Unread
  <2>4. \A u \in RelayTasks : VersionOK(u)'
    BY <2>1, <2>2 DEF VersionOK
  <2>5. RelayShowsItsOwn'
    <3>1. ASSUME NEW u \in RelayTasks, relayTasks'[u].pc = "done", relayTasks'[u].version > 0,
                 ~overlapped
          PROVE  listed'[relayTasks'[u].row] >= relayTasks'[u].version
      BY <2>1, <2>2, <3>1, ZenonT(60) DEF ReadOK
    <3>2. \A u \in RelayTasks : relayTasks[u].pc = "select" => relayTasks'[u] = relayTasks[u]
      BY <2>1, <2>2
    <3>. QED
      BY <2>1, <3>1, <3>2 DEF RelayShowsItsOwn
  <2>6. ASSUME ~overlapped' PROVE LoadsApart' /\ \A u \in RelayTasks : ReadOK(u)'
    <3>1. \A u \in RelayTasks : relayTasks'[u].pc \notin {"load", "loaded"}
      BY <2>1, <2>2, <2>6 DEF LoadsApart, Loading
    <3>. QED
      BY <3>1 DEF ReadOK, LoadsApart, Loading
  <2>. QED
    BY <2>3, <2>4, <2>5, <2>6
<1>9. ASSUME NEW t \in RelayTasks, Mutate(t) PROVE RelayScreensInv'
  <2>. DEFINE r == relayTasks[t].row
  <2>1. /\ relayTasks[t].pc = "mutate" /\ rowVersion' = [rowVersion EXCEPT ![r] = @ + 1]
        /\ relayTasks' = [relayTasks EXCEPT ![t].pc = "mutated", ![t].version = rowVersion[r] + 1]
        /\ listed' = listed /\ overlapped' = overlapped /\ r \in RelayRows
        /\ opened' = opened /\ messagesOf' = messagesOf /\ messagesLate' = messagesLate
    BY <1>9 DEF Mutate, VersionOK
  <2>2. /\ relayTasks'[t].pc = "mutated" /\ relayTasks'[t].row = r
        /\ relayTasks'[t].version = rowVersion[r] + 1
        /\ \A u \in RelayTasks : u # t => relayTasks'[u] = relayTasks[u]
        /\ rowVersion'[r] = rowVersion[r] + 1
        /\ \A q \in RelayRows : rowVersion[q] <= rowVersion'[q]
    BY <1>s, <2>1
  <2>3. RelayTasksShape'
    <3>1. rowVersion[r] + 1 \in Nat
      BY <1>s, <2>1
    <3>2. rowVersion' \in [RelayRows -> Nat]
      BY <1>s, <2>1
    <3>3. relayTasks' \in [RelayTasks ->
         [pc : TaskPcs, row : RelayRows \cup {NoRow}, version : Nat, read : [RelayRows -> Nat]]]
      <4>. DEFINE new == rowVersion[r] + 1
      <4>. HIDE DEF new
      <4>1. relayTasks' = [relayTasks EXCEPT ![t].pc = "mutated", ![t].version = new]
        BY <2>1 DEF new
      <4>2. new \in Nat
        BY <3>1 DEF new
      <4>. QED
        BY <1>s, <4>1, <4>2, ZenonT(60) DEF TaskPcs
    <3>. QED
      BY <1>s, <2>1, <3>2, <3>3 DEF RelayTasksShape
  <2>4. ASSUME NEW u \in RelayTasks PROVE VersionOK(u)'
    <3>1. CASE u = t
      BY <1>s, <2>1, <2>2, <3>1 DEF VersionOK
    <3>2. CASE u # t
      <4>1. ASSUME relayTasks[u].version > 0
            PROVE  relayTasks[u].row \in RelayRows
                   /\ relayTasks[u].version <= rowVersion'[relayTasks[u].row]
        BY <1>s, <2>2, <2>3, <4>1 DEF VersionOK, RelayTasksShape
      <4>. QED
        BY <2>2, <3>2, <4>1 DEF VersionOK
    <3>. QED
      BY <3>1, <3>2
  <2>5. RelayShowsItsOwn'
    <3>1. \A u \in RelayTasks : relayTasks[u].pc = "select" \/ relayTasks'[u].pc = "done" =>
                                   relayTasks'[u] = relayTasks[u]
      BY <2>1, <2>2
    <3>2. Deciding' # {}
      BY <2>2 DEF Deciding
    <3>. QED
      BY <2>1, <3>1, <3>2 DEF RelayShowsItsOwn
  <2>6. ASSUME ~overlapped' PROVE LoadsApart' /\ \A u \in RelayTasks : ReadOK(u)'
    <3>1. \A u \in RelayTasks : relayTasks'[u].pc \in {"load", "loaded", "done"} =>
                                   relayTasks'[u] = relayTasks[u]
      BY <2>1, <2>2
    <3>2. LoadsApart /\ \A u \in RelayTasks : ReadOK(u)
      BY <2>1, <2>6
    <3>3. LoadsApart'
      BY <3>1, <3>2 DEF LoadsApart, Loading
    <3>4. ASSUME NEW u \in RelayTasks PROVE ReadOK(u)'
      BY <3>1, <3>2 DEF ReadOK
    <3>. QED
      BY <3>3, <3>4
  <2>. QED
    BY <2>3, <2>4, <2>5, <2>6
<1>10. ASSUME NEW t \in RelayTasks, MutateReturns(t) PROVE RelayScreensInv'
  <2>1. /\ relayTasks[t].pc = "mutated"
        /\ relayTasks' = [relayTasks EXCEPT ![t].pc = "load", ![t].read = Unread]
        /\ rowVersion' = rowVersion /\ listed' = listed
        /\ overlapped' = (overlapped \/ Loading # {})
    BY <1>10 DEF MutateReturns, TaskGo
  <2>2. /\ relayTasks'[t].pc = "load"
        /\ relayTasks'[t].version = relayTasks[t].version /\ relayTasks'[t].row = relayTasks[t].row
        /\ \A u \in RelayTasks : u # t => relayTasks'[u] = relayTasks[u]
    BY <1>s, <2>1
  <2>3. RelayTasksShape'
    <3>1. overlapped' \in BOOLEAN
      BY <1>s, <2>1
    <3>. QED
      BY <1>s, <2>1, <3>1, ZenonT(60) DEF RelayTasksShape, TaskPcs, Unread
  <2>4. \A u \in RelayTasks : VersionOK(u)'
    BY <2>1, <2>2 DEF VersionOK
  <2>5. RelayShowsItsOwn'
    BY <1>10, <2>1, <2>2 DEF MutateReturns, RelayShowsItsOwn, Loading, Deciding
  <2>6. ASSUME ~overlapped' PROVE LoadsApart' /\ \A u \in RelayTasks : ReadOK(u)'
    <3>1. Loading = {}
      BY <2>1, <2>6
    <3>2. \A u \in RelayTasks : u # t => relayTasks'[u].pc \notin {"load", "loaded"}
      BY <2>2, <3>1 DEF Loading
    <3>. QED
      BY <2>2, <3>2 DEF LoadsApart, Loading, ReadOK
  <2>. QED
    BY <2>3, <2>4, <2>5, <2>6
<1>11. CASE CloseRequest
  BY <1>11 DEF CloseRequest, RelayTasksShape, VersionOK, ReadOK, LoadsApart, RelayShowsItsOwn,
               Loading, Deciding
<1>12. CASE UNCHANGED phoneRelayVars
  BY <1>12 DEF phoneRelayVars, RelayTasksShape, VersionOK, ReadOK, LoadsApart, RelayShowsItsOwn,
               Loading, Deciding
<1>. QED
  BY <1>1, <1>2, <1>3, <1>4, <1>5, <1>6, <1>7, <1>8, <1>9, <1>10, <1>11, <1>12 DEF PhoneRelayNext

-----------------------------------------------------------------------------
(* Live page: a stream that captures is the page's or one that was replaced, and *)
(* a session is accepted only between its ack and the next stop.               *)

PageInv ==
    /\ PageTypeOK /\ PageMicFollowsSession
    /\ liveStreams \ {mediaStream} \subseteq lost
    /\ startAccepted /\ ~hushed => micStops = 0

LEMMA PageStepKeeps == PageInv /\ [PageNext]_pageVars => PageInv'
<1>. SUFFICES ASSUME PageInv, [PageNext]_pageVars PROVE PageInv'
  OBVIOUS
<1>. USE LivePageAssumption
<1>. DEFINE SocketRows == [state : {"connecting", "open", "closing", "closed"},
                           session : {"none", "sent", "active", "over"}]
            MicSteps == {"media", "module", "done"}
<1>t. /\ pageSockets \in Seq(SocketRows) /\ micStarts \in Seq(MicSteps)
      /\ consentChecked \in BOOLEAN /\ startAccepted \in BOOLEAN /\ hushed \in BOOLEAN
      /\ micStops \in 0..MaxMicStops
      /\ mediaStream \in 0..Len(micStarts) /\ audioContext \in 0..Len(micStarts)
      /\ liveStreams \subseteq DOMAIN micStarts /\ late \subseteq DOMAIN micStarts
      /\ lost \subseteq DOMAIN micStarts /\ DOMAIN micStarts = 1..Len(micStarts)
      /\ Len(micStarts) \in Nat
  <2>1. micStarts \in Seq(MicSteps)
    BY DEF PageInv, PageTypeOK
  <2>2. DOMAIN micStarts = 1..Len(micStarts) /\ Len(micStarts) \in Nat
    BY <2>1, LenProperties
  <2>. QED
    BY <2>1, <2>2 DEF PageInv, PageTypeOK
<1>i. /\ ~startAccepted /\ micStops = 0 => liveStreams \subseteq late \cup lost
      /\ startAccepted /\ ~hushed => mediaStream # 0 \/ \E n \in DOMAIN micStarts : MicAt(n, "media")
      /\ liveStreams \ {mediaStream} \subseteq lost
      /\ startAccepted /\ ~hushed => micStops = 0
  BY DEF PageInv, PageMicFollowsSession
<1>. HIDE DEF SocketRows, MicSteps
\* The invariant from its parts.
<1>k. ASSUME pageSockets' \in Seq(SocketRows), micStarts' \in Seq(MicSteps),
             consentChecked' \in BOOLEAN, startAccepted' \in BOOLEAN, hushed' \in BOOLEAN,
             micStops' \in 0..MaxMicStops,
             mediaStream' \in 0..Len(micStarts'), audioContext' \in 0..Len(micStarts'),
             liveStreams' \subseteq DOMAIN micStarts', late' \subseteq DOMAIN micStarts',
             lost' \subseteq DOMAIN micStarts',
             ~startAccepted' /\ micStops' = 0 => liveStreams' \subseteq late' \cup lost',
             startAccepted' /\ ~hushed' =>
               /\ mediaStream' # 0 \/ \E n \in DOMAIN micStarts' : micStarts'[n] = "media"
               /\ micStops' = 0,
             liveStreams' \ {mediaStream'} \subseteq lost'
      PROVE  PageInv'
  BY <1>k DEF PageInv, PageTypeOK, PageMicFollowsSession, MicAt, SocketRows, MicSteps
\* A socket's state or session changes.
<1>f. ASSUME NEW s \in DOMAIN pageSockets,
             \/ \E v \in {"connecting", "open", "closing", "closed"} : SetSocket(s, "state", v)
             \/ \E v \in {"none", "sent", "active", "over"} : SetSocket(s, "session", v)
      PROVE  pageSockets' \in Seq(SocketRows)
  <2>1. \A i \in DOMAIN pageSockets : pageSockets[i] \in SocketRows
    BY <1>t, ElementOfSeq, LenProperties
  <2>2. \E e \in SocketRows : pageSockets' = [pageSockets EXCEPT ![s] = e]
    <3>1. CASE \E v \in {"connecting", "open", "closing", "closed"} : SetSocket(s, "state", v)
      <4>1. PICK v \in {"connecting", "open", "closing", "closed"} : SetSocket(s, "state", v)
        BY <3>1
      <4>2. [pageSockets[s] EXCEPT !["state"] = v] \in SocketRows
        BY <2>1 DEF SocketRows
      <4>. QED
        BY <4>1, <4>2 DEF SetSocket
    <3>2. CASE \E v \in {"none", "sent", "active", "over"} : SetSocket(s, "session", v)
      <4>1. PICK v \in {"none", "sent", "active", "over"} : SetSocket(s, "session", v)
        BY <3>2
      <4>2. [pageSockets[s] EXCEPT !["session"] = v] \in SocketRows
        BY <2>1 DEF SocketRows
      <4>. QED
        BY <4>1, <4>2 DEF SetSocket
    <3>. QED
      BY <1>f, <3>1, <3>2
  <2>. QED
    BY <1>t, <2>2, ExceptSeq
\* A microphone start goes on.
<1>g. ASSUME NEW n \in DOMAIN micStarts, NEW step \in MicSteps, MicGo(n, step)
      PROVE  /\ micStarts' \in Seq(MicSteps) /\ Len(micStarts') = Len(micStarts)
             /\ DOMAIN micStarts' = DOMAIN micStarts
             /\ micStarts'[n] = step
             /\ \A m \in DOMAIN micStarts : m # n => micStarts'[m] = micStarts[m]
  BY <1>g, <1>t, ExceptSeq DEF MicGo
\* stopMic, whether it waits for a context or not.
<1>p. ASSUME StopMic, micStarts' \in Seq(MicSteps), Len(micStarts') = Len(micStarts),
             DOMAIN micStarts' = DOMAIN micStarts, pageSockets' \in Seq(SocketRows),
             UNCHANGED <<consentChecked, late, lost, hushed>>
      PROVE  PageInv'
  <2>1. startAccepted' = FALSE
    BY <1>p DEF StopMic
  <2>2. CASE audioContext = 0
    <3>1. audioContext' = 0 /\ mediaStream' = 0 /\ liveStreams' = liveStreams \ {mediaStream}
          /\ micStops' = micStops
      BY <1>p, <2>2 DEF StopMic, Release
    <3>2. /\ liveStreams' \subseteq lost' /\ liveStreams' \subseteq DOMAIN micStarts'
          /\ late' \subseteq DOMAIN micStarts' /\ lost' \subseteq DOMAIN micStarts'
      BY <1>p, <1>t, <1>i, <3>1
    <3>3. 0 \in 0..Len(micStarts') /\ micStops' \in 0..MaxMicStops
      BY <1>p, <1>t, <3>1
    <3>. QED
      BY <1>p, <1>t, <1>k, <2>1, <3>1, <3>2, <3>3
  <2>3. CASE audioContext # 0
    <3>1. micStops < MaxMicStops /\ micStops' = micStops + 1
          /\ UNCHANGED <<mediaStream, audioContext, liveStreams>>
      BY <1>p, <2>3 DEF StopMic
    <3>2. micStops' \in 0..MaxMicStops /\ micStops' # 0
      BY <1>t, <3>1
    <3>. QED
      BY <1>p, <1>t, <1>i, <1>k, <2>1, <3>1, <3>2
  <2>. QED
    BY <2>2, <2>3
\* Nothing happens to the microphone.
<1>u. ASSUME UNCHANGED <<startAccepted, micVars, hushed>>, pageSockets' \in Seq(SocketRows),
             consentChecked' \in BOOLEAN
      PROVE  PageInv'
  BY <1>u, <1>t, <1>i, <1>k DEF micVars, MicAt
<1>l. /\ DOMAIN pageSockets = 1..Len(pageSockets) /\ Len(pageSockets) \in Nat
      /\ pageSocket # 0 => pageSocket \in DOMAIN pageSockets
  <2>1. DOMAIN pageSockets = 1..Len(pageSockets) /\ Len(pageSockets) \in Nat
    BY <1>t, LenProperties
  <2>. QED
    BY <2>1 DEF pageSocket
<1>1. CASE ToggleConsent
  BY <1>1, <1>t, <1>u DEF ToggleConsent
<1>2. CASE PageConnect
  <2>. DEFINE new == [state |-> "connecting", session |-> "none"]
  <2>1. new \in SocketRows
    BY DEF SocketRows
  <2>2. Append(pageSockets, new) \in Seq(SocketRows)
    BY <1>t, <2>1, AppendProperties
  <2>. QED
    BY <1>2, <1>t, <1>u, <2>2 DEF PageConnect
<1>3. ASSUME NEW s \in DOMAIN pageSockets, PageOpens(s) PROVE PageInv'
  BY <1>3, <1>t, <1>u, <1>f DEF PageOpens
<1>4. ASSUME NEW s \in DOMAIN pageSockets, PageCloses(s) PROVE PageInv'
  BY <1>4, <1>t, <1>f, <1>p DEF PageCloses
<1>5. CASE DisconnectClick
  <2>1. pageSockets' \in Seq(SocketRows)
    BY <1>5, <1>t, <1>l, <1>f DEF DisconnectClick
  <2>. QED
    BY <1>5, <1>t, <1>p, <2>1 DEF DisconnectClick
<1>6. CASE StartClick
  BY <1>6, <1>t, <1>l, <1>f, <1>u DEF StartClick
<1>7. CASE StopClick
  <2>1. pageSockets' \in Seq(SocketRows)
    BY <1>7, <1>t, <1>l, <1>f DEF StopClick
  <2>. QED
    BY <1>7, <1>t, <1>p, <2>1 DEF StopClick
<1>8. ASSUME NEW s \in DOMAIN pageSockets, AckArrives(s) PROVE PageInv'
  <2>1. /\ pageSockets' \in Seq(SocketRows) /\ startAccepted' = TRUE
        /\ hushed' = (micStops > 0 \/ ~consentChecked)
        /\ UNCHANGED <<consentChecked, micStops, mediaStream, audioContext, liveStreams, late, lost>>
    BY <1>8, <1>f DEF AckArrives
  <2>2. hushed' \in BOOLEAN /\ startAccepted' \in BOOLEAN
    BY <1>t, <2>1
  <2>3. CASE consentChecked
    <3>1. micStarts' = Append(micStarts, "media")
      BY <1>8, <2>3 DEF AckArrives
    <3>2. /\ micStarts' \in Seq(MicSteps) /\ Len(micStarts') = Len(micStarts) + 1
          /\ micStarts'[Len(micStarts) + 1] = "media"
      BY <1>t, <3>1, AppendProperties DEF MicSteps
    <3>3. /\ DOMAIN micStarts' = 1..Len(micStarts') /\ DOMAIN micStarts \subseteq DOMAIN micStarts'
          /\ Len(micStarts) + 1 \in DOMAIN micStarts'
          /\ 0..Len(micStarts) \subseteq 0..Len(micStarts')
      BY <1>t, <3>2, LenProperties
    <3>4. ~hushed' => micStops' = 0
      <4>1. ~hushed' => ~(micStops > 0)
        BY <2>1
      <4>. QED
        BY <1>t, <2>1, <4>1
    <3>. QED
      BY <1>t, <1>i, <1>k, <2>1, <2>2, <3>2, <3>3, <3>4
  <2>4. CASE ~consentChecked
    <3>1. micStarts' = micStarts /\ hushed'
      BY <1>8, <2>1, <2>4 DEF AckArrives
    <3>. QED
      BY <1>t, <1>i, <1>k, <2>1, <2>2, <3>1
  <2>. QED
    BY <2>3, <2>4
<1>9. ASSUME NEW s \in DOMAIN pageSockets, ProviderFails(s) PROVE PageInv'
  <2>1. pageSockets' \in Seq(SocketRows)
    BY <1>9, <1>t, <1>f DEF ProviderFails
  <2>. QED
    BY <1>9, <1>t, <1>p, <2>1 DEF ProviderFails
<1>10. CASE ContextClosed
  <2>1. /\ micStops > 0 /\ micStops' = micStops - 1 /\ audioContext' = 0 /\ mediaStream' = 0
        /\ liveStreams' = liveStreams \ {mediaStream}
        /\ UNCHANGED <<pageSockets, consentChecked, startAccepted, micStarts, late, lost, hushed>>
    BY <1>10 DEF ContextClosed, Release
  <2>2. micStops' \in 0..MaxMicStops /\ micStops # 0
    BY <1>t, <2>1
  <2>. QED
    BY <1>t, <1>i, <1>k, <2>1, <2>2
<1>11. ASSUME NEW n \in DOMAIN micStarts, MediaGranted(n) PROVE PageInv'
  <2>1. /\ MicGo(n, "module") /\ mediaStream' = n /\ audioContext' = n
        /\ liveStreams' = liveStreams \cup {n}
        /\ late' = IF startAccepted THEN late ELSE late \cup {n}
        /\ lost' = lost \cup ({mediaStream} \ {0})
        /\ UNCHANGED <<pageSockets, consentChecked, startAccepted, micStops, hushed>>
    BY <1>11 DEF MediaGranted
  <2>2. /\ micStarts' \in Seq(MicSteps) /\ Len(micStarts') = Len(micStarts)
        /\ DOMAIN micStarts' = DOMAIN micStarts
    BY <1>g, <2>1 DEF MicSteps
  <2>3. n # 0 /\ n \in 0..Len(micStarts) /\ {mediaStream} \ {0} \subseteq DOMAIN micStarts
    BY <1>t
  <2>4. liveStreams' \ {mediaStream'} \subseteq lost'
    BY <1>i, <1>t, <2>1
  <2>5. ~startAccepted' /\ micStops' = 0 => liveStreams' \subseteq late' \cup lost'
    BY <1>i, <2>1
  <2>. QED
    BY <1>t, <1>i, <1>k, <2>1, <2>2, <2>3, <2>4, <2>5
<1>12. ASSUME NEW n \in DOMAIN micStarts, ModuleLoads(n) PROVE PageInv'
  <2>1. /\ mediaStream # 0 /\ MicGo(n, "done")
        /\ UNCHANGED <<pageSockets, consentChecked, startAccepted, micStops, mediaStream,
                       audioContext, liveStreams, late, lost, hushed>>
    BY <1>12 DEF ModuleLoads
  <2>2. /\ micStarts' \in Seq(MicSteps) /\ Len(micStarts') = Len(micStarts)
        /\ DOMAIN micStarts' = DOMAIN micStarts
    BY <1>g, <2>1 DEF MicSteps
  <2>. QED
    BY <1>t, <1>i, <1>k, <2>1, <2>2
<1>13. ASSUME NEW n \in DOMAIN micStarts, MicFails(n) PROVE PageInv'
  <2>1. MicGo(n, "done") /\ StopMic /\ UNCHANGED <<pageSockets, consentChecked, late, lost, hushed>>
    BY <1>13 DEF MicFails
  <2>2. /\ micStarts' \in Seq(MicSteps) /\ Len(micStarts') = Len(micStarts)
        /\ DOMAIN micStarts' = DOMAIN micStarts
    BY <1>g, <2>1 DEF MicSteps
  <2>. QED
    BY <1>t, <1>p, <2>1, <2>2
<1>14. CASE UNCHANGED pageVars
  BY <1>14, <1>t, <1>u DEF pageVars, micVars
<1>. QED
  BY <1>1, <1>2, <1>3, <1>4, <1>5, <1>6, <1>7, <1>8, <1>9, <1>10, <1>11, <1>12, <1>13, <1>14
  DEF PageNext

-----------------------------------------------------------------------------
(* Room page: a join has its room when consent allowed it, and none that a      *)
(* leave overtook has one afterwards.                                        *)

RoomPageInv ==
    /\ RoomPageTypeOK /\ OneRoomAtMost
    /\ \A j \in JoinClicks : /\ joins[j] # "none" => j \in allowed
                             /\ j \in leftJoins => joins[j] \notin {"none", "token"}

RoomRowStates == {"connecting", "connected", "dropped", "left"}
RoomPageRows == [join : JoinClicks, media : SUBSET Media, state : RoomRowStates]

\* What a room is after its state or its media change.
LEMMA RoomRowChanges ==
    ASSUME NEW x \in RoomPageRows, NEW s, NEW m
    PROVE  /\ [x EXCEPT !.state = s] = [join |-> x.join, media |-> x.media, state |-> s]
           /\ [x EXCEPT !.media = m] = [join |-> x.join, media |-> m, state |-> x.state]
<1>1. x = [join |-> x.join, media |-> x.media, state |-> x.state]
  BY DEF RoomPageRows
<1>. DEFINE j == x.join  n == x.media  t == x.state
<1>2. x = [join |-> j, media |-> n, state |-> t]
  BY <1>1
<1>. HIDE DEF j, n, t
<1>3. /\ [x EXCEPT !.state = s] = [join |-> j, media |-> n, state |-> s]
      /\ [x EXCEPT !.media = m] = [join |-> j, media |-> m, state |-> t]
  BY <1>2
<1>. QED
  BY <1>3 DEF j, n, t

LEMMA RoomPageStepKeeps == RoomPageInv /\ [RoomPageNext]_roomPageVars => RoomPageInv'
<1>. SUFFICES ASSUME RoomPageInv, [RoomPageNext]_roomPageVars PROVE RoomPageInv'
  OBVIOUS
<1>. USE RoomPageAssumption
<1>. DEFINE JoinSteps == {"none", "token", "connect", "camera", "microphone", "done"}
<1>t. /\ pageMode \in {"host", "guest"} /\ pageConsent \in [checked : BOOLEAN, guest : GuestConsents]
      /\ joins \in [JoinClicks -> JoinSteps] /\ lkRooms \in Seq(RoomPageRows)
      /\ lkRoom \in 0..Len(lkRooms) /\ leaves \in 0..MaxLeaves
      /\ allowed \subseteq JoinClicks /\ leftJoins \subseteq JoinClicks
  BY DEF RoomPageInv, RoomPageTypeOK, RoomPageRows, RoomRowStates
<1>l. /\ DOMAIN lkRooms = 1..Len(lkRooms) /\ Len(lkRooms) \in Nat
      /\ lkRooms \in [1..Len(lkRooms) -> RoomPageRows]
  BY <1>t, LenProperties
\* A change of a room there is not is none.
<1>n. ASSUME NEW x, x \notin DOMAIN lkRooms, NEW e PROVE [lkRooms EXCEPT ![x] = e] = lkRooms
  BY <1>l, <1>n
<1>e. \A r \in DOMAIN lkRooms : lkRooms[r] \in RoomPageRows
  BY <1>t, <1>l, ElementOfSeq
<1>i. /\ \A r \in DOMAIN lkRooms : r # lkRoom =>
           lkRooms[r].state \in {"left", "dropped"} /\ lkRooms[r].media = {}
      /\ lkRoom # 0 => lkRooms[lkRoom].join \in allowed \ leftJoins
      /\ \A j \in JoinClicks : /\ joins[j] # "none" => j \in allowed
                               /\ j \in leftJoins => joins[j] \notin {"none", "token"}
  BY DEF RoomPageInv, OneRoomAtMost
\* The invariant from its parts.
<1>k. ASSUME pageMode' \in {"host", "guest"},
             pageConsent' \in [checked : BOOLEAN, guest : GuestConsents],
             joins' \in [JoinClicks -> JoinSteps], lkRooms' \in Seq(RoomPageRows),
             lkRoom' \in 0..Len(lkRooms'), leaves' \in 0..MaxLeaves,
             allowed' \subseteq JoinClicks, leftJoins' \subseteq JoinClicks,
             \A r \in DOMAIN lkRooms' : r # lkRoom' =>
               lkRooms'[r].state \in {"left", "dropped"} /\ lkRooms'[r].media = {},
             lkRoom' # 0 => lkRooms'[lkRoom'].join \in allowed' \ leftJoins',
             \A j \in JoinClicks : /\ joins'[j] # "none" => j \in allowed'
                                   /\ j \in leftJoins' => joins'[j] \notin {"none", "token"}
      PROVE  RoomPageInv'
  BY <1>k DEF RoomPageInv, RoomPageTypeOK, OneRoomAtMost, RoomPageRows, RoomRowStates
\* A join that has begun goes on, and the rooms stay as they are.
<1>g. ASSUME NEW j \in JoinClicks, NEW step \in JoinSteps, JoinGo(j, step),
             step \notin {"none", "token"}, joins[j] # "none", lkRooms' = lkRooms,
             UNCHANGED <<pageMode, pageConsent, lkRoom, leaves, allowed, leftJoins>>
      PROVE  RoomPageInv'
  <2>1. /\ joins' \in [JoinClicks -> JoinSteps] /\ joins'[j] = step
        /\ \A i \in JoinClicks : i # j => joins'[i] = joins[i]
    BY <1>g, <1>t DEF JoinGo
  <2>2. \A i \in JoinClicks : /\ joins'[i] # "none" => i \in allowed
                              /\ i \in leftJoins => joins'[i] \notin {"none", "token"}
    BY <1>g, <1>i, <2>1
  <2>. HIDE DEF JoinSteps
  <2>. QED
    BY <1>g, <1>t, <1>i, <1>k, <2>1, <2>2
\* ... or the page's room changes, but for its join.
<1>h. ASSUME NEW j \in JoinClicks, NEW step \in JoinSteps, JoinGo(j, step),
             step \notin {"none", "token"}, joins[j] # "none",
             NEW media \in SUBSET Media, NEW state \in RoomRowStates, lkRoom \in DOMAIN lkRooms,
             lkRooms' = [lkRooms EXCEPT ![lkRoom] =
                           [join |-> lkRooms[lkRoom].join, media |-> media, state |-> state]],
             UNCHANGED <<pageMode, pageConsent, lkRoom, leaves, allowed, leftJoins>>
      PROVE  RoomPageInv'
  <2>1. /\ joins' \in [JoinClicks -> JoinSteps] /\ joins'[j] = step
        /\ \A i \in JoinClicks : i # j => joins'[i] = joins[i]
    BY <1>h, <1>t DEF JoinGo
  <2>2. \A i \in JoinClicks : /\ joins'[i] # "none" => i \in allowed
                              /\ i \in leftJoins => joins'[i] \notin {"none", "token"}
    BY <1>h, <1>i, <2>1
  <2>. DEFINE new == [join |-> lkRooms[lkRoom].join, media |-> media, state |-> state]
  <2>3. new \in RoomPageRows
    BY <1>e, <1>h DEF RoomPageRows
  <2>4. new.join = lkRooms[lkRoom].join
    OBVIOUS
  <2>5. lkRooms' = [lkRooms EXCEPT ![lkRoom] = new]
    BY <1>h
  <2>. HIDE DEF JoinSteps, new
  <2>6. /\ lkRooms' \in Seq(RoomPageRows) /\ Len(lkRooms') = Len(lkRooms)
        /\ DOMAIN lkRooms' = DOMAIN lkRooms /\ lkRooms'[lkRoom] = new
        /\ \A i \in DOMAIN lkRooms : i # lkRoom => lkRooms'[i] = lkRooms[i]
    BY <1>h, <1>t, <1>l, <2>3, <2>5, ExceptSeq
  <2>7. \A i \in DOMAIN lkRooms' : i # lkRoom' =>
             lkRooms'[i].state \in {"left", "dropped"} /\ lkRooms'[i].media = {}
    BY <1>h, <1>i, <2>6
  <2>8. lkRoom' # 0 => lkRooms'[lkRoom'].join \in allowed' \ leftJoins'
    BY <1>h, <1>i, <2>4, <2>6
  <2>. QED
    BY <1>h, <1>t, <1>k, <2>1, <2>2, <2>6, <2>7, <2>8
\* The rooms after a leave.
<1>v. /\ LeftRooms \in Seq(RoomPageRows) /\ Len(LeftRooms) = Len(lkRooms)
      /\ \A r \in DOMAIN lkRooms : LeftRooms[r].state \in {"left", "dropped"}
                                   /\ LeftRooms[r].media = {}
  <2>1. \A r \in DOMAIN lkRooms : /\ LeftRooms[r] \in RoomPageRows
                                  /\ LeftRooms[r].state \in {"left", "dropped"}
                                  /\ LeftRooms[r].media = {}
    <3>1. ASSUME NEW r \in DOMAIN lkRooms
          PROVE  /\ LeftRooms[r] \in RoomPageRows
                 /\ LeftRooms[r].state \in {"left", "dropped"} /\ LeftRooms[r].media = {}
      <4>1. CASE r = lkRoom
        <5>1. LeftRooms[r] = [lkRooms[r] EXCEPT !.state = "left", !.media = {}]
          BY <4>1 DEF LeftRooms
        <5>2. lkRooms[r] \in RoomPageRows
          BY <1>e
        <5>. QED
          BY <5>1, <5>2 DEF RoomPageRows, RoomRowStates
      <4>2. CASE r # lkRoom
        BY <1>e, <1>i, <4>2 DEF LeftRooms
      <4>. QED
        BY <4>1, <4>2
    <3>. QED
      BY <3>1
  <2>2. LeftRooms \in [1..Len(lkRooms) -> RoomPageRows]
    <3>1. LeftRooms = [r \in 1..Len(lkRooms) |-> LeftRooms[r]]
      BY <1>l DEF LeftRooms
    <3>. QED
      BY <1>l, <2>1, <3>1
  <2>3. LeftRooms \in Seq(RoomPageRows)
    <3>1. \E n \in Nat : LeftRooms \in [1..n -> RoomPageRows]
      BY <1>l, <2>2
    <3>. QED
      BY <3>1, SeqDef, SMTT(40)
  <2>4. DOMAIN LeftRooms = 1..Len(lkRooms)
    BY <1>l DEF LeftRooms
  <2>5. Len(LeftRooms) = Len(lkRooms)
    BY <1>l, <2>3, <2>4, LenProperties
  <2>. QED
    BY <2>1, <2>3, <2>5
<1>1. ASSUME NEW checked \in BOOLEAN, NEW guest \in GuestConsents,
             SetPageConsent([checked |-> checked, guest |-> guest]) PROVE RoomPageInv'
  <2>. HIDE DEF JoinSteps
  <2>1. pageConsent' \in [checked : BOOLEAN, guest : GuestConsents]
    BY <1>1 DEF SetPageConsent
  <2>. QED
    BY <1>1, <1>t, <1>i, <1>k, <2>1 DEF SetPageConsent
<1>2. ASSUME NEW j \in JoinClicks, JoinClick(j) PROVE RoomPageInv'
  <2>1. /\ joins[j] = "none" /\ joins' = [joins EXCEPT ![j] = "token"] /\ allowed' = allowed \cup {j}
        /\ UNCHANGED <<pageMode, pageConsent, lkRooms, lkRoom, leaves, leftJoins>>
    BY <1>2 DEF JoinClick, JoinAt, JoinGo
  <2>2. /\ joins' \in [JoinClicks -> JoinSteps]
        /\ \A i \in JoinClicks : /\ joins'[i] # "none" => i \in allowed'
                                 /\ i \in leftJoins' => joins'[i] \notin {"none", "token"}
    BY <1>t, <1>i, <2>1
  <2>. HIDE DEF JoinSteps
  <2>. QED
    BY <1>t, <1>i, <1>k, <2>1, <2>2
<1>3. ASSUME NEW j \in JoinClicks, ConnectRoom(j) PROVE RoomPageInv'
  <2>. DEFINE new == [join |-> j, state |-> "connecting", media |-> {}]
              n == Len(lkRooms) + 1
  <2>1. /\ joins[j] = "token" /\ joins' = [joins EXCEPT ![j] = "connect"]
        /\ lkRooms' = Append(LeftRooms, new) /\ lkRoom' = Len(lkRooms')
        /\ UNCHANGED <<pageMode, pageConsent, leaves, allowed, leftJoins>>
    BY <1>3 DEF ConnectRoom, JoinAt, JoinGo
  <2>2. /\ joins' \in [JoinClicks -> JoinSteps]
        /\ \A i \in JoinClicks : /\ joins'[i] # "none" => i \in allowed'
                                 /\ i \in leftJoins' => joins'[i] \notin {"none", "token"}
    BY <1>t, <1>i, <2>1
  <2>3. new \in RoomPageRows /\ new.join = j
    BY DEF RoomPageRows, RoomRowStates
  <2>. HIDE DEF JoinSteps, new
  <2>4. /\ lkRooms' \in Seq(RoomPageRows) /\ Len(lkRooms') = n /\ lkRooms'[n] = new
        /\ \A i \in 1..Len(lkRooms) : lkRooms'[i] = LeftRooms[i]
    BY <1>v, <2>1, <2>3, AppendProperties
  <2>5. lkRoom' = n /\ n \in 0..Len(lkRooms') /\ DOMAIN lkRooms' = DOMAIN lkRooms \cup {n}
    BY <1>l, <2>1, <2>4, LenProperties
  <2>6. j \in allowed \ leftJoins
    BY <1>i, <2>1
  <2>. HIDE DEF n
  <2>7. \A r \in DOMAIN lkRooms' : r # lkRoom' =>
               lkRooms'[r].state \in {"left", "dropped"} /\ lkRooms'[r].media = {}
    BY <1>l, <1>v, <2>4, <2>5
  <2>8. lkRooms'[lkRoom'].join \in allowed' \ leftJoins'
    BY <2>1, <2>3, <2>4, <2>5, <2>6
  <2>. QED
    BY <1>t, <1>k, <2>1, <2>2, <2>4, <2>5, <2>7, <2>8
\* The room of a join that is connecting or connected, if any, is the page's.
<1>r. ASSUME NEW j \in JoinClicks, lkRooms[RoomOf(j)].state \in {"connecting", "connected"}
      PROVE  RoomOf(j) \in DOMAIN lkRooms => RoomOf(j) = lkRoom
  BY <1>i, <1>r
<1>4. ASSUME NEW j \in JoinClicks, RoomConnected(j) PROVE RoomPageInv'
  <2>. DEFINE r == RoomOf(j)
  <2>1. /\ joins[j] = "connect" /\ lkRooms[r].state = "connecting"
        /\ lkRooms' = [lkRooms EXCEPT ![r].state = "connected"]
        /\ UNCHANGED <<pageMode, pageConsent, lkRoom, leaves, allowed, leftJoins>>
        /\ JoinGo(j, "camera") \/ JoinGo(j, "done")
    BY <1>4 DEF RoomConnected, JoinAt
  <2>2. r \in DOMAIN lkRooms => r = lkRoom
    BY <1>r, <2>1
  <2>. HIDE DEF r
  <2>3. CASE r \notin DOMAIN lkRooms
    <3>1. lkRooms' = lkRooms
      BY <1>n, <2>1, <2>3
    <3>. QED
      BY <1>g, <2>1, <3>1
  <2>4. CASE r \in DOMAIN lkRooms
    <3>1. lkRooms' = [lkRooms EXCEPT ![r] = [join |-> lkRooms[r].join, media |-> lkRooms[r].media,
                                             state |-> "connected"]]
      <4>1. lkRooms' = [lkRooms EXCEPT ![r] = [lkRooms[r] EXCEPT !.state = "connected"]]
        BY <2>1
      <4>. QED
        BY <1>e, <2>4, <4>1, RoomRowChanges
    <3>2. lkRooms[r].media \in SUBSET Media /\ "connected" \in RoomRowStates
      BY <1>e, <2>4 DEF RoomPageRows, RoomRowStates
    <3>. DEFINE media == lkRooms[r].media
    <3>3. lkRooms' = [lkRooms EXCEPT ![lkRoom] = [join |-> lkRooms[lkRoom].join, media |-> media,
                                                  state |-> "connected"]]
      BY <2>2, <2>4, <3>1
    <3>4. lkRoom \in DOMAIN lkRooms /\ media \in SUBSET Media
      BY <2>2, <2>4, <3>2
    <3>. HIDE DEF media
    <3>. QED
      BY <1>h, <2>1, <3>2, <3>3, <3>4
  <2>. QED
    BY <2>3, <2>4
<1>5. ASSUME NEW j \in JoinClicks, CameraOn(j) PROVE RoomPageInv'
  <2>. DEFINE r == RoomOf(j)
              media == lkRooms[r].media \cup {"camera"}
  <2>1. /\ joins[j] = "camera" /\ lkRooms[r].state = "connected"
        /\ lkRooms' = [lkRooms EXCEPT ![r].media = @ \cup {"camera"}]
        /\ UNCHANGED <<pageMode, pageConsent, lkRoom, leaves, allowed, leftJoins>>
        /\ JoinGo(j, "microphone")
    BY <1>5 DEF CameraOn, JoinAt
  <2>2. r \in DOMAIN lkRooms => r = lkRoom
    BY <1>r, <2>1
  <2>. HIDE DEF r
  <2>3. CASE r \notin DOMAIN lkRooms
    <3>1. lkRooms' = lkRooms
      BY <1>n, <2>1, <2>3
    <3>. QED
      BY <1>g, <2>1, <3>1
  <2>4. CASE r \in DOMAIN lkRooms
    <3>1. media \in SUBSET Media /\ "connected" \in RoomRowStates
      BY <1>e, <2>4 DEF Media, RoomPageRows, RoomRowStates
    <3>2. lkRooms' = [lkRooms EXCEPT ![r] = [lkRooms[r] EXCEPT !.media = media]]
      BY <2>1
    <3>. HIDE DEF media
    <3>3. [lkRooms[r] EXCEPT !.media = media] =
            [join |-> lkRooms[r].join, media |-> media, state |-> "connected"]
      BY <1>e, <2>1, <2>4, RoomRowChanges
    <3>4. lkRooms' = [lkRooms EXCEPT ![lkRoom] = [join |-> lkRooms[lkRoom].join, media |-> media,
                                                  state |-> "connected"]]
      BY <2>2, <2>4, <3>2, <3>3
    <3>5. lkRoom \in DOMAIN lkRooms
      BY <2>2, <2>4
    <3>. QED
      BY <1>h, <2>1, <3>1, <3>4, <3>5
  <2>. QED
    BY <2>3, <2>4
<1>6. ASSUME NEW j \in JoinClicks, MicrophoneEnabled(j) PROVE RoomPageInv'
  <2>. DEFINE media == lkRooms[lkRoom].media \cup {"microphone"}
  <2>1. /\ joins[j] = "microphone" /\ lkRooms[lkRoom].state = "connected" /\ lkRoom # 0
        /\ lkRooms' = [lkRooms EXCEPT ![lkRoom].media = @ \cup {"microphone"}]
        /\ UNCHANGED <<pageMode, pageConsent, lkRoom, leaves, allowed, leftJoins>>
        /\ JoinGo(j, "done")
    BY <1>6 DEF MicrophoneEnabled, JoinAt
  <2>2. lkRoom \in DOMAIN lkRooms
    BY <1>t, <1>l, <2>1
  <2>4. media \in SUBSET Media /\ "connected" \in RoomRowStates
    BY <1>e, <2>2 DEF Media, RoomPageRows, RoomRowStates
  <2>5. lkRooms' = [lkRooms EXCEPT ![lkRoom] = [lkRooms[lkRoom] EXCEPT !.media = media]]
    BY <2>1
  <2>. HIDE DEF media
  <2>6. [lkRooms[lkRoom] EXCEPT !.media = media] =
          [join |-> lkRooms[lkRoom].join, media |-> media, state |-> "connected"]
    BY <1>e, <2>1, <2>2, RoomRowChanges
  <2>3. lkRooms' = [lkRooms EXCEPT ![lkRoom] = [join |-> lkRooms[lkRoom].join, media |-> media,
                                                state |-> "connected"]]
    BY <2>5, <2>6
  <2>. QED
    BY <1>h, <2>1, <2>2, <2>3, <2>4
<1>7. ASSUME NEW j \in JoinClicks, JoinFails(j) PROVE RoomPageInv'
  <2>. DEFINE r == RoomOf(j)
  <2>1. /\ joins[j] # "none" /\ JoinGo(j, "done")
        /\ UNCHANGED <<pageMode, pageConsent, lkRoom, leaves, allowed, leftJoins>>
        /\ lkRooms' = IF JoinAt(j, "connect") /\ lkRooms[r].state = "connecting"
                      THEN [lkRooms EXCEPT ![r].state = "dropped"] ELSE lkRooms
    BY <1>7 DEF JoinFails
  <2>2. lkRooms[r].state = "connecting" /\ r \in DOMAIN lkRooms => r = lkRoom
    BY <1>r
  <2>. HIDE DEF r
  <2>3. CASE r \in DOMAIN lkRooms /\ lkRooms[r].state = "connecting" /\ JoinAt(j, "connect")
    <3>1. lkRooms' = [lkRooms EXCEPT ![r] = [join |-> lkRooms[r].join, media |-> lkRooms[r].media,
                                             state |-> "dropped"]]
      <4>1. lkRooms' = [lkRooms EXCEPT ![r] = [lkRooms[r] EXCEPT !.state = "dropped"]]
        BY <2>1, <2>3
      <4>. QED
        BY <1>e, <2>3, <4>1, RoomRowChanges
    <3>. DEFINE media == lkRooms[r].media
    <3>2. media \in SUBSET Media /\ "dropped" \in RoomRowStates
      BY <1>e, <2>3 DEF RoomPageRows, RoomRowStates
    <3>3. lkRooms' = [lkRooms EXCEPT ![lkRoom] = [join |-> lkRooms[lkRoom].join, media |-> media,
                                                  state |-> "dropped"]]
      BY <2>2, <2>3, <3>1
    <3>4. lkRoom \in DOMAIN lkRooms
      BY <2>2, <2>3
    <3>. HIDE DEF media
    <3>. QED
      BY <1>h, <2>1, <3>2, <3>3, <3>4
  <2>4. CASE ~(r \in DOMAIN lkRooms /\ lkRooms[r].state = "connecting" /\ JoinAt(j, "connect"))
    <3>1. lkRooms' = lkRooms
      <4>1. r \notin DOMAIN lkRooms => [lkRooms EXCEPT ![r].state = "dropped"] = lkRooms
        BY <1>n
      <4>. QED
        BY <2>1, <2>4, <4>1
    <3>. QED
      BY <1>g, <2>1, <3>1
  <2>. QED
    BY <2>3, <2>4
<1>8. ASSUME NEW r \in DOMAIN lkRooms, RoomDisconnected(r) PROVE RoomPageInv'
  <2>. DEFINE new == [join |-> lkRooms[r].join, media |-> {}, state |-> "dropped"]
  <2>1. /\ lkRooms' = [lkRooms EXCEPT ![r].state = "dropped", ![r].media = {}]
        /\ UNCHANGED <<pageMode, pageConsent, joins, lkRoom, leaves, allowed, leftJoins>>
    BY <1>8 DEF RoomDisconnected
  <2>2. lkRooms' = [lkRooms EXCEPT ![r] = new]
    <3>1. lkRooms' = [lkRooms EXCEPT ![r] = [lkRooms[r] EXCEPT !.state = "dropped", !.media = {}]]
      BY <1>l, <2>1
    <3>. DEFINE x == lkRooms[r]  y == [x EXCEPT !.state = "dropped"]
    <3>2. [x EXCEPT !.state = "dropped", !.media = {}] = [y EXCEPT !.media = {}]
      OBVIOUS
    <3>4. y = [join |-> x.join, media |-> x.media, state |-> "dropped"]
      BY <1>e, RoomRowChanges
    <3>. HIDE DEF y
    <3>5. [y EXCEPT !.media = {}] = new
      BY <3>4
    <3>3. [lkRooms[r] EXCEPT !.state = "dropped", !.media = {}] = new
      BY <3>2, <3>5
    <3>. QED
      BY <3>1, <3>3
  <2>3. new \in RoomPageRows /\ new.join = lkRooms[r].join /\ new.state = "dropped" /\ new.media = {}
    BY <1>e DEF RoomPageRows, RoomRowStates
  <2>. HIDE DEF JoinSteps, new
  <2>4. /\ lkRooms' \in Seq(RoomPageRows) /\ Len(lkRooms') = Len(lkRooms)
        /\ DOMAIN lkRooms' = DOMAIN lkRooms /\ lkRooms'[r] = new
        /\ \A i \in DOMAIN lkRooms : i # r => lkRooms'[i] = lkRooms[i]
    BY <1>t, <1>l, <2>2, <2>3, ExceptSeq
  <2>5. lkRoom # 0 => lkRooms'[lkRoom].join = lkRooms[lkRoom].join
    BY <1>t, <1>l, <2>3, <2>4
  <2>6. \A i \in DOMAIN lkRooms' : i # lkRoom' =>
               lkRooms'[i].state \in {"left", "dropped"} /\ lkRooms'[i].media = {}
    BY <1>i, <2>1, <2>3, <2>4
  <2>. QED
    BY <1>t, <1>i, <1>k, <2>1, <2>4, <2>5, <2>6
<1>9. CASE LeaveClick
  <2>1. /\ leaves < MaxLeaves /\ leaves' = leaves + 1 /\ lkRooms' = LeftRooms /\ lkRoom' = 0
        /\ leftJoins' = leftJoins \cup {j \in JoinClicks : joins[j] \notin {"none", "token"}}
        /\ UNCHANGED <<pageMode, pageConsent, joins, allowed>>
    BY <1>9 DEF LeaveClick
  <2>2. \A j \in JoinClicks : j \in leftJoins' => joins[j] \notin {"none", "token"}
    BY <1>i, <2>1
  <2>. HIDE DEF JoinSteps
  <2>3. leaves' \in 0..MaxLeaves /\ lkRoom' \in 0..Len(lkRooms') /\ DOMAIN lkRooms' = DOMAIN lkRooms
    BY <1>t, <1>l, <1>v, <2>1, LenProperties
  <2>. QED
    BY <1>t, <1>i, <1>v, <1>k, <2>1, <2>2, <2>3
<1>10. CASE UNCHANGED roomPageVars
  <2>. HIDE DEF JoinSteps
  <2>. QED
    BY <1>10, <1>t, <1>i, <1>k DEF roomPageVars
<1>. QED
  BY <1>1, <1>2, <1>3, <1>4, <1>5, <1>6, <1>7, <1>8, <1>9, <1>10 DEF RoomPageNext

-----------------------------------------------------------------------------
(* Console: what a call that returns leaves of the calls, in their order.       *)

Returned(s, i, n) == RemoveAt(s, i) \o n

LEMMA ReturnElements ==
    ASSUME NEW S, NEW s \in Seq(S), NEW i \in 1..Len(s), NEW n \in Seq(S)
    PROVE  /\ Returned(s, i, n) \in Seq(S) /\ Len(Returned(s, i, n)) = (Len(s) - 1) + Len(n)
           /\ DOMAIN Returned(s, i, n) = 1..(Len(s) - 1) + Len(n)
           /\ \A k \in 1..Len(s) - 1 : Returned(s, i, n)[k] = s[IF k < i THEN k ELSE k + 1]
           /\ \A m \in 1..Len(n) : Returned(s, i, n)[(Len(s) - 1) + m] = n[m]
<1>. DEFINE r == Returned(s, i, n)
<1>0. Len(s) \in Nat /\ Len(n) \in Nat /\ i \in Int /\ \A k \in 1..Len(s) : s[k] \in S
  BY LenProperties, ElementOfSeq
<1>. DEFINE a == SubSeq(s, 1, i - 1)  b == SubSeq(s, i + 1, Len(s))
<1>1. /\ a \in Seq(S) /\ Len(a) = i - 1
      /\ \A k \in 1..i - 1 : a[k] = s[k]
  <2>1. \A k \in 1..i - 1 : s[k] \in S
    BY <1>0
  <2>2. /\ a \in Seq(S) /\ Len(a) = IF 1 <= i - 1 THEN (i - 1) - 1 + 1 ELSE 0
        /\ \A k \in 1..(i - 1) - 1 + 1 : a[k] = s[1 + k - 1]
    BY <1>0, <2>1, SubSeqProperties
  <2>. HIDE DEF a
  <2>3. \A k \in 1..i - 1 : k \in 1..(i - 1) - 1 + 1 /\ 1 + k - 1 = k
    BY <1>0
  <2>. QED
    BY <1>0, <2>2, <2>3
<1>2. /\ b \in Seq(S) /\ Len(b) = Len(s) - i
      /\ \A k \in 1..Len(s) - i : b[k] = s[i + k]
  <2>1. \A k \in i + 1..Len(s) : s[k] \in S
    BY <1>0
  <2>2. /\ b \in Seq(S) /\ Len(b) = IF i + 1 <= Len(s) THEN Len(s) - (i + 1) + 1 ELSE 0
        /\ \A k \in 1..Len(s) - (i + 1) + 1 : b[k] = s[(i + 1) + k - 1]
    BY <1>0, <2>1, SubSeqProperties
  <2>. HIDE DEF b
  <2>3. \A k \in 1..Len(s) - i : k \in 1..Len(s) - (i + 1) + 1 /\ (i + 1) + k - 1 = i + k
    BY <1>0
  <2>. QED
    BY <1>0, <2>2, <2>3
<1>3. r = (a \o b) \o n
  BY DEF RemoveAt, Returned
<1>. HIDE DEF a, b, r
<1>. DEFINE c == a \o b
<1>4. /\ c \in Seq(S) /\ Len(c) = Len(s) - 1
      /\ \A k \in 1..Len(s) - 1 : c[k] = s[IF k < i THEN k ELSE k + 1]
  <2>1. /\ c \in Seq(S) /\ Len(c) = Len(a) + Len(b)
        /\ \A k \in 1..Len(a) + Len(b) : c[k] = IF k <= Len(a) THEN a[k] ELSE b[k - Len(a)]
    BY <1>1, <1>2, ConcatProperties
  <2>. HIDE DEF c
  <2>2. Len(c) = Len(s) - 1
    BY <1>0, <1>1, <1>2, <2>1
  <2>3. ASSUME NEW k \in 1..Len(s) - 1 PROVE c[k] = s[IF k < i THEN k ELSE k + 1]
    <3>1. CASE k < i
      <4>1. k \in 1..Len(a) + Len(b) /\ k <= Len(a) /\ k \in 1..i - 1
        BY <1>0, <1>1, <1>2, <3>1
      <4>2. c[k] = a[k]
        BY <2>1, <4>1
      <4>. QED
        BY <1>1, <3>1, <4>1, <4>2
    <3>2. CASE ~(k < i)
      <4>1. k - (i - 1) \in 1..Len(s) - i /\ i + (k - (i - 1)) = k + 1
        BY <1>0, <3>2
      <4>2. c[k] = b[k - (i - 1)]
        <5>1. k \in 1..Len(a) + Len(b) /\ ~(k <= Len(a)) /\ Len(a) = i - 1
          BY <1>0, <1>1, <1>2, <3>2
        <5>. QED
          BY <2>1, <5>1
      <4>. QED
        BY <1>2, <3>2, <4>1, <4>2
    <3>. QED
      BY <3>1, <3>2
  <2>. QED
    BY <2>1, <2>2, <2>3
<1>5. r = c \o n
  BY <1>3
<1>. HIDE DEF c
<1>6. /\ r \in Seq(S) /\ Len(r) = Len(c) + Len(n)
      /\ \A k \in 1..Len(c) + Len(n) : r[k] = IF k <= Len(c) THEN c[k] ELSE n[k - Len(c)]
  <2>1. /\ c \o n \in Seq(S) /\ Len(c \o n) = Len(c) + Len(n)
        /\ \A k \in 1..Len(c) + Len(n) :
             (c \o n)[k] = IF k <= Len(c) THEN c[k] ELSE n[k - Len(c)]
    BY <1>4, ConcatProperties
  <2>. QED
    BY <1>5, <2>1
<1>7. DOMAIN r = 1..Len(r)
  BY <1>6, LenProperties
<1>8. \A k \in 1..Len(s) - 1 : r[k] = s[IF k < i THEN k ELSE k + 1]
  <2>1. ASSUME NEW k \in 1..Len(s) - 1 PROVE r[k] = s[IF k < i THEN k ELSE k + 1]
    <3>1. k \in 1..Len(c) + Len(n) /\ k <= Len(c)
      BY <1>0, <1>4
    <3>2. r[k] = c[k]
      BY <1>6, <3>1
    <3>. QED
      BY <1>4, <3>2
  <2>. QED
    BY <2>1
<1>9. \A m \in 1..Len(n) : r[(Len(s) - 1) + m] = n[m]
  <2>1. ASSUME NEW m \in 1..Len(n) PROVE r[(Len(s) - 1) + m] = n[m]
    <3>. DEFINE k == (Len(s) - 1) + m
    <3>1. k \in 1..Len(c) + Len(n) /\ ~(k <= Len(c)) /\ k - Len(c) = m
      BY <1>0, <1>4
    <3>. HIDE DEF k
    <3>2. r[k] = n[m]
      BY <1>6, <3>1
    <3>. QED
      BY <3>2 DEF k
  <2>. QED
    BY <2>1
<1>. QED
  BY <1>4, <1>6, <1>7, <1>8, <1>9 DEF r

\* The same, as the elements that stay and those that come.
LEMMA ReturnKeeps ==
    ASSUME NEW S, NEW s \in Seq(S), NEW i \in 1..Len(s), NEW n \in Seq(S)
    PROVE  /\ Returned(s, i, n) \in Seq(S)
           /\ \A j \in DOMAIN s : j # i => \E k \in DOMAIN Returned(s, i, n) : Returned(s, i, n)[k] = s[j]
           /\ \A m \in DOMAIN n : \E k \in DOMAIN Returned(s, i, n) : Returned(s, i, n)[k] = n[m]
           /\ \A k \in DOMAIN Returned(s, i, n) : \/ \E j \in DOMAIN s : j # i /\ Returned(s, i, n)[k] = s[j]
                                  \/ \E m \in DOMAIN n : Returned(s, i, n)[k] = n[m]
<1>. DEFINE r == Returned(s, i, n)
<1>0. /\ Len(s) \in Nat /\ Len(n) \in Nat
      /\ DOMAIN s = 1..Len(s) /\ DOMAIN n = 1..Len(n)
  BY LenProperties
<1>1. /\ r \in Seq(S) /\ Len(r) = (Len(s) - 1) + Len(n)
      /\ DOMAIN r = 1..(Len(s) - 1) + Len(n)
      /\ \A k \in 1..Len(s) - 1 : r[k] = s[IF k < i THEN k ELSE k + 1]
      /\ \A m \in 1..Len(n) : r[(Len(s) - 1) + m] = n[m]
  <2>1. r \in Seq(S) /\ Len(r) = (Len(s) - 1) + Len(n)
    BY ReturnElements, ZenonT(90)
  <2>2. DOMAIN r = 1..(Len(s) - 1) + Len(n)
    BY ReturnElements
  <2>3. \A k \in 1..Len(s) - 1 : r[k] = s[IF k < i THEN k ELSE k + 1]
    BY ReturnElements
  <2>4. \A m \in 1..Len(n) : r[(Len(s) - 1) + m] = n[m]
    BY ReturnElements
  <2>. QED
    BY <2>1, <2>2, <2>3, <2>4
<1>. HIDE DEF r
<1>2. ASSUME NEW j \in DOMAIN s, j # i PROVE \E k \in DOMAIN r : r[k] = s[j]
  <2>1. CASE j < i
    <3>1. j \in 1..Len(s) - 1 /\ j \in DOMAIN r
      BY <1>0, <1>1, <2>1
    <3>. QED
      BY <1>1, <2>1, <3>1
  <2>2. CASE j > i
    <3>1. j - 1 \in 1..Len(s) - 1 /\ j - 1 \in DOMAIN r /\ ~(j - 1 < i) /\ (j - 1) + 1 = j
      BY <1>0, <1>1, <2>2
    <3>2. r[j - 1] = s[j]
      BY <1>1, <3>1
    <3>. QED
      BY <3>1, <3>2
  <2>. QED
    BY <1>0, <1>2, <2>1, <2>2
<1>3. ASSUME NEW m \in DOMAIN n PROVE \E k \in DOMAIN r : r[k] = n[m]
  <2>1. (Len(s) - 1) + m \in DOMAIN r
    BY <1>0, <1>1
  <2>. QED
    BY <1>0, <1>1, <2>1
<1>4. ASSUME NEW k \in DOMAIN r
      PROVE  \/ \E j \in DOMAIN s : j # i /\ r[k] = s[j]
             \/ \E m \in DOMAIN n : r[k] = n[m]
  <2>1. CASE k <= Len(s) - 1
    <3>. DEFINE j == IF k < i THEN k ELSE k + 1
    <3>1. k \in 1..Len(s) - 1 /\ j \in DOMAIN s /\ j # i
      BY <1>0, <1>1, <2>1
    <3>2. r[k] = s[j]
      BY <1>1, <3>1
    <3>. HIDE DEF j
    <3>. QED
      BY <3>1, <3>2
  <2>2. CASE ~(k <= Len(s) - 1)
    <3>. DEFINE m == k - (Len(s) - 1)
    <3>1. m \in DOMAIN n /\ k = (Len(s) - 1) + m
      BY <1>0, <1>1, <2>2
    <3>. HIDE DEF m
    <3>. QED
      BY <1>0, <1>1, <3>1
  <2>. QED
    BY <2>1, <2>2
<1>. QED
  BY <1>1, <1>2, <1>3, <1>4 DEF r

\* What a click appends.
Prolongs(r, s, n) ==
    /\ DOMAIN s \subseteq DOMAIN r /\ \A j \in DOMAIN s : r[j] = s[j]
    /\ \A m \in DOMAIN n : \E k \in DOMAIN r : r[k] = n[m]
    /\ \A k \in DOMAIN r : k \in DOMAIN s \/ \E m \in DOMAIN n : r[k] = n[m]

LEMMA SentProlongs ==
    ASSUME NEW S, NEW s \in Seq(S), NEW n \in Seq(S)
    PROVE  (s \o n) \in Seq(S) /\ Prolongs(s \o n, s, n)
<1>. DEFINE r == s \o n
<1>0. /\ Len(s) \in Nat /\ Len(n) \in Nat
      /\ DOMAIN s = 1..Len(s) /\ DOMAIN n = 1..Len(n)
  BY LenProperties
<1>1. /\ r \in Seq(S) /\ Len(r) = Len(s) + Len(n)
      /\ \A k \in 1..Len(s) + Len(n) : r[k] = IF k <= Len(s) THEN s[k] ELSE n[k - Len(s)]
  BY ConcatProperties
<1>. HIDE DEF r
<1>2. DOMAIN r = 1..Len(s) + Len(n)
  BY <1>1, LenProperties
<1>3. ASSUME NEW m \in DOMAIN n PROVE \E k \in DOMAIN r : r[k] = n[m]
  <2>. DEFINE k == Len(s) + m
  <2>1. k \in DOMAIN r /\ ~(k <= Len(s)) /\ k - Len(s) = m
    BY <1>0, <1>2
  <2>. HIDE DEF k
  <2>. QED
    BY <1>1, <1>2, <2>1
<1>4. ASSUME NEW k \in DOMAIN r PROVE k \in DOMAIN s \/ \E m \in DOMAIN n : r[k] = n[m]
  <2>1. CASE ~(k <= Len(s))
    <3>1. k - Len(s) \in DOMAIN n /\ r[k] = n[k - Len(s)]
      BY <1>0, <1>1, <1>2, <2>1
    <3>. QED
      BY <3>1
  <2>. QED
    BY <1>0, <1>2, <2>1
<1>5. DOMAIN s \subseteq DOMAIN r /\ \A j \in DOMAIN s : r[j] = s[j]
  BY <1>0, <1>1, <1>2
<1>6. Prolongs(r, s, n)
  BY <1>3, <1>4, <1>5 DEF Prolongs
<1>. QED
  BY <1>1, <1>6 DEF r

-----------------------------------------------------------------------------
(* Console: what a call that is awaited was sent for.                         *)

ConsoleRows == FactRows \cup ProposalRows
CallKinds == {"review", "dashboard", "actions", "reload", "user", "create", "decide"}
DecisionKinds == {"confirmed", "approved", "rejected"}
ConsoleCallRows ==
    [kind : CallKinds,
     what : {EmptyRow} \cup ConsoleAccounts \cup (ConsoleRows \X DecisionKinds),
     token : ConsoleAccounts \cup {"none"}, phase : {"sent", "ok", "refused"},
     answer : Seq(RowStates) \cup ConsoleRows \cup {EmptyRow}, overtaken : BOOLEAN]
Shown == [of : ConsoleAccounts \cup {"none"}, facts : Seq(RowStates)]

ConsoleShape ==
    /\ consoleToken \in ConsoleAccounts \cup {"none"}
    /\ shownIn \in [Panels -> Shown]
    /\ proposalField \in ProposalRows \cup {EmptyRow}
    /\ rowStatus \in [ConsoleRows -> RowStates]
    /\ consoleCalls \in Seq(ConsoleCallRows)

\* A decision is sent for a row there is, and for one of the token's user it was
\* clicked; the others are answered for who has a token.
AwaitedOK(c, status, made) ==
    /\ c.kind = "user" => c.what \in ConsoleAccounts /\ c.phase = "sent"
    /\ c.kind = "decide" =>
         /\ c.what \in ConsoleRows \X DecisionKinds /\ status[c.what[1]] # "none"
         /\ RowOwner(c.what[1]) = c.token => <<c.token, c.what[1], c.what[2]>> \in made
         /\ c.phase = "ok" => RowOwner(c.what[1]) = c.token
    /\ c.kind = "create" /\ c.phase = "ok" =>
         c.token # "none" /\ c.answer \in ProposalRows /\ status[c.answer] # "none"
    /\ c.kind \notin {"user", "decide", "create"} =>
         c.answer \in Seq(RowStates) /\ (c.phase = "ok" => c.token # "none")

OwnDecision(row, s, made) == <<RowOwner(row), row, s>> \in made

\* A decision of a row's owner is under way while the row does not show one.
DecidedNow(c, row) ==
    c.kind = "decide" /\ c.phase = "sent" /\ c.what[1] = row /\ c.token = RowOwner(row)

RowOK(row, status, made, calls) ==
    /\ status[row] \in {"none", "proposed"} \/ OwnDecision(row, status[row], made)
    /\ status[row] = "none" => row \notin FactRows /\ \A s \in RowStates : ~OwnDecision(row, s, made)
    /\ status[row] = "proposed" /\ (\E s \in RowStates : OwnDecision(row, s, made)) =>
         \E i \in DOMAIN calls : DecidedNow(calls[i], row)

DecisionsInv ==
    /\ ConsoleShape
    /\ \A i \in DOMAIN consoleCalls : AwaitedOK(consoleCalls[i], rowStatus, decisions)
    /\ \A row \in ConsoleRows : RowOK(row, rowStatus, decisions, consoleCalls)
    /\ proposalField # EmptyRow => rowStatus[proposalField] # "none"
    /\ shownIn["review"].of = "none" => shownIn["review"].facts = <<>>

\* A new call is of the token there is, and nothing else is.
LEMMA NewCallOK ==
    ASSUME NEW t \in ConsoleAccounts \cup {"none"}, NEW kind \in CallKinds,
           NEW what \in {EmptyRow} \cup ConsoleAccounts \cup (ConsoleRows \X DecisionKinds)
    PROVE  /\ CallWith(t, kind, what) \in ConsoleCallRows
           /\ CallWith(t, kind, what).kind = kind /\ CallWith(t, kind, what).what = what
           /\ CallWith(t, kind, what).token = t /\ CallWith(t, kind, what).phase = "sent"
           /\ CallWith(t, kind, what).answer = <<>> /\ ~CallWith(t, kind, what).overtaken
           /\ <<>> \in Seq(RowStates)
<1>1. <<>> \in Seq(RowStates)
  BY EmptySeq
<1>. QED
  BY <1>1 DEF CallWith, ConsoleCallRows

\* The first two steps of every proof about the calls.
LEMMA CallsThere ==
    ASSUME ConsoleShape
    PROVE  /\ DOMAIN consoleCalls = 1..Len(consoleCalls) /\ Len(consoleCalls) \in Nat
           /\ \A i \in DOMAIN consoleCalls : consoleCalls[i] \in ConsoleCallRows
<1>1. DOMAIN consoleCalls = 1..Len(consoleCalls) /\ Len(consoleCalls) \in Nat
  BY LenProperties DEF ConsoleShape
<1>2. \A i \in DOMAIN consoleCalls : consoleCalls[i] \in ConsoleCallRows
  BY <1>1, ElementOfSeq DEF ConsoleShape
<1>. QED
  BY <1>1, <1>2

LEMMA RowsApart ==
    /\ \A row \in FactRows : /\ RowOwner(row) \in ConsoleAccounts /\ row # EmptyRow
                             /\ row \notin ProposalRows
    /\ \A row \in ProposalRows : RowOwner(row) \in ConsoleAccounts /\ row # EmptyRow
    /\ \A a \in ConsoleAccounts, k \in 1..FactCount :
         FactRow(a, k) \in FactRows /\ RowOwner(FactRow(a, k)) = a
  BY DEF FactRows, ProposalRows, RowOwner, EmptyRow, FactRow

LEMMA FactsAreStates ==
    ASSUME ConsoleShape, NEW a \in ConsoleAccounts
    PROVE  FactsOf(a) \in Seq(RowStates)
<1>1. FactCount \in Nat
  BY ConsoleAssumption
<1>2. \A k \in 1..FactCount : rowStatus[FactRow(a, k)] \in RowStates
  BY RowsApart DEF ConsoleShape, ConsoleRows
<1>3. FactsOf(a) \in [1..FactCount -> RowStates]
  BY <1>2 DEF FactsOf
<1>. QED
  BY <1>1, <1>3, SeqDef

\* Calls are sent by a click, or a click does nothing but to change the token.
LEMMA ClickKeepsDecisions ==
    ASSUME DecisionsInv, NEW n \in Seq(ConsoleCallRows), consoleCalls' = consoleCalls \o n,
           UNCHANGED <<shownIn, proposalField, rowStatus>>,
           consoleToken' \in ConsoleAccounts \cup {"none"},
           decisions \subseteq decisions',
           \A m \in DOMAIN n : AwaitedOK(n[m], rowStatus, decisions'),
           \A row \in ConsoleRows, s \in RowStates :
             OwnDecision(row, s, decisions') /\ ~OwnDecision(row, s, decisions) =>
               rowStatus[row] # "none" /\ \E m \in DOMAIN n : DecidedNow(n[m], row)
    PROVE  DecisionsInv'
<1>1. /\ consoleCalls \in Seq(ConsoleCallRows)
      /\ \A i \in DOMAIN consoleCalls : AwaitedOK(consoleCalls[i], rowStatus, decisions)
      /\ \A row \in ConsoleRows : RowOK(row, rowStatus, decisions, consoleCalls)
  BY DEF DecisionsInv, ConsoleShape
<1>2. /\ consoleCalls' \in Seq(ConsoleCallRows)
      /\ DOMAIN consoleCalls \subseteq DOMAIN consoleCalls'
      /\ \A j \in DOMAIN consoleCalls : consoleCalls'[j] = consoleCalls[j]
      /\ \A m \in DOMAIN n : \E k \in DOMAIN consoleCalls' : consoleCalls'[k] = n[m]
      /\ \A k \in DOMAIN consoleCalls' :
           k \in DOMAIN consoleCalls \/ \E m \in DOMAIN n : consoleCalls'[k] = n[m]
  <2>1. (consoleCalls \o n) \in Seq(ConsoleCallRows)
    BY <1>1, SentProlongs
  <2>2. Prolongs(consoleCalls \o n, consoleCalls, n)
    BY <1>1, SentProlongs
  <2>3. Prolongs(consoleCalls', consoleCalls, n)
    BY <2>2, Zenon
  <2>. QED
    BY <2>1, <2>3, Zenon DEF Prolongs
<1>3. ConsoleShape'
  BY <1>2 DEF DecisionsInv, ConsoleShape
<1>4. ASSUME NEW k \in DOMAIN consoleCalls'
      PROVE  AwaitedOK(consoleCalls'[k], rowStatus, decisions')
  <2>1. CASE k \in DOMAIN consoleCalls
    <3>1. AwaitedOK(consoleCalls[k], rowStatus, decisions) /\ consoleCalls'[k] = consoleCalls[k]
      BY <1>1, <1>2, <2>1
    <3>. QED
      BY <3>1 DEF AwaitedOK
  <2>2. CASE \E m \in DOMAIN n : consoleCalls'[k] = n[m]
    BY <2>2
  <2>. QED
    BY <1>2, <2>1, <2>2
<1>5. ASSUME NEW row \in ConsoleRows PROVE RowOK(row, rowStatus, decisions', consoleCalls')
  <2>1. RowOK(row, rowStatus, decisions, consoleCalls)
    BY <1>1
  <2>2. rowStatus[row] \in {"none", "proposed"} \/ OwnDecision(row, rowStatus[row], decisions')
    BY <2>1 DEF RowOK, OwnDecision
  <2>3. rowStatus[row] = "none" =>
          row \notin FactRows /\ \A s \in RowStates : ~OwnDecision(row, s, decisions')
    BY <2>1 DEF RowOK
  <2>4. ASSUME rowStatus[row] = "proposed", NEW s \in RowStates, OwnDecision(row, s, decisions')
        PROVE  \E i \in DOMAIN consoleCalls' : DecidedNow(consoleCalls'[i], row)
    <3>1. CASE OwnDecision(row, s, decisions)
      <4>1. PICK i \in DOMAIN consoleCalls : DecidedNow(consoleCalls[i], row)
        BY <2>1, <2>4, <3>1 DEF RowOK
      <4>. QED
        BY <1>2, <4>1
    <3>2. CASE ~OwnDecision(row, s, decisions)
      <4>1. PICK m \in DOMAIN n : DecidedNow(n[m], row)
        BY <2>4, <3>2
      <4>. QED
        BY <1>2, <4>1
    <3>. QED
      BY <3>1, <3>2
  <2>. QED
    BY <2>2, <2>3, <2>4 DEF RowOK
<1>. QED
  BY <1>3, <1>4, <1>5 DEF DecisionsInv

\* A call returns; if it was a decision it was served.
LEMMA ReturnKeepsDecisions ==
    ASSUME DecisionsInv, NEW s \in Seq(ConsoleCallRows), NEW i \in DOMAIN s,
           DOMAIN s = DOMAIN consoleCalls,
           \A j \in DOMAIN s :
             /\ s[j].kind = consoleCalls[j].kind /\ s[j].what = consoleCalls[j].what
             /\ s[j].token = consoleCalls[j].token /\ s[j].phase = consoleCalls[j].phase
             /\ s[j].answer = consoleCalls[j].answer,
           ~(s[i].kind = "decide" /\ s[i].phase = "sent"),
           NEW n \in Seq(ConsoleCallRows), consoleCalls' = Returned(s, i, n),
           UNCHANGED <<rowStatus, decisions>>,
           consoleToken' \in ConsoleAccounts \cup {"none"},
           shownIn' \in [Panels -> Shown],
           shownIn'["review"].of = "none" => shownIn'["review"].facts = <<>>,
           proposalField' \in ProposalRows \cup {EmptyRow},
           proposalField' # EmptyRow => rowStatus[proposalField'] # "none",
           \A m \in DOMAIN n : AwaitedOK(n[m], rowStatus, decisions)
    PROVE  DecisionsInv'
<1>1. /\ \A j \in DOMAIN consoleCalls : AwaitedOK(consoleCalls[j], rowStatus, decisions)
      /\ \A row \in ConsoleRows : RowOK(row, rowStatus, decisions, consoleCalls)
  BY DEF DecisionsInv
<1>2. i \in 1..Len(s)
  BY LenProperties
<1>3. /\ consoleCalls' \in Seq(ConsoleCallRows)
      /\ \A j \in DOMAIN s : j # i => \E k \in DOMAIN consoleCalls' : consoleCalls'[k] = s[j]
      /\ \A k \in DOMAIN consoleCalls' : \/ \E j \in DOMAIN s : j # i /\ consoleCalls'[k] = s[j]
                                         \/ \E m \in DOMAIN n : consoleCalls'[k] = n[m]
  <2>1. Returned(s, i, n) \in Seq(ConsoleCallRows)
    BY <1>2, ReturnKeeps
  <2>2. \A j \in DOMAIN s : j # i =>
          \E k \in DOMAIN Returned(s, i, n) : Returned(s, i, n)[k] = s[j]
    BY <1>2, ReturnKeeps
  <2>3. \A k \in DOMAIN Returned(s, i, n) :
          \/ \E j \in DOMAIN s : j # i /\ Returned(s, i, n)[k] = s[j]
          \/ \E m \in DOMAIN n : Returned(s, i, n)[k] = n[m]
    BY <1>2, ReturnKeeps
  <2>. QED
    BY <2>1, <2>2, <2>3
<1>4. ConsoleShape'
  BY <1>3 DEF DecisionsInv, ConsoleShape
<1>5. ASSUME NEW k \in DOMAIN consoleCalls'
      PROVE  AwaitedOK(consoleCalls'[k], rowStatus, decisions)
  <2>1. ASSUME NEW j \in DOMAIN s, consoleCalls'[k] = s[j]
        PROVE  AwaitedOK(consoleCalls'[k], rowStatus, decisions)
    <3>1. AwaitedOK(consoleCalls[j], rowStatus, decisions)
      BY <1>1
    <3>2. /\ s[j].kind = consoleCalls[j].kind /\ s[j].what = consoleCalls[j].what
          /\ s[j].token = consoleCalls[j].token /\ s[j].phase = consoleCalls[j].phase
          /\ s[j].answer = consoleCalls[j].answer
      OBVIOUS
    <3>3. AwaitedOK(s[j], rowStatus, decisions)
      BY <3>1, <3>2 DEF AwaitedOK
    <3>. QED
      BY <2>1, <3>3
  <2>2. ASSUME NEW m \in DOMAIN n, consoleCalls'[k] = n[m]
        PROVE  AwaitedOK(consoleCalls'[k], rowStatus, decisions)
    BY <2>2
  <2>. QED
    BY <1>3, <2>1, <2>2
<1>6. ASSUME NEW row \in ConsoleRows PROVE RowOK(row, rowStatus, decisions, consoleCalls')
  <2>1. RowOK(row, rowStatus, decisions, consoleCalls)
    BY <1>1
  <2>2. ASSUME NEW j \in DOMAIN consoleCalls, DecidedNow(consoleCalls[j], row)
        PROVE  \E k \in DOMAIN consoleCalls' : DecidedNow(consoleCalls'[k], row)
    <3>1. j # i
      BY <2>2 DEF DecidedNow
    <3>2. PICK k \in DOMAIN consoleCalls' : consoleCalls'[k] = s[j]
      BY <1>3, <3>1
    <3>3. DecidedNow(consoleCalls'[k], row)
      BY <2>2, <3>2 DEF DecidedNow
    <3>. QED
      BY <3>3
  <2>. QED
    BY <2>1, <2>2 DEF RowOK
<1>. QED
  BY <1>4, <1>5, <1>6 DEF DecisionsInv

\* A call is served; no other call is touched.
LEMMA ServeKeeps ==
    ASSUME ConsoleShape, NEW i \in DOMAIN consoleCalls, NEW ok \in BOOLEAN,
           NEW answer \in Seq(RowStates) \cup ConsoleRows \cup {EmptyRow}, Serve(i, ok, answer)
    PROVE  /\ consoleCalls' \in Seq(ConsoleCallRows) /\ DOMAIN consoleCalls' = DOMAIN consoleCalls
           /\ \A j \in DOMAIN consoleCalls : j # i => consoleCalls'[j] = consoleCalls[j]
           /\ consoleCalls[i].phase = "sent"
           /\ consoleCalls'[i] = [kind |-> consoleCalls[i].kind, what |-> consoleCalls[i].what,
                                  token |-> consoleCalls[i].token,
                                  phase |-> IF ok THEN "ok" ELSE "refused", answer |-> answer,
                                  overtaken |-> consoleCalls[i].overtaken]
           /\ UNCHANGED <<consoleToken, shownIn, proposalField, decisions, disturbed>>
<1>. DEFINE phase == IF ok THEN "ok" ELSE "refused"
            c == consoleCalls[i]
            d == [c EXCEPT !.phase = phase]
            e == [d EXCEPT !.answer = answer]
<1>1. /\ i \in 1..Len(consoleCalls) /\ consoleCalls \in Seq(ConsoleCallRows)
      /\ c \in ConsoleCallRows
  BY CallsThere DEF ConsoleShape
<1>2. /\ c.phase = "sent" /\ consoleCalls' = [consoleCalls EXCEPT ![i] = e]
      /\ UNCHANGED <<consoleToken, shownIn, proposalField, decisions, disturbed>>
  BY <1>1 DEF Serve
<1>3. d = [kind |-> c.kind, what |-> c.what, token |-> c.token, phase |-> phase,
           answer |-> c.answer, overtaken |-> c.overtaken]
  BY <1>1 DEF ConsoleCallRows
<1>. HIDE DEF d
<1>4. e = [kind |-> c.kind, what |-> c.what, token |-> c.token, phase |-> phase,
           answer |-> answer, overtaken |-> c.overtaken]
  BY <1>3
<1>5. e \in ConsoleCallRows
  BY <1>1, <1>4 DEF ConsoleCallRows
<1>. HIDE DEF e
<1>6. /\ consoleCalls' \in Seq(ConsoleCallRows) /\ Len(consoleCalls') = Len(consoleCalls)
      /\ \A j \in 1..Len(consoleCalls) : consoleCalls'[j] = IF j = i THEN e ELSE consoleCalls[j]
  BY <1>1, <1>2, <1>5, ExceptSeq
<1>7. DOMAIN consoleCalls' = DOMAIN consoleCalls
  BY <1>1, <1>6, LenProperties
<1>. QED
  BY <1>1, <1>2, <1>4, <1>6, <1>7, CallsThere

LEMMA ServedKeepsDecisions ==
    ASSUME DecisionsInv, NEW i \in DOMAIN consoleCalls, NEW ok \in BOOLEAN,
           NEW answer \in Seq(RowStates) \cup ConsoleRows \cup {EmptyRow}, Serve(i, ok, answer),
           rowStatus' \in [ConsoleRows -> RowStates],
           \A row \in ConsoleRows :
             \/ rowStatus'[row] = rowStatus[row]
             \/ rowStatus[row] = "none" /\ rowStatus'[row] = "proposed"
             \/ /\ OwnDecision(row, rowStatus'[row], decisions) /\ rowStatus'[row] \in DecisionKinds
                /\ rowStatus[row] # "none",
           \A row \in ConsoleRows : DecidedNow(consoleCalls[i], row) => rowStatus'[row] # "proposed",
           AwaitedOK([kind |-> consoleCalls[i].kind, what |-> consoleCalls[i].what,
                      token |-> consoleCalls[i].token,
                      phase |-> IF ok THEN "ok" ELSE "refused", answer |-> answer,
                      overtaken |-> consoleCalls[i].overtaken], rowStatus', decisions)
    PROVE  DecisionsInv'
<1>1. /\ ConsoleShape /\ \A j \in DOMAIN consoleCalls : AwaitedOK(consoleCalls[j], rowStatus, decisions)
      /\ \A row \in ConsoleRows : RowOK(row, rowStatus, decisions, consoleCalls)
  BY DEF DecisionsInv
<1>2. /\ consoleCalls' \in Seq(ConsoleCallRows) /\ DOMAIN consoleCalls' = DOMAIN consoleCalls
      /\ \A j \in DOMAIN consoleCalls : j # i => consoleCalls'[j] = consoleCalls[j]
      /\ UNCHANGED <<consoleToken, shownIn, proposalField, decisions>>
  <2>1. consoleCalls' \in Seq(ConsoleCallRows) /\ DOMAIN consoleCalls' = DOMAIN consoleCalls
    BY <1>1, ServeKeeps
  <2>2. \A j \in DOMAIN consoleCalls : j # i => consoleCalls'[j] = consoleCalls[j]
    BY <1>1, ServeKeeps
  <2>3. UNCHANGED <<consoleToken, shownIn, proposalField, decisions>>
    BY DEF Serve
  <2>. QED
    BY <2>1, <2>2, <2>3
<1>3. AwaitedOK(consoleCalls'[i], rowStatus', decisions)
  <2>1. consoleCalls'[i] = [kind |-> consoleCalls[i].kind, what |-> consoleCalls[i].what,
                            token |-> consoleCalls[i].token,
                            phase |-> IF ok THEN "ok" ELSE "refused", answer |-> answer,
                            overtaken |-> consoleCalls[i].overtaken]
    BY <1>1, ServeKeeps
  <2>. QED
    BY <2>1
<1>4. ConsoleShape'
  BY <1>1, <1>2 DEF ConsoleShape
<1>5. ASSUME NEW j \in DOMAIN consoleCalls
      PROVE  AwaitedOK(consoleCalls'[j], rowStatus', decisions)
  <2>1. CASE j = i
    BY <1>3, <2>1
  <2>2. CASE j # i
    <3>1. consoleCalls'[j] = consoleCalls[j] /\ AwaitedOK(consoleCalls[j], rowStatus, decisions)
      BY <1>1, <1>2, <2>2
    <3>2. \A row \in ConsoleRows : rowStatus[row] # "none" => rowStatus'[row] # "none"
      BY DEF DecisionKinds
    <3>3. \A row \in ConsoleRows, k \in DecisionKinds : <<row, k>>[1] = row
      OBVIOUS
    <3>4. AwaitedOK(consoleCalls[j], rowStatus', decisions)
      BY <3>1, <3>2, <3>3 DEF AwaitedOK, ConsoleRows
    <3>. QED
      BY <3>1, <3>4
  <2>. QED
    BY <2>1, <2>2
<1>6. ASSUME NEW row \in ConsoleRows PROVE RowOK(row, rowStatus', decisions, consoleCalls')
  <2>1. RowOK(row, rowStatus, decisions, consoleCalls)
    BY <1>1
  <2>2. rowStatus'[row] \in {"none", "proposed"} \/ OwnDecision(row, rowStatus'[row], decisions)
    BY <2>1 DEF RowOK
  <2>3. rowStatus'[row] = "none" =>
          row \notin FactRows /\ \A s \in RowStates : ~OwnDecision(row, s, decisions)
    BY <2>1 DEF RowOK, DecisionKinds
  <2>4. ASSUME rowStatus'[row] = "proposed", NEW s \in RowStates, OwnDecision(row, s, decisions)
        PROVE  \E k \in DOMAIN consoleCalls' : DecidedNow(consoleCalls'[k], row)
    <3>1. rowStatus[row] = "proposed"
      BY <2>1, <2>4 DEF RowOK, DecisionKinds
    <3>2. PICK j \in DOMAIN consoleCalls : DecidedNow(consoleCalls[j], row)
      BY <2>1, <2>4, <3>1 DEF RowOK
    <3>3. j # i
      BY <2>4, <3>2
    <3>. QED
      BY <1>2, <3>2, <3>3
  <2>. QED
    BY <2>2, <2>3, <2>4 DEF RowOK
<1>7. proposalField' # EmptyRow => rowStatus'[proposalField'] # "none"
  <2>1. proposalField \in ConsoleRows \cup {EmptyRow}
    BY <1>1 DEF ConsoleShape, ConsoleRows
  <2>. QED
    BY <1>2, <2>1 DEF DecisionsInv, DecisionKinds
<1>. QED
  BY <1>2, <1>4, <1>5, <1>6, <1>7 DEF DecisionsInv

LEMMA MarkedOvertaken ==
    ASSUME NEW c \in ConsoleCallRows, NEW v
    PROVE  [c EXCEPT !.overtaken = v] =
             [kind |-> c.kind, what |-> c.what, token |-> c.token, phase |-> c.phase,
              answer |-> c.answer, overtaken |-> v]
BY DEF ConsoleCallRows

\* The earlier reads of a panel are only marked.
LEMMA OvertakeKeeps ==
    ASSUME ConsoleShape, NEW i \in DOMAIN consoleCalls
    PROVE  /\ Overtake(consoleCalls, i) \in Seq(ConsoleCallRows)
           /\ DOMAIN Overtake(consoleCalls, i) = DOMAIN consoleCalls
           /\ \A j \in DOMAIN consoleCalls :
                /\ Overtake(consoleCalls, i)[j].kind = consoleCalls[j].kind
                /\ Overtake(consoleCalls, i)[j].what = consoleCalls[j].what
                /\ Overtake(consoleCalls, i)[j].token = consoleCalls[j].token
                /\ Overtake(consoleCalls, i)[j].phase = consoleCalls[j].phase
                /\ Overtake(consoleCalls, i)[j].answer = consoleCalls[j].answer
           /\ \A j \in DOMAIN consoleCalls :
                Overtake(consoleCalls, i)[j].overtaken =
                  (\/ consoleCalls[j].overtaken
                   \/ /\ j < i /\ IsRead(j)
                      /\ PanelOf(consoleCalls[j].kind) = PanelOf(consoleCalls[i].kind))
<1>. DEFINE r == Overtake(consoleCalls, i)
            Behind(j) == /\ j < i /\ IsRead(j)
                         /\ PanelOf(consoleCalls[j].kind) = PanelOf(consoleCalls[i].kind)
<1>1. \A j \in DOMAIN consoleCalls : consoleCalls[j] \in ConsoleCallRows
  BY CallsThere
<1>2. /\ DOMAIN r = DOMAIN consoleCalls
      /\ \A j \in DOMAIN consoleCalls :
           r[j] = IF Behind(j) THEN [consoleCalls[j] EXCEPT !.overtaken = TRUE] ELSE consoleCalls[j]
  BY DEF Overtake
<1>. HIDE DEF r, Behind
<1>3. ASSUME NEW j \in DOMAIN consoleCalls
      PROVE  /\ r[j] \in ConsoleCallRows
             /\ r[j].kind = consoleCalls[j].kind /\ r[j].what = consoleCalls[j].what
             /\ r[j].token = consoleCalls[j].token /\ r[j].phase = consoleCalls[j].phase
             /\ r[j].answer = consoleCalls[j].answer
             /\ r[j].overtaken = IF Behind(j) THEN TRUE ELSE consoleCalls[j].overtaken
  <2>. DEFINE c == consoleCalls[j]  d == [c EXCEPT !.overtaken = TRUE]
  <2>1. c \in ConsoleCallRows
    BY <1>1
  <2>2. d = [kind |-> c.kind, what |-> c.what, token |-> c.token, phase |-> c.phase,
             answer |-> c.answer, overtaken |-> TRUE]
    BY <2>1, MarkedOvertaken
  <2>3. d \in ConsoleCallRows
    BY <2>1, <2>2 DEF ConsoleCallRows
  <2>4. r[j] = IF Behind(j) THEN d ELSE c
    BY <1>2
  <2>. HIDE DEF d
  <2>. QED
    BY <2>1, <2>2, <2>3, <2>4
<1>4. r \in Seq(ConsoleCallRows)
  <2>1. DOMAIN consoleCalls = 1..Len(consoleCalls) /\ Len(consoleCalls) \in Nat
    BY CallsThere
  <2>2. r \in [1..Len(consoleCalls) -> ConsoleCallRows]
    <3>1. r = [j \in DOMAIN consoleCalls |-> r[j]]
      BY <1>2 DEF r, Overtake
    <3>. QED
      BY <1>3, <2>1, <3>1
  <2>. QED
    BY <2>1, <2>2, SeqDef
<1>5. \A j \in DOMAIN consoleCalls : r[j].overtaken = (consoleCalls[j].overtaken \/ Behind(j))
  <2>1. ASSUME NEW j \in DOMAIN consoleCalls
        PROVE  r[j].overtaken = (consoleCalls[j].overtaken \/ Behind(j))
    <3>1. consoleCalls[j].overtaken \in BOOLEAN
      BY <1>1 DEF ConsoleCallRows
    <3>2. CASE Behind(j)
      BY <1>3, <3>1, <3>2
    <3>3. CASE ~Behind(j)
      BY <1>3, <3>1, <3>3
    <3>. QED
      BY <3>2, <3>3
  <2>. QED
    BY <2>1
<1>6. \A j \in DOMAIN consoleCalls :
        /\ r[j].kind = consoleCalls[j].kind /\ r[j].what = consoleCalls[j].what
        /\ r[j].token = consoleCalls[j].token /\ r[j].phase = consoleCalls[j].phase
        /\ r[j].answer = consoleCalls[j].answer
  BY <1>3
<1>. QED
  BY <1>2, <1>4, <1>5, <1>6 DEF r, Behind

LEMMA OneCall ==
    ASSUME NEW c \in ConsoleCallRows
    PROVE  <<c>> \in Seq(ConsoleCallRows) /\ DOMAIN <<c>> = {1} /\ <<c>>[1] = c
OBVIOUS

LEMMA PlainCallOK ==
    ASSUME NEW t \in ConsoleAccounts \cup {"none"}, NEW kind \in CallKinds \ {"user", "decide"},
           NEW status, NEW made
    PROVE  AwaitedOK(CallWith(t, kind, EmptyRow), status, made)
<1>1. /\ CallWith(t, kind, EmptyRow).kind = kind /\ CallWith(t, kind, EmptyRow).phase = "sent"
      /\ CallWith(t, kind, EmptyRow).answer = <<>> /\ <<>> \in Seq(RowStates)
  BY EmptySeq DEF CallWith
<1>. QED
  BY <1>1 DEF AwaitedOK

\* The calls that the return of another sends.
LEMMA AfterReadOK ==
    ASSUME consoleToken \in ConsoleAccounts \cup {"none"}, NEW i, NEW status, NEW made
    PROVE  /\ AfterRead(i) \in Seq(ConsoleCallRows)
           /\ \A m \in DOMAIN AfterRead(i) :
                /\ AwaitedOK(AfterRead(i)[m], status, made)
                /\ consoleCalls[i].kind = "reload"
                /\ AfterRead(i)[m] = CallWith(consoleToken, "dashboard", EmptyRow)
           /\ consoleCalls[i].kind = "reload" => 1 \in DOMAIN AfterRead(i)
<1>. DEFINE c == CallWith(consoleToken, "dashboard", EmptyRow)
<1>1. AfterRead(i) = IF consoleCalls[i].kind = "reload" THEN <<c>> ELSE <<>>
  BY DEF AfterRead, NewCall
<1>2. "dashboard" \in CallKinds \ {"user", "decide"}
  BY DEF CallKinds
<1>3. c \in ConsoleCallRows /\ AwaitedOK(c, status, made)
  BY <1>2, NewCallOK, PlainCallOK
<1>. HIDE DEF c
<1>4. <<c>> \in Seq(ConsoleCallRows) /\ DOMAIN <<c>> = {1} /\ <<c>>[1] = c
  BY <1>3, OneCall
<1>5. CASE consoleCalls[i].kind = "reload"
  <2>1. AfterRead(i) = <<c>>
    BY <1>1, <1>5
  <2>. QED
    BY <1>3, <1>4, <1>5, <2>1 DEF c
<1>6. CASE consoleCalls[i].kind # "reload"
  <2>1. AfterRead(i) = <<>>
    BY <1>1, <1>6
  <2>2. <<>> \in Seq(ConsoleCallRows) /\ DOMAIN <<>> = {}
    BY EmptySeq
  <2>. QED
    BY <1>6, <2>1, <2>2
<1>. QED
  BY <1>5, <1>6

LEMMA RefreshOK ==
    ASSUME NEW t \in ConsoleAccounts \cup {"none"}, NEW status, NEW made
    PROVE  LET n == [m \in 1..2 |-> CallWith(t, <<"dashboard", "review">>[m], EmptyRow)] IN
           /\ n \in Seq(ConsoleCallRows) /\ \A m \in DOMAIN n : AwaitedOK(n[m], status, made)
           /\ DOMAIN n = 1..2 /\ n[1] = CallWith(t, "dashboard", EmptyRow)
           /\ n[2] = CallWith(t, "review", EmptyRow)
<1>. DEFINE n == [m \in 1..2 |-> CallWith(t, <<"dashboard", "review">>[m], EmptyRow)]
            b == CallWith(t, "dashboard", EmptyRow)
            c == CallWith(t, "review", EmptyRow)
<1>1. DOMAIN n = 1..2 /\ n[1] = b /\ n[2] = c
  OBVIOUS
<1>2. "dashboard" \in CallKinds \ {"user", "decide"} /\ "review" \in CallKinds \ {"user", "decide"}
  BY DEF CallKinds
<1>3. b \in ConsoleCallRows /\ AwaitedOK(b, status, made)
  BY <1>2, NewCallOK, PlainCallOK
<1>4. c \in ConsoleCallRows /\ AwaitedOK(c, status, made)
  BY <1>2, NewCallOK, PlainCallOK
<1>5. \A m \in 1..2 : n[m] \in {b, c}
  <2>1. \A m \in 1..2 : m = 1 \/ m = 2
    OBVIOUS
  <2>. HIDE DEF n, b, c
  <2>. QED
    BY <1>1, <2>1
<1>6. n = [m \in 1..2 |-> n[m]]
  OBVIOUS
<1>. HIDE DEF n, b, c
<1>7. n \in [1..2 -> ConsoleCallRows]
  BY <1>3, <1>4, <1>5, <1>6
<1>8. n \in Seq(ConsoleCallRows)
  BY <1>7, SeqDef
<1>9. \A m \in DOMAIN n : AwaitedOK(n[m], status, made)
  BY <1>1, <1>3, <1>4, <1>5
<1>. QED
  BY <1>1, <1>8, <1>9 DEF n, b, c

\* A click that sends a call for nothing in particular decides nothing.
LEMMA AskKeepsDecisions ==
    ASSUME DecisionsInv, NEW c \in ConsoleCallRows, AwaitedOK(c, rowStatus, decisions),
           ClickSends(<<c>>), UNCHANGED decisions
    PROVE  DecisionsInv'
<1>. DEFINE n == <<c>>
<1>1. n \in Seq(ConsoleCallRows) /\ DOMAIN n = {1} /\ n[1] = c
  BY OneCall
<1>2. /\ consoleCalls' = consoleCalls \o n /\ UNCHANGED <<shownIn, proposalField, rowStatus>>
      /\ consoleToken' \in ConsoleAccounts \cup {"none"} /\ decisions \subseteq decisions'
  BY DEF ClickSends, Click, DecisionsInv, ConsoleShape
<1>. HIDE DEF n
<1>3. \A m \in DOMAIN n : AwaitedOK(n[m], rowStatus, decisions')
  BY <1>1
<1>4. \A row \in ConsoleRows, s \in RowStates :
        OwnDecision(row, s, decisions') => OwnDecision(row, s, decisions)
  OBVIOUS
<1>. QED
  BY <1>1, <1>2, <1>3, <1>4, ClickKeepsDecisions

\* A click that decides sends at least one call that does.
LEMMA DecideKeepsDecisions ==
    ASSUME DecisionsInv, NEW row \in ConsoleRows, rowStatus[row] # "none",
           NEW kind \in DecisionKinds, NEW n \in Seq(ConsoleCallRows), 1 \in DOMAIN n,
           \A m \in DOMAIN n : n[m] = CallWith(consoleToken, "decide", <<row, kind>>),
           ClickSends(n), Decided(row, kind)
    PROVE  DecisionsInv'
<1>1. consoleToken \in ConsoleAccounts \cup {"none"}
  BY DEF DecisionsInv, ConsoleShape
<1>2. /\ consoleCalls' = consoleCalls \o n /\ UNCHANGED <<shownIn, proposalField, rowStatus>>
      /\ consoleToken' \in ConsoleAccounts \cup {"none"}
      /\ decisions' = decisions \cup {<<consoleToken, row, kind>>}
  BY <1>1 DEF ClickSends, Click, Decided
<1>3. ASSUME NEW m \in DOMAIN n
      PROVE  n[m].kind = "decide" /\ n[m].phase = "sent" /\ n[m].what = <<row, kind>>
             /\ n[m].token = consoleToken
  BY DEF CallWith
<1>4. ASSUME NEW m \in DOMAIN n PROVE AwaitedOK(n[m], rowStatus, decisions')
  <2>1. <<row, kind>>[1] = row /\ <<row, kind>>[2] = kind
        /\ <<row, kind>> \in ConsoleRows \X DecisionKinds
    OBVIOUS
  <2>. QED
    BY <1>2, <1>3, <2>1 DEF AwaitedOK
<1>5. ASSUME NEW other \in ConsoleRows, NEW s \in RowStates,
             OwnDecision(other, s, decisions'), ~OwnDecision(other, s, decisions)
      PROVE  rowStatus[other] # "none" /\ \E m \in DOMAIN n : DecidedNow(n[m], other)
  <2>1. other = row /\ RowOwner(row) = consoleToken
    BY <1>2, <1>5 DEF OwnDecision
  <2>2. DecidedNow(n[1], row)
    BY <1>3, <2>1 DEF DecidedNow
  <2>. QED
    BY <2>1, <2>2
<1>6. decisions \subseteq decisions'
  BY <1>2
<1>. QED
  BY <1>2, <1>4, <1>5, <1>6, ClickKeepsDecisions

LEMMA DecisionsStepKeeps ==
    ASSUME DecisionsInv, ConsoleNext
    PROVE  DecisionsInv'
<1>. USE ConsoleAssumption
<1>1. /\ ConsoleShape
      /\ \A j \in DOMAIN consoleCalls : AwaitedOK(consoleCalls[j], rowStatus, decisions)
      /\ \A row \in ConsoleRows : RowOK(row, rowStatus, decisions, consoleCalls)
      /\ proposalField # EmptyRow => rowStatus[proposalField] # "none"
      /\ shownIn["review"].of = "none" => shownIn["review"].facts = <<>>
  BY DEF DecisionsInv
<1>2. /\ consoleToken \in ConsoleAccounts \cup {"none"} /\ shownIn \in [Panels -> Shown]
      /\ proposalField \in ProposalRows \cup {EmptyRow} /\ rowStatus \in [ConsoleRows -> RowStates]
      /\ consoleCalls \in Seq(ConsoleCallRows)
      /\ \A j \in DOMAIN consoleCalls : consoleCalls[j] \in ConsoleCallRows
  BY <1>1, CallsThere DEF ConsoleShape
<1>3. ASSUME NEW a \in ConsoleAccounts \cup {"none"}, TypeToken(a) PROVE DecisionsInv'
  <2>1. /\ consoleToken' = a
        /\ UNCHANGED <<shownIn, proposalField, rowStatus, consoleCalls, decisions>>
    BY <1>3 DEF TypeToken, Click
  <2>2. ConsoleShape'
    BY <1>1, <2>1 DEF ConsoleShape
  <2>. QED
    BY <1>1, <2>1, <2>2 DEF DecisionsInv
<1>4. ASSUME NEW p \in Panels, Ask(p) PROVE DecisionsInv'
  <2>. DEFINE c == CallWith(consoleToken, p, EmptyRow)
  <2>1. p \in CallKinds \ {"user", "decide"}
    BY DEF Panels, CallKinds
  <2>2. c \in ConsoleCallRows /\ AwaitedOK(c, rowStatus, decisions)
    BY <1>2, <2>1, NewCallOK, PlainCallOK
  <2>3. ClickSends(<<c>>) /\ UNCHANGED decisions
    BY <1>4 DEF Ask, NewCall
  <2>. HIDE DEF c
  <2>. QED
    BY <2>2, <2>3, AskKeepsDecisions
<1>5. ASSUME NEW a \in ConsoleAccounts, CreateDevUser(a) PROVE DecisionsInv'
  <2>. DEFINE c == CallWith(consoleToken, "user", a)
  <2>1. "user" \in CallKinds
    BY DEF CallKinds
  <2>2. c \in ConsoleCallRows
    BY <1>2, <2>1, NewCallOK
  <2>3. c.kind = "user" /\ c.what = a /\ c.phase = "sent"
    BY DEF CallWith
  <2>4. ClickSends(<<c>>) /\ UNCHANGED decisions
    BY <1>5 DEF CreateDevUser, NewCall
  <2>. HIDE DEF c
  <2>5. AwaitedOK(c, rowStatus, decisions)
    BY <2>3 DEF AwaitedOK
  <2>. QED
    BY <2>2, <2>4, <2>5, AskKeepsDecisions
<1>6. ASSUME CreateProposal PROVE DecisionsInv'
  <2>. DEFINE c == CallWith(consoleToken, "create", EmptyRow)
  <2>1. "create" \in CallKinds \ {"user", "decide"}
    BY DEF CallKinds
  <2>2. c \in ConsoleCallRows /\ AwaitedOK(c, rowStatus, decisions)
    BY <1>2, <2>1, NewCallOK, PlainCallOK
  <2>3. ClickSends(<<c>>) /\ UNCHANGED decisions
    BY <1>6 DEF CreateProposal, NewCall
  <2>. HIDE DEF c
  <2>. QED
    BY <2>2, <2>3, AskKeepsDecisions
<1>7. ASSUME NEW s \in {"approved", "rejected"}, DecideProposal(s) PROVE DecisionsInv'
  <2>. DEFINE c == CallWith(consoleToken, "decide", <<proposalField, s>>)
              n == <<c>>
  <2>1. /\ proposalField \in ConsoleRows /\ rowStatus[proposalField] # "none"
        /\ s \in DecisionKinds
    BY <1>1, <1>2, <1>7 DEF DecideProposal, ConsoleRows, DecisionKinds
  <2>2. c \in ConsoleCallRows
    <3>1. "decide" \in CallKinds /\ <<proposalField, s>> \in ConsoleRows \X DecisionKinds
      BY <2>1 DEF CallKinds
    <3>. QED
      BY <1>2, <3>1, NewCallOK
  <2>3. n \in Seq(ConsoleCallRows) /\ DOMAIN n = {1} /\ n[1] = c
    BY <2>2, OneCall
  <2>4. ClickSends(n) /\ Decided(proposalField, s)
    BY <1>7 DEF DecideProposal, NewCall
  <2>. HIDE DEF n
  <2>5. 1 \in DOMAIN n /\ \A m \in DOMAIN n : n[m] = CallWith(consoleToken, "decide", <<proposalField, s>>)
    BY <2>3
  <2>. QED
    BY <2>1, <2>3, <2>4, <2>5, DecideKeepsDecisions
<1>8. ASSUME NEW k \in 1..FactCount, NEW s \in {"confirmed", "rejected"}, DecideFact(k, s)
      PROVE  DecisionsInv'
  <2>. DEFINE row == FactRow(shownIn["review"].of, k)
              c == CallWith(consoleToken, "decide", <<row, s>>)
              n == [m \in 1..Renderings |-> c]
  <2>1. k \in DOMAIN shownIn["review"].facts
    BY <1>8 DEF DecideFact
  <2>2. shownIn["review"].of \in ConsoleAccounts
    <3>1. shownIn["review"] \in Shown
      BY <1>2 DEF Panels
    <3>2. CASE shownIn["review"].of = "none"
      BY <1>1, <2>1, <3>2
    <3>. QED
      BY <3>1, <3>2 DEF Shown
  <2>3. row \in FactRows
    BY <2>2, RowsApart
  <2>4. ClickSends(n) /\ Decided(row, s)
    BY <1>8 DEF DecideFact, NewCall
  <2>5. c \in ConsoleCallRows
    <3>1. "decide" \in CallKinds /\ <<row, s>> \in ConsoleRows \X DecisionKinds
      BY <2>3 DEF CallKinds, ConsoleRows, DecisionKinds
    <3>. HIDE DEF row
    <3>. QED
      BY <1>2, <3>1, NewCallOK
  <2>. DEFINE y == c
  <2>6. n = [m \in 1..Renderings |-> y] /\ y = CallWith(consoleToken, "decide", <<row, s>>)
    OBVIOUS
  <2>. HIDE DEF row, c, y, n
  <2>7. n \in Seq(ConsoleCallRows) /\ 1 \in DOMAIN n /\ \A m \in DOMAIN n : n[m] = y
    <3>1. /\ DOMAIN n = 1..Renderings /\ \A m \in 1..Renderings : n[m] = y
          /\ Renderings \in Nat /\ 1 \in 1..Renderings
      BY <2>6
    <3>2. n \in [1..Renderings -> ConsoleCallRows]
      BY <2>5, <2>6 DEF y
    <3>. QED
      BY <3>1, <3>2, SeqDef
  <2>8. rowStatus[row] # "none" /\ row \in ConsoleRows /\ s \in DecisionKinds
    BY <1>1, <2>3 DEF RowOK, ConsoleRows, DecisionKinds
  <2>9. \A m \in DOMAIN n : n[m] = CallWith(consoleToken, "decide", <<row, s>>)
    BY <2>6, <2>7
  <2>. QED
    BY <2>4, <2>7, <2>8, <2>9, DecideKeepsDecisions
<1>9. ASSUME NEW i \in DOMAIN consoleCalls, ServeRead(i) PROVE DecisionsInv'
  <2>. DEFINE c == consoleCalls[i]  ok == c.token # "none"
              answer == IF c.token = "none" \/ c.kind = "actions" THEN <<>> ELSE FactsOf(c.token)
  <2>1. Serve(i, ok, answer) /\ UNCHANGED rowStatus /\ PanelOf(c.kind) \in Panels
    BY <1>9 DEF ServeRead, IsRead
  <2>2. c.token \in ConsoleAccounts \cup {"none"} /\ c.kind \notin {"user", "decide", "create"}
    BY <1>2, <2>1 DEF ConsoleCallRows, PanelOf, Panels
  <2>3. answer \in Seq(RowStates)
    BY <1>1, <2>2, FactsAreStates, EmptySeq
  <2>4. ok \in BOOLEAN
    OBVIOUS
  <2>5. decisions' = decisions
    BY <2>1 DEF Serve
  <2>6. AwaitedOK([kind |-> c.kind, what |-> c.what, token |-> c.token,
                   phase |-> IF ok THEN "ok" ELSE "refused", answer |-> answer,
                   overtaken |-> c.overtaken], rowStatus', decisions)
    <3>. HIDE DEF answer
    <3>. QED
      BY <2>2, <2>3 DEF AwaitedOK
  <2>7. \A row \in ConsoleRows : ~DecidedNow(c, row)
    BY <2>2 DEF DecidedNow
  <2>8. rowStatus' \in [ConsoleRows -> RowStates] /\ \A row \in ConsoleRows : rowStatus'[row] = rowStatus[row]
    BY <1>2, <2>1
  <2>. HIDE DEF answer, ok
  <2>. QED
    BY <2>1, <2>3, <2>4, <2>6, <2>7, <2>8, ServedKeepsDecisions
<1>10. ASSUME NEW i \in DOMAIN consoleCalls, ServeCreate(i) PROVE DecisionsInv'
  <2>. DEFINE c == consoleCalls[i]
  <2>1. c.kind = "create" /\ c \in ConsoleCallRows
    BY <1>2, <1>10 DEF ServeCreate, At
  <2>2. \A row \in ConsoleRows : ~DecidedNow(c, row)
    BY <2>1 DEF DecidedNow
  <2>3. CASE c.token = "none"
    <3>1. Serve(i, FALSE, EmptyRow) /\ UNCHANGED rowStatus
      BY <1>10, <2>3 DEF ServeCreate
    <3>2. AwaitedOK([kind |-> c.kind, what |-> c.what, token |-> c.token,
                     phase |-> IF FALSE THEN "ok" ELSE "refused", answer |-> EmptyRow,
                     overtaken |-> c.overtaken], rowStatus', decisions)
      BY <2>1 DEF AwaitedOK
    <3>3. /\ rowStatus' \in [ConsoleRows -> RowStates]
          /\ \A row \in ConsoleRows : rowStatus'[row] = rowStatus[row]
      BY <1>2, <3>1
    <3>. QED
      BY <2>2, <3>1, <3>2, <3>3, ServedKeepsDecisions
  <2>4. CASE c.token # "none"
    <3>1. PICK k \in 1..MaxProposalRows :
            /\ rowStatus[<<"proposal", c.token, k>>] = "none"
            /\ Serve(i, TRUE, <<"proposal", c.token, k>>)
            /\ rowStatus' = [rowStatus EXCEPT ![<<"proposal", c.token, k>>] = "proposed"]
      BY <1>10, <2>4 DEF ServeCreate
    <3>. DEFINE row == <<"proposal", c.token, k>>
    <3>2. c.token \in ConsoleAccounts
      BY <2>1, <2>4 DEF ConsoleCallRows
    <3>3. row \in ProposalRows /\ row \in ConsoleRows
      BY <3>2 DEF ProposalRows, ConsoleRows
    <3>4. /\ Serve(i, TRUE, row) /\ rowStatus[row] = "none"
          /\ rowStatus' = [rowStatus EXCEPT ![row] = "proposed"]
      BY <3>1
    <3>. HIDE DEF row
    <3>5. /\ rowStatus' \in [ConsoleRows -> RowStates] /\ rowStatus'[row] = "proposed"
          /\ \A o \in ConsoleRows : o # row => rowStatus'[o] = rowStatus[o]
      BY <1>2, <3>3, <3>4 DEF RowStates
    <3>6. AwaitedOK([kind |-> c.kind, what |-> c.what, token |-> c.token,
                     phase |-> IF TRUE THEN "ok" ELSE "refused", answer |-> row,
                     overtaken |-> c.overtaken], rowStatus', decisions)
      BY <2>1, <2>4, <3>3, <3>5 DEF AwaitedOK
    <3>7. \A o \in ConsoleRows :
             \/ rowStatus'[o] = rowStatus[o]
             \/ rowStatus[o] = "none" /\ rowStatus'[o] = "proposed"
      BY <3>4, <3>5
    <3>. QED
      BY <2>2, <3>3, <3>4, <3>5, <3>6, <3>7, ServedKeepsDecisions
  <2>. QED
    BY <2>3, <2>4
<1>11. ASSUME NEW i \in DOMAIN consoleCalls, ServeDecide(i) PROVE DecisionsInv'
  <2>. DEFINE c == consoleCalls[i]  row == c.what[1]  kind == c.what[2]
              ok == RowOwner(row) = c.token /\ ~(kind = "approved" /\ rowStatus[row] = "rejected")
  <2>1. /\ c.kind = "decide" /\ c \in ConsoleCallRows /\ AwaitedOK(c, rowStatus, decisions)
        /\ Serve(i, ok, row)
        /\ rowStatus' = IF ok THEN [rowStatus EXCEPT ![row] = kind] ELSE rowStatus
    BY <1>1, <1>2, <1>11 DEF ServeDecide, At
  <2>2. /\ c.what \in ConsoleRows \X DecisionKinds /\ rowStatus[row] # "none"
        /\ RowOwner(row) = c.token => <<c.token, row, kind>> \in decisions
    BY <2>1 DEF AwaitedOK
  <2>3. row \in ConsoleRows /\ kind \in DecisionKinds
    BY <2>2
  <2>4. ok \in BOOLEAN /\ (ok => RowOwner(row) = c.token)
        /\ (RowOwner(row) = c.token /\ rowStatus[row] = "proposed" => ok)
    OBVIOUS
  <2>5. ok => OwnDecision(row, kind, decisions)
    BY <2>2 DEF OwnDecision
  <2>. HIDE DEF ok
  <2>6. /\ rowStatus' \in [ConsoleRows -> RowStates]
        /\ ok => rowStatus'[row] = kind
        /\ \A o \in ConsoleRows : o # row \/ ~ok => rowStatus'[o] = rowStatus[o]
    <3>1. kind \in RowStates
      BY <2>3 DEF RowStates, DecisionKinds
    <3>. HIDE DEF row, kind
    <3>. QED
      BY <1>2, <2>1, <2>3, <3>1
  <2>7. \A o \in ConsoleRows :
          \/ rowStatus'[o] = rowStatus[o]
          \/ /\ OwnDecision(o, rowStatus'[o], decisions) /\ rowStatus'[o] \in DecisionKinds
             /\ rowStatus[o] # "none"
    BY <2>2, <2>3, <2>5, <2>6
  <2>8. \A o \in ConsoleRows : DecidedNow(c, o) => rowStatus'[o] # "proposed"
    <3>1. ASSUME NEW o \in ConsoleRows, DecidedNow(c, o) PROVE rowStatus'[o] # "proposed"
      <4>1. o = row /\ c.token = RowOwner(row)
        BY <3>1 DEF DecidedNow
      <4>2. CASE ok
        BY <2>3, <2>6, <4>1, <4>2 DEF DecisionKinds
      <4>3. CASE ~ok
        BY <2>3, <2>4, <2>6, <4>1, <4>3
      <4>. QED
        BY <4>2, <4>3
    <3>. QED
      BY <3>1
  <2>9. AwaitedOK([kind |-> c.kind, what |-> c.what, token |-> c.token,
                   phase |-> IF ok THEN "ok" ELSE "refused", answer |-> row,
                   overtaken |-> c.overtaken], rowStatus', decisions)
    <3>1. rowStatus'[row] # "none"
      BY <2>2, <2>3, <2>6 DEF DecisionKinds
    <3>. QED
      BY <2>1, <2>2, <2>4, <3>1 DEF AwaitedOK
  <2>. HIDE DEF row, kind
  <2>. QED
    BY <2>1, <2>3, <2>4, <2>6, <2>7, <2>8, <2>9, ServedKeepsDecisions
<1>12. ASSUME NEW i \in DOMAIN consoleCalls, ReadReturns(i) PROVE DecisionsInv'
  <2>. DEFINE c == consoleCalls[i]  s == Overtake(consoleCalls, i)  n == AfterRead(i)
  <2>1. /\ PanelOf(c.kind) \in Panels /\ c.phase = "ok" /\ c \in ConsoleCallRows
        /\ AwaitedOK(c, rowStatus, decisions)
        /\ shownIn' = [shownIn EXCEPT ![PanelOf(c.kind)] = [of |-> c.token, facts |-> c.answer]]
        /\ consoleCalls' = Returned(s, i, n)
        /\ UNCHANGED <<consoleToken, proposalField, rowStatus, decisions>>
    BY <1>1, <1>2, <1>12 DEF ReadReturns, IsRead, Returned
  <2>2. c.kind \notin {"user", "decide", "create"}
    BY <2>1 DEF PanelOf, Panels
  <2>3. c.answer \in Seq(RowStates) /\ c.token \in ConsoleAccounts
    BY <2>1, <2>2 DEF AwaitedOK, ConsoleCallRows
  <2>4. /\ shownIn' \in [Panels -> Shown]
        /\ shownIn'["review"].of = "none" => shownIn'["review"].facts = <<>>
    <3>. DEFINE sh == [of |-> c.token, facts |-> c.answer]  p == PanelOf(c.kind)
    <3>1. sh \in Shown /\ sh.of # "none"
      BY <2>3 DEF Shown
    <3>2. shownIn' = [shownIn EXCEPT ![p] = sh] /\ p \in Panels /\ "review" \in Panels
      BY <2>1 DEF Panels
    <3>. HIDE DEF sh, p
    <3>. QED
      BY <1>1, <1>2, <3>1, <3>2
  <2>5. n \in Seq(ConsoleCallRows) /\ \A m \in DOMAIN n : AwaitedOK(n[m], rowStatus, decisions)
    BY <1>2, AfterReadOK
  <2>6. /\ s \in Seq(ConsoleCallRows) /\ DOMAIN s = DOMAIN consoleCalls
        /\ \A j \in DOMAIN s :
             /\ s[j].kind = consoleCalls[j].kind /\ s[j].what = consoleCalls[j].what
             /\ s[j].token = consoleCalls[j].token /\ s[j].phase = consoleCalls[j].phase
             /\ s[j].answer = consoleCalls[j].answer
    <3>1. s \in Seq(ConsoleCallRows) /\ DOMAIN s = DOMAIN consoleCalls
      BY <1>1, OvertakeKeeps
    <3>2. \A j \in DOMAIN consoleCalls :
             /\ s[j].kind = consoleCalls[j].kind /\ s[j].what = consoleCalls[j].what
             /\ s[j].token = consoleCalls[j].token /\ s[j].phase = consoleCalls[j].phase
             /\ s[j].answer = consoleCalls[j].answer
      BY <1>1, OvertakeKeeps, ZenonT(60)
    <3>. QED
      BY <3>1, <3>2
  <2>7. i \in DOMAIN s /\ s[i].phase = "ok"
    BY <2>1, <2>6
  <2>. HIDE DEF s, n
  <2>8. ~(s[i].kind = "decide" /\ s[i].phase = "sent")
    BY <2>7
  <2>. QED
    BY <1>1, <1>2, <2>1, <2>4, <2>5, <2>6, <2>7, <2>8, ReturnKeepsDecisions
<1>13. ASSUME NEW i \in DOMAIN consoleCalls, NEW n \in Seq(ConsoleCallRows),
              consoleCalls' = Returned(consoleCalls, i, n),
              ~(consoleCalls[i].kind = "decide" /\ consoleCalls[i].phase = "sent"),
              UNCHANGED <<rowStatus, decisions>>,
              consoleToken' \in ConsoleAccounts \cup {"none"},
              shownIn'["review"] = shownIn["review"], shownIn' \in [Panels -> Shown],
              proposalField' \in ProposalRows \cup {EmptyRow},
              proposalField' # EmptyRow => rowStatus[proposalField'] # "none",
              \A m \in DOMAIN n : AwaitedOK(n[m], rowStatus, decisions)
       PROVE  DecisionsInv'
  <2>1. \A j \in DOMAIN consoleCalls :
          /\ consoleCalls[j].kind = consoleCalls[j].kind /\ consoleCalls[j].what = consoleCalls[j].what
          /\ consoleCalls[j].token = consoleCalls[j].token /\ consoleCalls[j].phase = consoleCalls[j].phase
          /\ consoleCalls[j].answer = consoleCalls[j].answer
    OBVIOUS
  <2>2. shownIn'["review"].of = "none" => shownIn'["review"].facts = <<>>
    BY <1>1, <1>13
  <2>. QED
    BY <1>2, <1>13, <2>1, <2>2, ReturnKeepsDecisions
<1>14. ASSUME NEW i \in DOMAIN consoleCalls, ShowAction(i)
       PROVE  shownIn' \in [Panels -> Shown] /\ shownIn'["review"] = shownIn["review"]
  <2>. DEFINE sh == [of |-> consoleCalls[i].token, facts |-> <<>>]
  <2>1. sh \in Shown
    BY <1>2, EmptySeq DEF Shown, ConsoleCallRows
  <2>2. shownIn' = [shownIn EXCEPT !["actions"] = sh] /\ "actions" \in Panels
    BY <1>14 DEF ShowAction, Panels
  <2>. HIDE DEF sh
  <2>3. "review" \in Panels
    BY DEF Panels
  <2>. QED
    BY <1>2, <2>1, <2>2, <2>3
<1>15. ASSUME NEW i \in DOMAIN consoleCalls, UserReturns(i) PROVE DecisionsInv'
  <2>. DEFINE t == consoleCalls[i].what
              n == [m \in 1..2 |-> CallWith(t, <<"dashboard", "review">>[m], EmptyRow)]
  <2>1. /\ consoleCalls[i].kind = "user" /\ consoleToken' = t
        /\ consoleCalls' = Returned(consoleCalls, i, n)
        /\ UNCHANGED <<shownIn, proposalField, rowStatus, decisions>>
    BY <1>15 DEF UserReturns, At, Return, Returned
  <2>2. t \in ConsoleAccounts
    BY <1>1, <2>1 DEF AwaitedOK
  <2>3. n \in Seq(ConsoleCallRows) /\ \A m \in DOMAIN n : AwaitedOK(n[m], rowStatus, decisions)
    BY <2>2, RefreshOK
  <2>. HIDE DEF n
  <2>. QED
    BY <1>1, <1>2, <1>13, <2>1, <2>2, <2>3
<1>16. ASSUME NEW i \in DOMAIN consoleCalls, CreateReturns(i) PROVE DecisionsInv'
  <2>. DEFINE c == consoleCalls[i]
  <2>1. /\ c.kind = "create" /\ c.phase = "ok" /\ proposalField' = c.answer /\ ShowAction(i)
        /\ consoleCalls' = Returned(consoleCalls, i, <<>>)
        /\ UNCHANGED <<consoleToken, rowStatus, decisions>>
    BY <1>16 DEF CreateReturns, At, Return, Returned
  <2>2. c.answer \in ProposalRows /\ rowStatus[c.answer] # "none"
    BY <1>1, <2>1 DEF AwaitedOK
  <2>3. shownIn' \in [Panels -> Shown] /\ shownIn'["review"] = shownIn["review"]
    BY <1>14, <2>1
  <2>4. <<>> \in Seq(ConsoleCallRows) /\ \A m \in DOMAIN <<>> : AwaitedOK(<<>>[m], rowStatus, decisions)
    BY EmptySeq
  <2>5. ~(consoleCalls[i].kind = "decide" /\ consoleCalls[i].phase = "sent")
    BY <2>1
  <2>. QED
    BY <1>2, <1>13, <2>1, <2>2, <2>3, <2>4, <2>5
<1>17. ASSUME NEW i \in DOMAIN consoleCalls, DecideReturns(i) PROVE DecisionsInv'
  <2>1. /\ consoleCalls[i].phase = "ok"
        /\ UNCHANGED <<consoleToken, proposalField, rowStatus, decisions>>
    BY <1>17 DEF DecideReturns, At
  <2>2. CASE consoleCalls[i].what[1] \in FactRows
    <3>. DEFINE c == CallWith(consoleToken, "reload", EmptyRow)  n == <<c>>
    <3>1. consoleCalls' = Returned(consoleCalls, i, n) /\ UNCHANGED shownIn
      BY <1>17, <2>2 DEF DecideReturns, Return, Returned, NewCall
    <3>2. "reload" \in CallKinds \ {"user", "decide"}
      BY DEF CallKinds
    <3>3. c \in ConsoleCallRows /\ AwaitedOK(c, rowStatus, decisions)
      BY <1>2, <3>2, NewCallOK, PlainCallOK
    <3>4. n \in Seq(ConsoleCallRows) /\ DOMAIN n = {1} /\ n[1] = c
      BY <3>3, OneCall
    <3>. HIDE DEF n
    <3>5. \A m \in DOMAIN n : AwaitedOK(n[m], rowStatus, decisions)
      BY <3>3, <3>4
    <3>. QED
      BY <1>1, <1>2, <1>13, <2>1, <3>1, <3>4, <3>5
  <2>3. CASE consoleCalls[i].what[1] \notin FactRows
    <3>1. consoleCalls' = Returned(consoleCalls, i, <<>>) /\ ShowAction(i)
      BY <1>17, <2>3 DEF DecideReturns, Return, Returned
    <3>2. shownIn' \in [Panels -> Shown] /\ shownIn'["review"] = shownIn["review"]
      BY <1>14, <3>1
    <3>3. <<>> \in Seq(ConsoleCallRows) /\ \A m \in DOMAIN <<>> : AwaitedOK(<<>>[m], rowStatus, decisions)
      BY EmptySeq
    <3>. QED
      BY <1>1, <1>2, <1>13, <2>1, <3>1, <3>2, <3>3
  <2>. QED
    BY <2>2, <2>3
<1>18. ASSUME NEW i \in DOMAIN consoleCalls, CallThrows(i) PROVE DecisionsInv'
  <2>1. /\ consoleCalls[i].phase = "refused" /\ consoleCalls' = Returned(consoleCalls, i, AfterRead(i))
        /\ UNCHANGED <<consoleToken, shownIn, proposalField, rowStatus, decisions>>
    BY <1>18 DEF CallThrows, Return, Returned
  <2>2. /\ AfterRead(i) \in Seq(ConsoleCallRows)
        /\ \A m \in DOMAIN AfterRead(i) : AwaitedOK(AfterRead(i)[m], rowStatus, decisions)
    BY <1>2, AfterReadOK
  <2>. QED
    BY <1>1, <1>2, <1>13, <2>1, <2>2
<1>19. QED
  BY <1>3, <1>4, <1>5, <1>6, <1>7, <1>8, <1>9, <1>10, <1>11, <1>12, <1>15, <1>16, <1>17, <1>18
     DEF ConsoleNext

-----------------------------------------------------------------------------
(* Console: what will still be shown in a panel.                              *)

FactsAt(status, a) == [k \in 1..FactCount |-> status[FactRow(a, k)]]

\* A read of panel p that shows the facts of account t when it returns.
GoodRead(c, p, t, facts) ==
    /\ PanelOf(c.kind) = p /\ c.token = t /\ ~c.overtaken
    /\ c.phase = "sent" \/ (c.phase = "ok" /\ c.answer = facts)

\* A call after which panel p is loaded again, whatever is shown until then.
WillReload(c, p) ==
    \/ c.kind = "decide" /\ c.what[1] \in FactRows /\ c.phase = "ok"
    \/ p = "dashboard" /\ c.kind = "reload"

CaughtAt(s, k, p, t, facts) ==
    \/ GoodRead(s[k], p, t, facts)
    \/ \E i \in DOMAIN s : i > k /\ GoodRead(s[i], p, t, facts)
    \/ \E i \in DOMAIN s : WillReload(s[i], p)

\* No answer stays in the panel that is not that of t: a good one comes after it.
Caught(s, p, t, facts) ==
    \A k \in DOMAIN s :
      PanelOf(s[k].kind) = p /\ ~s[k].overtaken /\ s[k].phase # "refused" => CaughtAt(s, k, p, t, facts)

Covered(s, p, t, facts) ==
    \E i \in DOMAIN s : GoodRead(s[i], p, t, facts) \/ WillReload(s[i], p)

Loaded == {"review", "dashboard"}

PanelsInv == disturbed = {} =>
    /\ consoleToken = "none" =>
         /\ \A p \in Loaded : shownIn[p] = NothingShown
         /\ \A i \in DOMAIN consoleCalls :
              consoleCalls[i].token = "none" /\ consoleCalls[i].phase # "ok"
    /\ consoleToken # "none" => \A p \in Loaded :
         /\ Caught(consoleCalls, p, consoleToken, FactsAt(rowStatus, consoleToken))
         /\ \/ shownIn[p] = NothingShown
            \/ shownIn[p] = [of |-> consoleToken, facts |-> FactsAt(rowStatus, consoleToken)]
            \/ Covered(consoleCalls, p, consoleToken, FactsAt(rowStatus, consoleToken))

\* Where the calls that stay, and those that come, are when call i has returned.
LEMMA ReturnPlaces ==
    ASSUME NEW S, NEW s \in Seq(S), NEW i \in 1..Len(s), NEW n \in Seq(S)
    PROVE  /\ \A j \in DOMAIN s : j # i =>
                /\ (IF j < i THEN j ELSE j - 1) \in DOMAIN Returned(s, i, n)
                /\ Returned(s, i, n)[IF j < i THEN j ELSE j - 1] = s[j]
           /\ \A m \in DOMAIN n : /\ (Len(s) - 1) + m \in DOMAIN Returned(s, i, n)
                                  /\ Returned(s, i, n)[(Len(s) - 1) + m] = n[m]
           /\ \A k \in DOMAIN Returned(s, i, n) :
                \/ /\ k \in 1..Len(s) - 1
                   /\ \E j \in DOMAIN s : j = (IF k < i THEN k ELSE k + 1) /\ Returned(s, i, n)[k] = s[j]
                \/ \E m \in DOMAIN n : k = (Len(s) - 1) + m /\ Returned(s, i, n)[k] = n[m]
           /\ \A j \in DOMAIN s : j \in Int
           /\ \A m \in DOMAIN n : m \in Int /\ m >= 1
           /\ Len(s) \in Nat
<1>. DEFINE r == Returned(s, i, n)
<1>1. /\ Len(s) \in Nat /\ Len(n) \in Nat /\ i \in 1..Len(s)
      /\ DOMAIN s = 1..Len(s) /\ DOMAIN n = 1..Len(n)
  BY LenProperties
<1>2. /\ DOMAIN r = 1..(Len(s) - 1) + Len(n)
      /\ \A k \in 1..Len(s) - 1 : r[k] = s[IF k < i THEN k ELSE k + 1]
      /\ \A m \in 1..Len(n) : r[(Len(s) - 1) + m] = n[m]
  <2>2. DOMAIN r = 1..(Len(s) - 1) + Len(n)
    BY ReturnElements
  <2>3. \A k \in 1..Len(s) - 1 : r[k] = s[IF k < i THEN k ELSE k + 1]
    BY ReturnElements
  <2>4. \A m \in 1..Len(n) : r[(Len(s) - 1) + m] = n[m]
    BY ReturnElements
  <2>. QED
    BY <2>2, <2>3, <2>4
<1>. HIDE DEF r
<1>3. ASSUME NEW j \in DOMAIN s, j # i
      PROVE  (IF j < i THEN j ELSE j - 1) \in DOMAIN r /\ r[IF j < i THEN j ELSE j - 1] = s[j]
  <2>1. CASE j < i
    <3>1. j \in 1..Len(s) - 1 /\ j \in DOMAIN r
      BY <1>1, <1>2, <2>1
    <3>. QED
      BY <1>2, <2>1, <3>1
  <2>2. CASE ~(j < i)
    <3>1. j - 1 \in 1..Len(s) - 1 /\ j - 1 \in DOMAIN r /\ ~(j - 1 < i) /\ (j - 1) + 1 = j
      BY <1>1, <1>2, <1>3, <2>2
    <3>2. r[j - 1] = s[j]
      BY <1>2, <3>1
    <3>. QED
      BY <2>2, <3>1, <3>2
  <2>. QED
    BY <2>1, <2>2
<1>4. \A m \in DOMAIN n : (Len(s) - 1) + m \in DOMAIN r /\ r[(Len(s) - 1) + m] = n[m]
  BY <1>1, <1>2
<1>5. ASSUME NEW k \in DOMAIN r
      PROVE  \/ /\ k \in 1..Len(s) - 1
                /\ \E j \in DOMAIN s : j = (IF k < i THEN k ELSE k + 1) /\ r[k] = s[j]
             \/ \E m \in DOMAIN n : k = (Len(s) - 1) + m /\ r[k] = n[m]
  <2>1. CASE k <= Len(s) - 1
    <3>. DEFINE j == IF k < i THEN k ELSE k + 1
    <3>1. k \in 1..Len(s) - 1 /\ j \in DOMAIN s
      BY <1>1, <1>2, <2>1
    <3>2. r[k] = s[j]
      BY <1>2, <3>1
    <3>. QED
      BY <3>1, <3>2
  <2>2. CASE ~(k <= Len(s) - 1)
    <3>. DEFINE m == k - (Len(s) - 1)
    <3>1. m \in DOMAIN n /\ k = (Len(s) - 1) + m
      BY <1>1, <1>2, <2>2
    <3>. HIDE DEF m
    <3>. QED
      BY <1>1, <1>2, <3>1
  <2>. QED
    BY <2>1, <2>2
<1>6. /\ \A j \in DOMAIN s : j \in Int
      /\ \A m \in DOMAIN n : m \in Int /\ m >= 1
      /\ Len(s) \in Nat
  BY <1>1
<1>. QED
  BY <1>3, <1>4, <1>5, <1>6 DEF r

LEMMA ReturnCovers ==
    ASSUME NEW S, NEW s \in Seq(S), NEW i \in 1..Len(s), NEW n \in Seq(S), NEW p, NEW t, NEW facts,
           \/ Covered(n, p, t, facts)
           \/ Covered(s, p, t, facts) /\ ~GoodRead(s[i], p, t, facts) /\ ~WillReload(s[i], p)
           \/ \E l \in DOMAIN s : l # i /\ (GoodRead(s[l], p, t, facts) \/ WillReload(s[l], p))
    PROVE  Covered(Returned(s, i, n), p, t, facts)
<1>1. \A j \in DOMAIN s : j # i =>
        \E k \in DOMAIN Returned(s, i, n) : Returned(s, i, n)[k] = s[j]
  BY ReturnPlaces
<1>2. \A m \in DOMAIN n : \E k \in DOMAIN Returned(s, i, n) : Returned(s, i, n)[k] = n[m]
  BY ReturnPlaces
<1>3. CASE Covered(n, p, t, facts)
  <2>1. PICK m \in DOMAIN n : GoodRead(n[m], p, t, facts) \/ WillReload(n[m], p)
    BY <1>3 DEF Covered
  <2>. QED
    BY <1>2, <2>1 DEF Covered
<1>4. ASSUME NEW l \in DOMAIN s, l # i, GoodRead(s[l], p, t, facts) \/ WillReload(s[l], p)
      PROVE  Covered(Returned(s, i, n), p, t, facts)
  BY <1>1, <1>4 DEF Covered
<1>. QED
  BY <1>3, <1>4 DEF Covered

LEMMA ReturnCatches ==
    ASSUME NEW S, NEW s \in Seq(S), NEW i \in 1..Len(s), NEW n \in Seq(S), NEW p, NEW t, NEW facts,
           \A m \in DOMAIN n : GoodRead(n[m], p, t, facts) \/ PanelOf(n[m].kind) # p,
           \/ Covered(n, p, t, facts)
           \/ /\ Caught(s, p, t, facts) /\ ~WillReload(s[i], p)
              /\ \/ ~GoodRead(s[i], p, t, facts)
                 \/ \A k \in DOMAIN s : k < i /\ PanelOf(s[k].kind) = p => s[k].overtaken
    PROVE  Caught(Returned(s, i, n), p, t, facts)
<1>. DEFINE r == Returned(s, i, n)
<1>1. \A j \in DOMAIN s : j # i =>
        /\ (IF j < i THEN j ELSE j - 1) \in DOMAIN r
        /\ r[IF j < i THEN j ELSE j - 1] = s[j]
  BY ReturnPlaces
<1>2. \A m \in DOMAIN n : (Len(s) - 1) + m \in DOMAIN r /\ r[(Len(s) - 1) + m] = n[m]
  BY ReturnPlaces
<1>3. \A k \in DOMAIN r :
        \/ /\ k \in 1..Len(s) - 1
           /\ \E j \in DOMAIN s : j = (IF k < i THEN k ELSE k + 1) /\ r[k] = s[j]
        \/ \E m \in DOMAIN n : k = (Len(s) - 1) + m /\ r[k] = n[m]
  BY ReturnPlaces
<1>4. /\ \A j \in DOMAIN s : j \in Int
      /\ \A m \in DOMAIN n : m \in Int /\ m >= 1
      /\ Len(s) \in Nat
  <2>1. \A j \in DOMAIN s : j \in Int
    BY ReturnPlaces
  <2>2. \A m \in DOMAIN n : m \in Int /\ m >= 1
    BY ReturnPlaces
  <2>3. Len(s) \in Nat
    BY ReturnPlaces
  <2>. QED
    BY <2>1, <2>2, <2>3
<1>. HIDE DEF r
<1>5. ASSUME NEW k \in DOMAIN r,
             PanelOf(r[k].kind) = p, ~r[k].overtaken, r[k].phase # "refused"
      PROVE  CaughtAt(r, k, p, t, facts)
  <2>1. CASE \E m \in DOMAIN n : r[k] = n[m]
    BY <1>5, <2>1 DEF CaughtAt
  <2>2. ASSUME k \in 1..Len(s) - 1, NEW j \in DOMAIN s, j = (IF k < i THEN k ELSE k + 1), r[k] = s[j]
        PROVE  CaughtAt(r, k, p, t, facts)
    <3>1. CASE Covered(n, p, t, facts)
      <4>1. PICK m \in DOMAIN n : GoodRead(n[m], p, t, facts) \/ WillReload(n[m], p)
        BY <3>1 DEF Covered
      <4>. DEFINE l == (Len(s) - 1) + m
      <4>2. l \in DOMAIN r /\ r[l] = n[m]
        BY <1>2
      <4>3. l > k
        BY <1>4, <2>2
      <4>. HIDE DEF l
      <4>. QED
        BY <4>1, <4>2, <4>3 DEF CaughtAt
    <3>2. CASE /\ Caught(s, p, t, facts) /\ ~WillReload(s[i], p)
               /\ \/ ~GoodRead(s[i], p, t, facts)
                  \/ \A q \in DOMAIN s : q < i /\ PanelOf(s[q].kind) = p => s[q].overtaken
      <4>1. CaughtAt(s, j, p, t, facts)
        BY <1>5, <2>2, <3>2 DEF Caught
      <4>2. CASE GoodRead(s[j], p, t, facts)
        BY <2>2, <4>2 DEF CaughtAt
      <4>3. ASSUME NEW l \in DOMAIN s, WillReload(s[l], p) PROVE CaughtAt(r, k, p, t, facts)
        <5>1. l # i
          BY <3>2, <4>3
        <5>2. \E q \in DOMAIN r : r[q] = s[l]
          BY <1>1, <5>1
        <5>. QED
          BY <4>3, <5>2 DEF CaughtAt
      <4>4. ASSUME NEW l \in DOMAIN s, l > j, GoodRead(s[l], p, t, facts)
            PROVE  CaughtAt(r, k, p, t, facts)
        <5>1. l # i
          <6>1. ASSUME l = i PROVE FALSE
            <7>1. j < i /\ s[j].overtaken
              BY <1>4, <1>5, <2>2, <3>2, <4>4, <6>1
            <7>. QED
              BY <1>5, <2>2, <7>1
          <6>. QED
            BY <6>1
        <5>. DEFINE q == IF l < i THEN l ELSE l - 1
        <5>2. q \in DOMAIN r /\ r[q] = s[l]
          BY <1>1, <5>1
        <5>3. q > k
          BY <1>4, <2>2, <4>4, <5>1
        <5>. HIDE DEF q
        <5>. QED
          BY <4>4, <5>2, <5>3 DEF CaughtAt
      <4>. QED
        BY <4>1, <4>2, <4>3, <4>4 DEF CaughtAt
    <3>. QED
      BY <3>1, <3>2
  <2>. QED
    BY <1>3, <2>1, <2>2
<1>. QED
  BY <1>5 DEF Caught, r

\* Calls that are sent for who has the token.
LEMMA ClickCatches ==
    ASSUME NEW S, NEW s \in Seq(S), NEW n \in Seq(S), NEW p, NEW t, NEW facts,
           \A m \in DOMAIN n : GoodRead(n[m], p, t, facts) \/ PanelOf(n[m].kind) # p
    PROVE  /\ Caught(s, p, t, facts) => Caught(s \o n, p, t, facts)
           /\ Covered(s, p, t, facts) => Covered(s \o n, p, t, facts)
<1>. DEFINE r == s \o n
<1>1. Prolongs(r, s, n)
  BY SentProlongs
<1>. HIDE DEF r
<1>3. /\ DOMAIN s \subseteq DOMAIN r /\ \A j \in DOMAIN s : r[j] = s[j]
      /\ \A k \in DOMAIN r : k \in DOMAIN s \/ \E m \in DOMAIN n : r[k] = n[m]
  BY <1>1, Zenon DEF Prolongs
<1>4. ASSUME Caught(s, p, t, facts) PROVE Caught(r, p, t, facts)
  <2>1. ASSUME NEW k \in DOMAIN r,
               PanelOf(r[k].kind) = p, ~r[k].overtaken, r[k].phase # "refused"
        PROVE  CaughtAt(r, k, p, t, facts)
    <3>1. CASE \E m \in DOMAIN n : r[k] = n[m]
      BY <2>1, <3>1 DEF CaughtAt
    <3>2. CASE k \in DOMAIN s
      <4>1. CaughtAt(s, k, p, t, facts)
        BY <1>3, <1>4, <2>1, <3>2 DEF Caught
      <4>. QED
        BY <1>3, <3>2, <4>1 DEF CaughtAt
    <3>. QED
      BY <1>3, <3>1, <3>2
  <2>. QED
    BY <2>1 DEF Caught
<1>5. Covered(s, p, t, facts) => Covered(r, p, t, facts)
  BY <1>3 DEF Covered
<1>. QED
  BY <1>4, <1>5 DEF r

\* Call i is served: what it was sent for it still is, if it was answered for t.
LEMMA ServeCatches ==
    ASSUME NEW s, NEW r, NEW i \in DOMAIN s, DOMAIN r = DOMAIN s,
           \A j \in DOMAIN s : j # i => r[j] = s[j],
           s[i].phase = "sent", r[i].kind = s[i].kind, r[i].overtaken = s[i].overtaken,
           NEW p, NEW t, NEW facts,
           GoodRead(s[i], p, t, facts) => GoodRead(r[i], p, t, facts),
           WillReload(s[i], p) => WillReload(r[i], p)
    PROVE  /\ Caught(s, p, t, facts) => Caught(r, p, t, facts)
           /\ Covered(s, p, t, facts) => Covered(r, p, t, facts)
<1>1. \A j \in DOMAIN s : GoodRead(s[j], p, t, facts) => GoodRead(r[j], p, t, facts)
  <2>1. ASSUME NEW j \in DOMAIN s, GoodRead(s[j], p, t, facts) PROVE GoodRead(r[j], p, t, facts)
    <3>1. CASE j = i
      BY <2>1, <3>1
    <3>2. CASE j # i
      BY <2>1, <3>2
    <3>. QED
      BY <3>1, <3>2
  <2>. QED
    BY <2>1
<1>2. \A j \in DOMAIN s : WillReload(s[j], p) => WillReload(r[j], p)
  <2>1. ASSUME NEW j \in DOMAIN s, WillReload(s[j], p) PROVE WillReload(r[j], p)
    <3>1. CASE j = i
      BY <2>1, <3>1
    <3>2. CASE j # i
      BY <2>1, <3>2
    <3>. QED
      BY <3>1, <3>2
  <2>. QED
    BY <2>1
<1>3. ASSUME Caught(s, p, t, facts), NEW k \in DOMAIN r,
             PanelOf(r[k].kind) = p, ~r[k].overtaken, r[k].phase # "refused"
      PROVE  CaughtAt(r, k, p, t, facts)
  <2>1. PanelOf(s[k].kind) = p /\ ~s[k].overtaken /\ s[k].phase # "refused"
    <3>1. CASE k = i
      BY <1>3, <3>1
    <3>2. CASE k # i
      BY <1>3, <3>2
    <3>. QED
      BY <3>1, <3>2
  <2>2. CaughtAt(s, k, p, t, facts)
    BY <1>3, <2>1 DEF Caught
  <2>. QED
    BY <1>1, <1>2, <2>2 DEF CaughtAt
<1>. QED
  BY <1>1, <1>2, <1>3 DEF Caught, Covered

\* Marking the reads before call i leaves the later ones, and those of other panels.
LEMMA OvertakeCatches ==
    ASSUME ConsoleShape, NEW i \in DOMAIN consoleCalls, IsRead(i),
           NEW p \in Panels, NEW t, NEW facts, Caught(consoleCalls, p, t, facts)
    PROVE  /\ Caught(Overtake(consoleCalls, i), p, t, facts)
           /\ \A j \in DOMAIN consoleCalls :
                j >= i \/ PanelOf(consoleCalls[i].kind) # p =>
                  (GoodRead(Overtake(consoleCalls, i)[j], p, t, facts)
                     <=> GoodRead(consoleCalls[j], p, t, facts))
           /\ \A j \in DOMAIN consoleCalls :
                WillReload(Overtake(consoleCalls, i)[j], p) <=> WillReload(consoleCalls[j], p)
           /\ PanelOf(consoleCalls[i].kind) = p =>
                \A j \in DOMAIN consoleCalls :
                  j < i /\ PanelOf(Overtake(consoleCalls, i)[j].kind) = p =>
                    Overtake(consoleCalls, i)[j].overtaken
<1>. DEFINE s == Overtake(consoleCalls, i)
<1>1. DOMAIN s = DOMAIN consoleCalls
  BY OvertakeKeeps
<1>2. \A j \in DOMAIN consoleCalls :
         /\ s[j].kind = consoleCalls[j].kind /\ s[j].what = consoleCalls[j].what
         /\ s[j].token = consoleCalls[j].token /\ s[j].phase = consoleCalls[j].phase
         /\ s[j].answer = consoleCalls[j].answer
  BY OvertakeKeeps, ZenonT(60)
<1>3. \A j \in DOMAIN consoleCalls :
         s[j].overtaken = (\/ consoleCalls[j].overtaken
                           \/ /\ j < i /\ IsRead(j)
                              /\ PanelOf(consoleCalls[j].kind) = PanelOf(consoleCalls[i].kind))
  BY OvertakeKeeps
<1>4. \A j \in DOMAIN consoleCalls : j \in Int
  BY CallsThere
<1>. HIDE DEF s
<1>5. ASSUME NEW j \in DOMAIN consoleCalls, j >= i \/ PanelOf(consoleCalls[i].kind) # p
      PROVE  GoodRead(s[j], p, t, facts) <=> GoodRead(consoleCalls[j], p, t, facts)
  <2>. DEFINE behind == /\ j < i /\ IsRead(j)
                        /\ PanelOf(consoleCalls[j].kind) = PanelOf(consoleCalls[i].kind)
  <2>2. s[j].overtaken = (consoleCalls[j].overtaken \/ behind)
    BY <1>3
  <2>3. PanelOf(consoleCalls[j].kind) = p => ~behind
    BY <1>4, <1>5
  <2>. HIDE DEF behind
  <2>1. PanelOf(consoleCalls[j].kind) = p => (s[j].overtaken <=> consoleCalls[j].overtaken)
    BY <2>2, <2>3
  <2>. QED
    BY <1>2, <2>1 DEF GoodRead
<1>6. \A j \in DOMAIN consoleCalls : WillReload(s[j], p) <=> WillReload(consoleCalls[j], p)
  BY <1>2 DEF WillReload
<1>7. ASSUME PanelOf(consoleCalls[i].kind) = p, NEW j \in DOMAIN consoleCalls, j < i,
             PanelOf(s[j].kind) = p
      PROVE  s[j].overtaken
  <2>1. IsRead(j)
    BY <1>2, <1>7 DEF IsRead
  <2>. QED
    BY <1>2, <1>3, <1>7, <2>1
<1>8. ASSUME NEW k \in DOMAIN s, PanelOf(s[k].kind) = p, ~s[k].overtaken, s[k].phase # "refused"
      PROVE  CaughtAt(s, k, p, t, facts)
  <2>1. ~(PanelOf(consoleCalls[i].kind) = p /\ k < i)
    BY <1>1, <1>7, <1>8
  <2>2. ~consoleCalls[k].overtaken
    BY <1>1, <1>3, <1>8
  <2>3. CaughtAt(consoleCalls, k, p, t, facts)
    BY <1>1, <1>2, <1>8, <2>2 DEF Caught
  <2>4. \A j \in DOMAIN consoleCalls : j >= k => j >= i \/ PanelOf(consoleCalls[i].kind) # p
    BY <1>1, <1>4, <2>1
  <2>5. CASE GoodRead(consoleCalls[k], p, t, facts)
    <3>1. GoodRead(s[k], p, t, facts)
      BY <1>1, <1>4, <1>5, <2>4, <2>5
    <3>. QED
      BY <3>1 DEF CaughtAt
  <2>6. ASSUME NEW j \in DOMAIN consoleCalls, j > k, GoodRead(consoleCalls[j], p, t, facts)
        PROVE  CaughtAt(s, k, p, t, facts)
    <3>1. j >= k
      BY <1>1, <1>4, <2>6
    <3>2. GoodRead(s[j], p, t, facts)
      BY <1>5, <2>4, <2>6, <3>1
    <3>. QED
      BY <1>1, <2>6, <3>2 DEF CaughtAt
  <2>7. ASSUME NEW j \in DOMAIN consoleCalls, WillReload(consoleCalls[j], p)
        PROVE  CaughtAt(s, k, p, t, facts)
    BY <1>1, <1>6, <2>7 DEF CaughtAt
  <2>. QED
    BY <2>3, <2>5, <2>6, <2>7 DEF CaughtAt
<1>9. Caught(s, p, t, facts)
  BY <1>8 DEF Caught
<1>. QED
  BY <1>5, <1>6, <1>7, <1>9 DEF s

LEMMA LoadedPanels ==
    /\ Loaded \subseteq Panels /\ \A p \in Loaded : p = "review" \/ p = "dashboard"
    /\ PanelOf("review") = "review" /\ PanelOf("dashboard") = "dashboard"
    /\ PanelOf("reload") = "review" /\ PanelOf("user") \notin Panels
    /\ PanelOf("create") \notin Panels /\ PanelOf("decide") \notin Panels
    /\ PanelOf("actions") \notin Loaded
BY DEF Loaded, Panels, PanelOf

\* A call sent for t is a good read of what it reads.
LEMMA SentIsGood ==
    ASSUME NEW t, NEW kind, NEW what, NEW p, NEW facts
    PROVE  GoodRead(CallWith(t, kind, what), p, t, facts) <=> PanelOf(kind) = p
BY DEF GoodRead, CallWith

\* Calls are sent, and nothing else happens.
LEMMA QuietKeepsPanels ==
    ASSUME ConsoleShape, PanelsInv, NEW n \in Seq(ConsoleCallRows),
           consoleCalls' = consoleCalls \o n,
           UNCHANGED <<consoleToken, shownIn, rowStatus, disturbed>>,
           \A m \in DOMAIN n : \E kind \in CallKinds : \E what :
             n[m] = CallWith(consoleToken, kind, what)
    PROVE  PanelsInv'
<1>1. SUFFICES ASSUME disturbed = {} PROVE PanelsInv'
  BY DEF PanelsInv
<1>2. consoleCalls \in Seq(ConsoleCallRows)
  BY DEF ConsoleShape
<1>3. ASSUME consoleToken = "none", NEW k \in DOMAIN consoleCalls'
      PROVE  consoleCalls'[k].token = "none" /\ consoleCalls'[k].phase # "ok"
  <2>0. Prolongs(consoleCalls \o n, consoleCalls, n)
    BY <1>2, SentProlongs
  <2>1. \A j \in DOMAIN consoleCalls : (consoleCalls \o n)[j] = consoleCalls[j]
    BY <2>0, Zenon DEF Prolongs
  <2>2. k \in DOMAIN consoleCalls \/ \E m \in DOMAIN n : (consoleCalls \o n)[k] = n[m]
    BY <1>3, <2>0, Zenon DEF Prolongs
  <2>3. CASE k \in DOMAIN consoleCalls
    BY <1>1, <1>3, <2>1, <2>3 DEF PanelsInv
  <2>4. ASSUME NEW m \in DOMAIN n, (consoleCalls \o n)[k] = n[m]
        PROVE  consoleCalls'[k].token = "none" /\ consoleCalls'[k].phase # "ok"
    <3>1. n[m].token = consoleToken /\ n[m].phase = "sent"
      BY DEF CallWith
    <3>. QED
      BY <1>3, <2>4, <3>1
  <2>. QED
    BY <2>2, <2>3, <2>4
<1>4. ASSUME NEW p \in Loaded, NEW t, NEW facts, t = consoleToken
      PROVE  /\ Caught(consoleCalls, p, t, facts) => Caught(consoleCalls', p, t, facts)
             /\ Covered(consoleCalls, p, t, facts) => Covered(consoleCalls', p, t, facts)
  <2>1. \A m \in DOMAIN n : GoodRead(n[m], p, t, facts) \/ PanelOf(n[m].kind) # p
    <3>1. ASSUME NEW m \in DOMAIN n PROVE GoodRead(n[m], p, t, facts) \/ PanelOf(n[m].kind) # p
      <4>1. PICK kind \in CallKinds : \E what : n[m] = CallWith(t, kind, what)
        BY <1>4
      <4>3. PICK what : n[m] = CallWith(t, kind, what)
        BY <4>1
      <4>2. n[m].kind = kind
        BY <4>3 DEF CallWith
      <4>. QED
        BY <4>2, <4>3, SentIsGood
    <3>. QED
      BY <3>1
  <2>2. Caught(consoleCalls, p, t, facts) => Caught(consoleCalls \o n, p, t, facts)
    BY <1>2, <2>1, ClickCatches
  <2>3. Covered(consoleCalls, p, t, facts) => Covered(consoleCalls \o n, p, t, facts)
    BY <1>2, <2>1, ClickCatches
  <2>. QED
    BY <2>2, <2>3
<1>5. \A p \in Loaded : LET t == consoleToken  f == FactsAt(rowStatus, consoleToken) IN
        /\ Caught(consoleCalls, p, t, f) => Caught(consoleCalls', p, t, f)
        /\ Covered(consoleCalls, p, t, f) => Covered(consoleCalls', p, t, f)
  BY <1>4
<1>. QED
  BY <1>1, <1>3, <1>5 DEF PanelsInv

\* A call returns that changes neither of the loaded panels.
LEMMA ReturnKeepsPanels ==
    ASSUME ConsoleShape, PanelsInv, NEW i \in DOMAIN consoleCalls, NEW n \in Seq(ConsoleCallRows),
           consoleCalls' = Returned(consoleCalls, i, n),
           UNCHANGED <<consoleToken, rowStatus, disturbed>>,
           \A p \in Loaded : shownIn'[p] = shownIn[p],
           \A m \in DOMAIN n : \E kind \in CallKinds : \E what :
             n[m] = CallWith(consoleToken, kind, what),
           \A p \in Loaded :
             \/ \E m \in DOMAIN n : \E kind \in CallKinds : \E what :
                  n[m] = CallWith(consoleToken, kind, what) /\ PanelOf(kind) = p
             \/ /\ PanelOf(consoleCalls[i].kind) # p \/ consoleCalls[i].phase = "refused"
                /\ ~WillReload(consoleCalls[i], p)
    PROVE  PanelsInv'
<1>1. SUFFICES ASSUME disturbed = {} PROVE PanelsInv'
  BY DEF PanelsInv
<1>2. consoleCalls \in Seq(ConsoleCallRows) /\ i \in 1..Len(consoleCalls)
  BY CallsThere DEF ConsoleShape
<1>3. ASSUME consoleToken = "none", NEW k \in DOMAIN consoleCalls'
      PROVE  consoleCalls'[k].token = "none" /\ consoleCalls'[k].phase # "ok"
  <2>1. \/ \E j \in DOMAIN consoleCalls : j # i /\ Returned(consoleCalls, i, n)[k] = consoleCalls[j]
        \/ \E m \in DOMAIN n : Returned(consoleCalls, i, n)[k] = n[m]
    BY <1>2, <1>3, ReturnKeeps
  <2>2. ASSUME NEW j \in DOMAIN consoleCalls, consoleCalls'[k] = consoleCalls[j]
        PROVE  consoleCalls'[k].token = "none" /\ consoleCalls'[k].phase # "ok"
    BY <1>1, <1>3, <2>2 DEF PanelsInv
  <2>3. ASSUME NEW m \in DOMAIN n, consoleCalls'[k] = n[m]
        PROVE  consoleCalls'[k].token = "none" /\ consoleCalls'[k].phase # "ok"
    <3>1. n[m].token = consoleToken /\ n[m].phase = "sent"
      BY DEF CallWith
    <3>. QED
      BY <1>3, <2>3, <3>1
  <2>. QED
    BY <2>1, <2>2, <2>3
<1>4. ASSUME NEW p \in Loaded, NEW t, NEW facts, t = consoleToken, Caught(consoleCalls, p, t, facts)
      PROVE  /\ Caught(consoleCalls', p, t, facts)
             /\ Covered(consoleCalls, p, t, facts) => Covered(consoleCalls', p, t, facts)
  <2>1. \A m \in DOMAIN n : GoodRead(n[m], p, t, facts) \/ PanelOf(n[m].kind) # p
    <3>1. ASSUME NEW m \in DOMAIN n PROVE GoodRead(n[m], p, t, facts) \/ PanelOf(n[m].kind) # p
      <4>1. PICK kind \in CallKinds : \E what : n[m] = CallWith(t, kind, what)
        BY <1>4
      <4>3. PICK what : n[m] = CallWith(t, kind, what)
        BY <4>1
      <4>2. n[m].kind = kind
        BY <4>3 DEF CallWith
      <4>. QED
        BY <4>2, <4>3, SentIsGood
    <3>. QED
      BY <3>1
  <2>2. \/ Covered(n, p, t, facts)
        \/ ~GoodRead(consoleCalls[i], p, t, facts) /\ ~WillReload(consoleCalls[i], p)
    <3>1. ASSUME NEW m \in DOMAIN n, NEW what, NEW kind \in CallKinds,
                 n[m] = CallWith(consoleToken, kind, what), PanelOf(kind) = p
          PROVE  Covered(n, p, t, facts)
      <4>1. GoodRead(CallWith(t, kind, what), p, t, facts)
        BY <3>1, SentIsGood
      <4>2. GoodRead(n[m], p, t, facts)
        BY <1>4, <3>1, <4>1
      <4>. QED
        BY <4>2 DEF Covered
    <3>2. ASSUME PanelOf(consoleCalls[i].kind) # p \/ consoleCalls[i].phase = "refused"
          PROVE  ~GoodRead(consoleCalls[i], p, t, facts)
      BY <3>2 DEF GoodRead
    <3>. QED
      BY <3>1, <3>2
  <2>3. Caught(Returned(consoleCalls, i, n), p, t, facts)
    BY <1>2, <1>4, <2>1, <2>2, ReturnCatches
  <2>4. ASSUME Covered(consoleCalls, p, t, facts)
        PROVE  Covered(Returned(consoleCalls, i, n), p, t, facts)
    BY <1>2, <2>2, <2>4, ReturnCovers
  <2>. QED
    BY <2>3, <2>4
<1>5. \A p \in Loaded : LET t == consoleToken  f == FactsAt(rowStatus, consoleToken) IN
        Caught(consoleCalls, p, t, f) =>
          /\ Caught(consoleCalls', p, t, f)
          /\ Covered(consoleCalls, p, t, f) => Covered(consoleCalls', p, t, f)
  BY <1>4
<1>. QED
  BY <1>1, <1>3, <1>5 DEF PanelsInv

\* A call is served that changes nothing of what is shown, or is loaded again.
LEMMA ServeKeepsPanels ==
    ASSUME ConsoleShape, PanelsInv, NEW i \in DOMAIN consoleCalls, NEW ok \in BOOLEAN,
           NEW answer \in Seq(RowStates) \cup ConsoleRows \cup {EmptyRow}, Serve(i, ok, answer),
           consoleToken = "none" /\ consoleCalls[i].token = "none" => ~ok,
           consoleToken # "none" => \A p \in Loaded :
             \/ WillReload(consoleCalls'[i], p)
             \/ /\ FactsAt(rowStatus', consoleToken) = FactsAt(rowStatus, consoleToken)
                /\ GoodRead(consoleCalls[i], p, consoleToken, FactsAt(rowStatus, consoleToken)) =>
                     GoodRead(consoleCalls'[i], p, consoleToken, FactsAt(rowStatus, consoleToken))
                /\ WillReload(consoleCalls[i], p) => WillReload(consoleCalls'[i], p)
    PROVE  PanelsInv'
<1>1. SUFFICES ASSUME disturbed = {} PROVE PanelsInv'
  BY DEF PanelsInv, Serve
<1>2. DOMAIN consoleCalls' = DOMAIN consoleCalls
  BY ServeKeeps
<1>3. \A j \in DOMAIN consoleCalls : j # i => consoleCalls'[j] = consoleCalls[j]
  BY ServeKeeps
<1>4. /\ consoleCalls[i].phase = "sent"
      /\ UNCHANGED <<consoleToken, shownIn, proposalField, decisions, disturbed>>
  BY DEF Serve
<1>5. /\ consoleCalls'[i].kind = consoleCalls[i].kind
      /\ consoleCalls'[i].token = consoleCalls[i].token
      /\ consoleCalls'[i].overtaken = consoleCalls[i].overtaken
      /\ consoleCalls'[i].phase = IF ok THEN "ok" ELSE "refused"
  <2>1. consoleCalls'[i] = [kind |-> consoleCalls[i].kind, what |-> consoleCalls[i].what,
                            token |-> consoleCalls[i].token,
                            phase |-> IF ok THEN "ok" ELSE "refused", answer |-> answer,
                            overtaken |-> consoleCalls[i].overtaken]
    BY ServeKeeps
  <2>. QED
    BY <2>1
<1>6. ASSUME consoleToken = "none", NEW k \in DOMAIN consoleCalls'
      PROVE  consoleCalls'[k].token = "none" /\ consoleCalls'[k].phase # "ok"
  <2>1. CASE k = i
    BY <1>1, <1>5, <1>6, <2>1 DEF PanelsInv
  <2>2. CASE k # i
    BY <1>1, <1>2, <1>3, <1>6, <2>2 DEF PanelsInv
  <2>. QED
    BY <2>1, <2>2
<1>7. ASSUME consoleToken # "none", NEW p \in Loaded, NEW f, f = FactsAt(rowStatus', consoleToken)
      PROVE  /\ Caught(consoleCalls', p, consoleToken, f)
             /\ \/ shownIn[p] = NothingShown
                \/ shownIn[p] = [of |-> consoleToken, facts |-> f]
                \/ Covered(consoleCalls', p, consoleToken, f)
  <2>1. CASE WillReload(consoleCalls'[i], p)
    BY <1>2, <2>1 DEF Caught, CaughtAt, Covered
  <2>2. CASE ~WillReload(consoleCalls'[i], p)
    <3>1. /\ f = FactsAt(rowStatus, consoleToken)
          /\ GoodRead(consoleCalls[i], p, consoleToken, f) =>
               GoodRead(consoleCalls'[i], p, consoleToken, f)
          /\ WillReload(consoleCalls[i], p) => WillReload(consoleCalls'[i], p)
      BY <1>7, <2>2
    <3>2. /\ Caught(consoleCalls, p, consoleToken, f)
          /\ \/ shownIn[p] = NothingShown
             \/ shownIn[p] = [of |-> consoleToken, facts |-> f]
             \/ Covered(consoleCalls, p, consoleToken, f)
      BY <1>1, <1>7, <3>1 DEF PanelsInv
    <3>3. Caught(consoleCalls, p, consoleToken, f) => Caught(consoleCalls', p, consoleToken, f)
      BY <1>2, <1>3, <1>4, <1>5, <3>1, ServeCatches
    <3>4. Covered(consoleCalls, p, consoleToken, f) => Covered(consoleCalls', p, consoleToken, f)
      BY <1>2, <1>3, <1>4, <1>5, <3>1, ServeCatches
    <3>. QED
      BY <3>2, <3>3, <3>4
  <2>. QED
    BY <2>1, <2>2
<1>8. consoleToken # "none" => \A p \in Loaded :
        LET f == FactsAt(rowStatus', consoleToken) IN
        /\ Caught(consoleCalls', p, consoleToken, f)
        /\ \/ shownIn[p] = NothingShown
           \/ shownIn[p] = [of |-> consoleToken, facts |-> f]
           \/ Covered(consoleCalls', p, consoleToken, f)
  BY <1>7
<1>. QED
  BY <1>1, <1>4, <1>6, <1>8 DEF PanelsInv

\* What a read leaves of panel p when it returns, of which it is or is not.
LEMMA ReadReturnLeaves ==
    ASSUME DecisionsInv, NEW i \in DOMAIN consoleCalls, IsRead(i),
           consoleCalls[i].phase = "ok", ~consoleCalls[i].overtaken,
           NEW p \in Loaded, NEW f, NEW shown, Caught(consoleCalls, p, consoleToken, f),
           \/ shown = NothingShown
           \/ shown = [of |-> consoleToken, facts |-> f]
           \/ Covered(consoleCalls, p, consoleToken, f),
           NEW after, after = IF PanelOf(consoleCalls[i].kind) = p
                              THEN [of |-> consoleCalls[i].token, facts |-> consoleCalls[i].answer]
                              ELSE shown
    PROVE  LET r == Returned(Overtake(consoleCalls, i), i, AfterRead(i)) IN
           /\ Caught(r, p, consoleToken, f)
           /\ \/ after = NothingShown
              \/ after = [of |-> consoleToken, facts |-> f]
              \/ Covered(r, p, consoleToken, f)
<1>. DEFINE s == Overtake(consoleCalls, i)  n == AfterRead(i)  t == consoleToken
            c == consoleCalls[i]
<1>1. /\ ConsoleShape /\ p \in Panels /\ t \in ConsoleAccounts \cup {"none"}
      /\ i \in 1..Len(consoleCalls) /\ c \in ConsoleCallRows
  BY CallsThere, LoadedPanels DEF DecisionsInv, ConsoleShape
<1>2. s \in Seq(ConsoleCallRows) /\ DOMAIN s = DOMAIN consoleCalls
  BY <1>1, OvertakeKeeps
<1>3. \A j \in DOMAIN consoleCalls :
        /\ s[j].kind = consoleCalls[j].kind /\ s[j].what = consoleCalls[j].what
        /\ s[j].token = consoleCalls[j].token /\ s[j].phase = consoleCalls[j].phase
        /\ s[j].answer = consoleCalls[j].answer
  BY <1>1, OvertakeKeeps
<1>4. Caught(s, p, t, f)
  BY <1>1, OvertakeCatches
<1>5. \A j \in DOMAIN consoleCalls :
        j >= i \/ PanelOf(c.kind) # p =>
          (GoodRead(s[j], p, t, f) <=> GoodRead(consoleCalls[j], p, t, f))
  BY <1>1, OvertakeCatches
<1>6. \A j \in DOMAIN consoleCalls : WillReload(s[j], p) <=> WillReload(consoleCalls[j], p)
  BY <1>1, OvertakeCatches
<1>7. ASSUME PanelOf(c.kind) = p, NEW j \in DOMAIN consoleCalls, j < i, PanelOf(s[j].kind) = p
      PROVE  s[j].overtaken
  BY <1>1, <1>7, OvertakeCatches
<1>8. n \in Seq(ConsoleCallRows)
  BY <1>1, AfterReadOK
<1>9. \A m \in DOMAIN n : c.kind = "reload" /\ n[m] = CallWith(t, "dashboard", EmptyRow)
  BY <1>1, AfterReadOK
<1>10. c.kind = "reload" => 1 \in DOMAIN n
  BY <1>1, AfterReadOK
<1>11. i \in 1..Len(s) /\ \A j \in DOMAIN consoleCalls : j \in Int
  BY <1>1, <1>2, CallsThere, LenProperties
<1>. HIDE DEF s, n
<1>12. CallWith(t, "dashboard", EmptyRow).kind = "dashboard"
  BY DEF CallWith
<1>13. \A m \in DOMAIN n : GoodRead(n[m], p, t, f) \/ PanelOf(n[m].kind) # p
  <2>1. GoodRead(CallWith(t, "dashboard", EmptyRow), p, t, f) <=> PanelOf("dashboard") = p
    BY SentIsGood
  <2>. QED
    BY <1>9, <1>12, <2>1
<1>14. c.kind # "decide"
  BY LoadedPanels DEF IsRead
<1>15. CASE PanelOf(c.kind) = p
  <2>1. ~WillReload(c, p)
    BY <1>14, <1>15, LoadedPanels DEF WillReload
  <2>2. ~WillReload(s[i], p)
    BY <1>6, <2>1
  <2>3. \A k \in DOMAIN s : k < i /\ PanelOf(s[k].kind) = p => s[k].overtaken
    BY <1>2, <1>7, <1>15
  <2>4. Caught(Returned(s, i, n), p, t, f)
    BY <1>2, <1>4, <1>8, <1>11, <1>13, <2>2, <2>3, ReturnCatches
  <2>5. CASE GoodRead(c, p, t, f)
    <3>1. after = [of |-> t, facts |-> f]
      BY <1>15, <2>5 DEF GoodRead
    <3>. QED
      BY <2>4, <3>1 DEF s, n
  <2>6. CASE ~GoodRead(c, p, t, f)
    <3>1. CaughtAt(consoleCalls, i, p, t, f)
      BY <1>15 DEF Caught
    <3>2. \E l \in DOMAIN s : l # i /\ (GoodRead(s[l], p, t, f) \/ WillReload(s[l], p))
      <4>1. ASSUME NEW l \in DOMAIN consoleCalls, l > i, GoodRead(consoleCalls[l], p, t, f)
            PROVE  GoodRead(s[l], p, t, f) /\ l # i
        BY <1>5, <1>11, <4>1
      <4>2. ASSUME NEW l \in DOMAIN consoleCalls, WillReload(consoleCalls[l], p)
            PROVE  WillReload(s[l], p) /\ l # i
        BY <1>6, <2>1, <4>2
      <4>. QED
        BY <1>2, <2>6, <3>1, <4>1, <4>2 DEF CaughtAt
    <3>3. Covered(Returned(s, i, n), p, t, f)
      BY <1>2, <1>8, <1>11, <3>2, ReturnCovers
    <3>. QED
      BY <2>4, <3>3 DEF s, n
  <2>. QED
    BY <2>5, <2>6
<1>16. CASE PanelOf(c.kind) # p
  <2>1. after = shown
    BY <1>16
  <2>2. ~GoodRead(s[i], p, t, f)
    BY <1>3, <1>16 DEF GoodRead
  <2>3. Covered(n, p, t, f) \/ ~WillReload(s[i], p)
    <3>1. CASE c.kind = "reload"
      <4>1. p = "dashboard"
        BY <1>16, <3>1, LoadedPanels
      <4>2. GoodRead(CallWith(t, "dashboard", EmptyRow), p, t, f)
        BY <4>1, SentIsGood, LoadedPanels
      <4>3. 1 \in DOMAIN n /\ n[1] = CallWith(t, "dashboard", EmptyRow)
        BY <1>9, <1>10, <3>1
      <4>. QED
        BY <4>2, <4>3 DEF Covered
    <3>2. CASE c.kind # "reload"
      <4>1. ~WillReload(c, p)
        BY <1>14, <3>2 DEF WillReload
      <4>. QED
        BY <1>6, <4>1
    <3>. QED
      BY <3>1, <3>2
  <2>4. Caught(Returned(s, i, n), p, t, f)
    BY <1>2, <1>4, <1>8, <1>11, <1>13, <2>2, <2>3, ReturnCatches
  <2>5. Covered(consoleCalls, p, t, f) => Covered(s, p, t, f)
    BY <1>2, <1>5, <1>6, <1>16 DEF Covered
  <2>6. Covered(consoleCalls, p, t, f) => Covered(Returned(s, i, n), p, t, f)
    <3>1. ASSUME Covered(s, p, t, f) PROVE Covered(Returned(s, i, n), p, t, f)
      BY <1>2, <1>8, <1>11, <2>2, <2>3, <3>1, ReturnCovers
    <3>. QED
      BY <2>5, <3>1
  <2>. QED
    BY <2>1, <2>4, <2>6 DEF s, n
<1>. QED
  BY <1>15, <1>16

LEMMA PanelsStepKeeps ==
    ASSUME DecisionsInv, PanelsInv, ConsoleNext
    PROVE  PanelsInv'
<1>. USE ConsoleAssumption
<1>1. /\ ConsoleShape
      /\ \A j \in DOMAIN consoleCalls : AwaitedOK(consoleCalls[j], rowStatus, decisions)
      /\ shownIn["review"].of = "none" => shownIn["review"].facts = <<>>
  BY DEF DecisionsInv
<1>2. /\ consoleToken \in ConsoleAccounts \cup {"none"} /\ shownIn \in [Panels -> Shown]
      /\ proposalField \in ProposalRows \cup {EmptyRow} /\ rowStatus \in [ConsoleRows -> RowStates]
      /\ consoleCalls \in Seq(ConsoleCallRows)
      /\ \A j \in DOMAIN consoleCalls : consoleCalls[j] \in ConsoleCallRows
  BY <1>1, CallsThere DEF ConsoleShape
<1>3. ASSUME NEW a, TypeToken(a) PROVE PanelsInv'
  <2>1. disturbed' # {}
    BY <1>3 DEF TypeToken
  <2>. QED
    BY <2>1 DEF PanelsInv
\* A click that sends one call.
<1>4. ASSUME NEW kind \in CallKinds, NEW what,
             CallWith(consoleToken, kind, what) \in ConsoleCallRows,
             ClickSends(<<CallWith(consoleToken, kind, what)>>)
      PROVE  PanelsInv'
  <2>. DEFINE c == CallWith(consoleToken, kind, what)  n == <<c>>
  <2>1. /\ consoleCalls' = consoleCalls \o n
        /\ UNCHANGED <<consoleToken, shownIn, rowStatus, disturbed>>
    BY <1>4 DEF ClickSends, Click
  <2>2. n \in Seq(ConsoleCallRows) /\ DOMAIN n = {1} /\ n[1] = c
    BY <1>4, OneCall
  <2>. HIDE DEF n
  <2>3. \A m \in DOMAIN n : \E k \in CallKinds : \E w : n[m] = CallWith(consoleToken, k, w)
    BY <2>2
  <2>. QED
    BY <1>1, <2>1, <2>2, <2>3, QuietKeepsPanels
<1>5. ASSUME NEW p \in Panels, Ask(p) PROVE PanelsInv'
  <2>1. p \in CallKinds
    BY DEF Panels, CallKinds
  <2>2. CallWith(consoleToken, p, EmptyRow) \in ConsoleCallRows
    BY <1>2, <2>1, NewCallOK
  <2>3. ClickSends(<<CallWith(consoleToken, p, EmptyRow)>>)
    BY <1>5 DEF Ask, NewCall
  <2>. QED
    BY <1>4, <2>1, <2>2, <2>3
<1>6. ASSUME NEW a \in ConsoleAccounts, CreateDevUser(a) PROVE PanelsInv'
  <2>1. "user" \in CallKinds
    BY DEF CallKinds
  <2>2. CallWith(consoleToken, "user", a) \in ConsoleCallRows
    BY <1>2, <2>1, NewCallOK
  <2>3. ClickSends(<<CallWith(consoleToken, "user", a)>>)
    BY <1>6 DEF CreateDevUser, NewCall
  <2>. QED
    BY <1>4, <2>1, <2>2, <2>3
<1>7. ASSUME CreateProposal PROVE PanelsInv'
  <2>1. "create" \in CallKinds
    BY DEF CallKinds
  <2>2. CallWith(consoleToken, "create", EmptyRow) \in ConsoleCallRows
    BY <1>2, <2>1, NewCallOK
  <2>3. ClickSends(<<CallWith(consoleToken, "create", EmptyRow)>>)
    BY <1>7 DEF CreateProposal, NewCall
  <2>. QED
    BY <1>4, <2>1, <2>2, <2>3
<1>8. ASSUME NEW s \in {"approved", "rejected"}, DecideProposal(s) PROVE PanelsInv'
  <2>1. "decide" \in CallKinds /\ <<proposalField, s>> \in ConsoleRows \X DecisionKinds
    BY <1>2, <1>8 DEF DecideProposal, CallKinds, ConsoleRows, DecisionKinds
  <2>2. CallWith(consoleToken, "decide", <<proposalField, s>>) \in ConsoleCallRows
    BY <1>2, <2>1, NewCallOK
  <2>3. ClickSends(<<CallWith(consoleToken, "decide", <<proposalField, s>>)>>)
    BY <1>8 DEF DecideProposal, NewCall
  <2>. QED
    BY <1>4, <2>1, <2>2, <2>3
<1>9. ASSUME NEW k \in 1..FactCount, NEW s \in {"confirmed", "rejected"}, DecideFact(k, s)
      PROVE  PanelsInv'
  <2>. DEFINE row == FactRow(shownIn["review"].of, k)
              c == CallWith(consoleToken, "decide", <<row, s>>)
              n == [m \in 1..Renderings |-> c]
  <2>1. shownIn["review"].of \in ConsoleAccounts
    <3>1. shownIn["review"] \in Shown
      BY <1>2 DEF Panels
    <3>2. k \in DOMAIN shownIn["review"].facts
      BY <1>9 DEF DecideFact
    <3>3. CASE shownIn["review"].of = "none"
      BY <1>1, <3>2, <3>3
    <3>. QED
      BY <3>1, <3>3 DEF Shown
  <2>2. row \in FactRows
    BY <2>1, RowsApart
  <2>3. /\ consoleCalls' = consoleCalls \o n
        /\ UNCHANGED <<consoleToken, shownIn, rowStatus, disturbed>>
    BY <1>9 DEF DecideFact, ClickSends, Click, NewCall
  <2>4. "decide" \in CallKinds /\ <<row, s>> \in ConsoleRows \X DecisionKinds
    BY <2>2 DEF CallKinds, ConsoleRows, DecisionKinds
  <2>. HIDE DEF row
  <2>5. c \in ConsoleCallRows
    BY <1>2, <2>4, NewCallOK
  <2>. DEFINE y == c
  <2>6. n = [m \in 1..Renderings |-> y] /\ y = CallWith(consoleToken, "decide", <<row, s>>)
    OBVIOUS
  <2>. HIDE DEF c, y, n
  <2>7. n \in Seq(ConsoleCallRows) /\ \A m \in DOMAIN n : n[m] = y
    <3>1. /\ DOMAIN n = 1..Renderings /\ \A m \in 1..Renderings : n[m] = y
          /\ Renderings \in Nat
      BY <2>6
    <3>2. n \in [1..Renderings -> ConsoleCallRows]
      BY <2>5, <2>6 DEF y
    <3>. QED
      BY <3>1, <3>2, SeqDef
  <2>8. \A m \in DOMAIN n : \E w \in CallKinds : \E x : n[m] = CallWith(consoleToken, w, x)
    BY <2>4, <2>6, <2>7
  <2>. QED
    BY <1>1, <2>3, <2>7, <2>8, QuietKeepsPanels
<1>10. ASSUME NEW i \in DOMAIN consoleCalls, ServeRead(i) PROVE PanelsInv'
  <2>. DEFINE c == consoleCalls[i]  ok == c.token # "none"  t == consoleToken
              answer == IF c.token = "none" \/ c.kind = "actions" THEN <<>> ELSE FactsOf(c.token)
  <2>1. Serve(i, ok, answer) /\ UNCHANGED rowStatus /\ PanelOf(c.kind) \in Panels
    BY <1>10 DEF ServeRead, IsRead
  <2>2. c.token \in ConsoleAccounts \cup {"none"} /\ c.kind # "decide"
    BY <1>2, <2>1, LoadedPanels DEF ConsoleCallRows
  <2>3. answer \in Seq(RowStates) /\ ok \in BOOLEAN
    BY <1>1, <2>2, FactsAreStates, EmptySeq
  <2>4. /\ c.token # "none" /\ c.kind # "actions" => answer = FactsAt(rowStatus, c.token)
        /\ c.token = "none" => ~ok
        /\ c.token # "none" => ok
    BY DEF FactsOf, FactsAt
  <2>. HIDE DEF answer, ok
  <2>5. consoleCalls'[i] = [kind |-> c.kind, what |-> c.what, token |-> c.token,
                            phase |-> IF ok THEN "ok" ELSE "refused", answer |-> answer,
                            overtaken |-> c.overtaken]
    BY <1>1, <2>1, <2>3, ServeKeeps
  <2>6. ASSUME consoleToken # "none", NEW p \in Loaded
        PROVE  /\ FactsAt(rowStatus', t) = FactsAt(rowStatus, t)
               /\ GoodRead(c, p, t, FactsAt(rowStatus, t)) =>
                    GoodRead(consoleCalls'[i], p, t, FactsAt(rowStatus, t))
               /\ WillReload(c, p) => WillReload(consoleCalls'[i], p)
    <3>1. rowStatus' = rowStatus
      BY <2>1
    <3>2. ASSUME GoodRead(c, p, t, FactsAt(rowStatus, t))
          PROVE  GoodRead(consoleCalls'[i], p, t, FactsAt(rowStatus, t))
      <4>1. c.kind # "actions" /\ c.token = t /\ PanelOf(c.kind) = p /\ ~c.overtaken
        BY <3>2, LoadedPanels DEF GoodRead
      <4>2. answer = FactsAt(rowStatus, t) /\ ok
        BY <2>4, <2>6, <4>1
      <4>. QED
        BY <2>5, <4>1, <4>2 DEF GoodRead
    <3>3. WillReload(c, p) => WillReload(consoleCalls'[i], p)
      BY <2>2, <2>5 DEF WillReload
    <3>. QED
      BY <3>1, <3>2, <3>3
  <2>. QED
    BY <1>1, <2>1, <2>3, <2>4, <2>6, ServeKeepsPanels
<1>11. ASSUME NEW i \in DOMAIN consoleCalls, ServeCreate(i) PROVE PanelsInv'
  <2>. DEFINE c == consoleCalls[i]  t == consoleToken
  <2>1. c.kind = "create" /\ c \in ConsoleCallRows
    BY <1>2, <1>11 DEF ServeCreate, At
  <2>2. \A p \in Loaded : ~GoodRead(c, p, t, FactsAt(rowStatus, t)) /\ ~WillReload(c, p)
    BY <2>1, LoadedPanels DEF GoodRead, WillReload
  <2>3. CASE c.token = "none"
    <3>1. Serve(i, FALSE, EmptyRow) /\ rowStatus' = rowStatus
      BY <1>11, <2>3 DEF ServeCreate
    <3>. QED
      BY <1>1, <2>2, <3>1, ServeKeepsPanels
  <2>4. CASE c.token # "none"
    <3>1. PICK k \in 1..MaxProposalRows :
            /\ Serve(i, TRUE, <<"proposal", c.token, k>>)
            /\ rowStatus' = [rowStatus EXCEPT ![<<"proposal", c.token, k>>] = "proposed"]
      BY <1>11, <2>4 DEF ServeCreate
    <3>. DEFINE row == <<"proposal", c.token, k>>
    <3>2. c.token \in ConsoleAccounts
      BY <2>1, <2>4 DEF ConsoleCallRows
    <3>3. row \in ProposalRows /\ row \in ConsoleRows
      BY <3>2 DEF ProposalRows, ConsoleRows
    <3>4. Serve(i, TRUE, row) /\ rowStatus' = [rowStatus EXCEPT ![row] = "proposed"]
      BY <3>1
    <3>5. ASSUME t # "none" PROVE FactsAt(rowStatus', t) = FactsAt(rowStatus, t)
      <4>1. t \in ConsoleAccounts
        BY <1>2, <3>5
      <4>2. ASSUME NEW m \in 1..FactCount PROVE rowStatus'[FactRow(t, m)] = rowStatus[FactRow(t, m)]
        <5>1. FactRow(t, m) \in FactRows /\ FactRow(t, m) # row
          BY <3>3, <4>1, RowsApart
        <5>2. FactRow(t, m) \in ConsoleRows
          BY <5>1 DEF ConsoleRows
        <5>. HIDE DEF row
        <5>. QED
          BY <1>2, <3>4, <5>1, <5>2
      <4>. QED
        BY <4>2 DEF FactsAt
    <3>. HIDE DEF row
    <3>6. ~(c.token = "none")
      BY <2>4
    <3>. QED
      BY <1>1, <2>2, <3>3, <3>4, <3>5, <3>6, ServeKeepsPanels
  <2>. QED
    BY <2>3, <2>4
<1>12. ASSUME NEW i \in DOMAIN consoleCalls, ServeDecide(i) PROVE PanelsInv'
  <2>. DEFINE c == consoleCalls[i]  row == c.what[1]  kind == c.what[2]  t == consoleToken
              ok == RowOwner(row) = c.token /\ ~(kind = "approved" /\ rowStatus[row] = "rejected")
  <2>1. /\ c.kind = "decide" /\ c.phase = "sent" /\ c \in ConsoleCallRows
        /\ AwaitedOK(c, rowStatus, decisions) /\ Serve(i, ok, row)
        /\ rowStatus' = IF ok THEN [rowStatus EXCEPT ![row] = kind] ELSE rowStatus
    BY <1>1, <1>2, <1>12 DEF ServeDecide, At
  <2>2. row \in ConsoleRows /\ RowOwner(row) # "none"
    <3>1. row \in ConsoleRows
      BY <2>1 DEF AwaitedOK
    <3>. HIDE DEF row
    <3>. QED
      BY <3>1, RowsApart DEF ConsoleRows
  <2>3. \A p \in Loaded : ~GoodRead(c, p, t, FactsAt(rowStatus, t)) /\ ~WillReload(c, p)
    BY <2>1, LoadedPanels DEF GoodRead, WillReload
  <2>4. ok \in BOOLEAN /\ (c.token = "none" => ~ok)
    BY <2>2
  <2>. HIDE DEF ok, row
  <2>5. consoleCalls'[i] = [kind |-> c.kind, what |-> c.what, token |-> c.token,
                            phase |-> IF ok THEN "ok" ELSE "refused", answer |-> row,
                            overtaken |-> c.overtaken]
    BY <1>1, <2>1, <2>2, <2>4, ServeKeeps
  <2>6. ASSUME t # "none", NEW p \in Loaded
        PROVE  WillReload(consoleCalls'[i], p) \/ FactsAt(rowStatus', t) = FactsAt(rowStatus, t)
    <3>1. CASE ok /\ row \in FactRows
      <4>1. /\ consoleCalls'[i].kind = "decide" /\ consoleCalls'[i].phase = "ok"
            /\ consoleCalls'[i].what[1] = row
        BY <2>1, <2>5, <3>1 DEF row
      <4>. QED
        BY <3>1, <4>1 DEF WillReload
    <3>2. CASE ~ok
      BY <2>1, <3>2
    <3>3. CASE ok /\ row \notin FactRows
      <4>1. t \in ConsoleAccounts
        BY <1>2, <2>6
      <4>2. rowStatus' = [rowStatus EXCEPT ![row] = kind]
        BY <2>1, <3>3
      <4>3. ASSUME NEW m \in 1..FactCount PROVE rowStatus'[FactRow(t, m)] = rowStatus[FactRow(t, m)]
        <5>1. FactRow(t, m) \in FactRows /\ FactRow(t, m) # row
          BY <3>3, <4>1, RowsApart
        <5>2. FactRow(t, m) \in ConsoleRows
          BY <5>1 DEF ConsoleRows
        <5>. HIDE DEF kind
        <5>. QED
          BY <1>2, <4>2, <5>1, <5>2
      <4>. QED
        BY <4>3 DEF FactsAt
    <3>. QED
      BY <3>1, <3>2, <3>3
  <2>. QED
    BY <1>1, <2>1, <2>2, <2>3, <2>4, <2>6, ServeKeepsPanels
<1>13. ASSUME NEW i \in DOMAIN consoleCalls, ReadReturns(i) PROVE PanelsInv'
  <2>. DEFINE c == consoleCalls[i]  t == consoleToken  f == FactsAt(rowStatus, consoleToken)
              r == Returned(Overtake(consoleCalls, i), i, AfterRead(i))
  <2>1. /\ IsRead(i) /\ c.phase = "ok" /\ consoleCalls' = r
        /\ shownIn' = [shownIn EXCEPT ![PanelOf(c.kind)] = [of |-> c.token, facts |-> c.answer]]
        /\ UNCHANGED <<consoleToken, rowStatus>>
        /\ disturbed' = disturbed \cup (IF c.overtaken THEN {"overtaken"} ELSE {})
    BY <1>13 DEF ReadReturns, Returned
  <2>2. SUFFICES ASSUME disturbed' = {} PROVE PanelsInv'
    BY DEF PanelsInv
  <2>3. disturbed = {} /\ ~c.overtaken
    BY <2>1, <2>2
  <2>4. t # "none"
    BY <2>1, <2>3 DEF PanelsInv
  <2>5. ASSUME NEW p \in Loaded
        PROVE  /\ Caught(consoleCalls', p, t, f)
               /\ \/ shownIn'[p] = NothingShown
                  \/ shownIn'[p] = [of |-> t, facts |-> f]
                  \/ Covered(consoleCalls', p, t, f)
    <3>1. /\ Caught(consoleCalls, p, t, f)
          /\ \/ shownIn[p] = NothingShown
             \/ shownIn[p] = [of |-> t, facts |-> f]
             \/ Covered(consoleCalls, p, t, f)
      BY <2>3, <2>4 DEF PanelsInv
    <3>. DEFINE sh == [of |-> c.token, facts |-> c.answer]  q == PanelOf(c.kind)
    <3>2. shownIn'[p] = IF q = p THEN sh ELSE shownIn[p]
      <4>1. shownIn' = [shownIn EXCEPT ![q] = sh] /\ q \in Panels /\ p \in Panels
        BY <2>1, LoadedPanels DEF IsRead
      <4>. HIDE DEF q, sh
      <4>. QED
        BY <1>2, <4>1
    <3>. HIDE DEF f
    <3>3. Caught(r, p, t, f)
      BY <2>1, <2>3, <3>1, <3>2, ReadReturnLeaves
    <3>4. \/ shownIn'[p] = NothingShown
          \/ shownIn'[p] = [of |-> t, facts |-> f]
          \/ Covered(r, p, t, f)
      BY <2>1, <2>3, <3>1, <3>2, ReadReturnLeaves
    <3>. QED
      BY <2>1, <3>3, <3>4
  <2>. HIDE DEF r
  <2>. QED
    BY <2>1, <2>4, <2>5 DEF PanelsInv
<1>14. ASSUME NEW i \in DOMAIN consoleCalls, UserReturns(i) PROVE PanelsInv'
  <2>. DEFINE t == consoleCalls[i].what  f == FactsAt(rowStatus, t)
              n == [m \in 1..2 |-> CallWith(t, <<"dashboard", "review">>[m], EmptyRow)]
  <2>1. /\ consoleCalls[i].kind = "user" /\ consoleToken' = t
        /\ consoleCalls' = Returned(consoleCalls, i, n)
        /\ UNCHANGED rowStatus
    BY <1>14 DEF UserReturns, At, Return, Returned
  <2>2. t \in ConsoleAccounts
    BY <1>1, <2>1 DEF AwaitedOK
  <2>3. n \in Seq(ConsoleCallRows) /\ DOMAIN n = 1..2
    BY <2>2, RefreshOK
  <2>4. n[1] = CallWith(t, "dashboard", EmptyRow) /\ n[2] = CallWith(t, "review", EmptyRow)
    BY <2>2, RefreshOK
  <2>. HIDE DEF n, f
  <2>5. ASSUME NEW p \in Loaded
        PROVE  Caught(consoleCalls', p, t, f) /\ Covered(consoleCalls', p, t, f)
    <3>1. /\ n[1].kind = "dashboard" /\ n[2].kind = "review"
          /\ GoodRead(n[1], p, t, f) <=> p = "dashboard"
          /\ GoodRead(n[2], p, t, f) <=> p = "review"
      <4>1. GoodRead(CallWith(t, "dashboard", EmptyRow), p, t, f) <=> PanelOf("dashboard") = p
        BY SentIsGood
      <4>2. GoodRead(CallWith(t, "review", EmptyRow), p, t, f) <=> PanelOf("review") = p
        BY SentIsGood
      <4>3. n[1].kind = "dashboard" /\ n[2].kind = "review"
        BY <2>4 DEF CallWith
      <4>. QED
        BY <2>4, <4>1, <4>2, <4>3, LoadedPanels
    <3>2. Covered(n, p, t, f)
      BY <2>3, <3>1, LoadedPanels DEF Covered
    <3>3. \A m \in DOMAIN n : GoodRead(n[m], p, t, f) \/ PanelOf(n[m].kind) # p
      <4>1. \A m \in DOMAIN n : m = 1 \/ m = 2
        BY <2>3
      <4>. QED
        BY <3>1, <4>1, LoadedPanels
    <3>4. i \in 1..Len(consoleCalls)
      BY <1>1, CallsThere
    <3>5. Caught(Returned(consoleCalls, i, n), p, t, f)
      BY <1>2, <2>3, <3>2, <3>3, <3>4, ReturnCatches
    <3>6. Covered(Returned(consoleCalls, i, n), p, t, f)
      BY <1>2, <2>3, <3>2, <3>4, ReturnCovers
    <3>. QED
      BY <2>1, <3>5, <3>6
  <2>6. consoleToken' # "none"
    BY <2>1, <2>2
  <2>. QED
    BY <2>1, <2>5, <2>6 DEF PanelsInv, f
<1>15. ASSUME NEW i \in DOMAIN consoleCalls, ShowAction(i)
       PROVE  \A p \in Loaded : shownIn'[p] = shownIn[p]
  <2>. DEFINE sh == [of |-> consoleCalls[i].token, facts |-> <<>>]
  <2>1. shownIn' = [shownIn EXCEPT !["actions"] = sh] /\ "actions" \notin Loaded
    BY <1>15 DEF ShowAction, Loaded
  <2>. HIDE DEF sh
  <2>. QED
    BY <1>2, <2>1, LoadedPanels
<1>16. <<>> \in Seq(ConsoleCallRows) /\ DOMAIN <<>> = {}
  BY EmptySeq
<1>17. ASSUME NEW i \in DOMAIN consoleCalls, CreateReturns(i) PROVE PanelsInv'
  <2>1. /\ consoleCalls[i].kind = "create" /\ ShowAction(i)
        /\ consoleCalls' = Returned(consoleCalls, i, <<>>)
        /\ UNCHANGED <<consoleToken, rowStatus, disturbed>>
    BY <1>17 DEF CreateReturns, At, Return, Returned
  <2>2. \A p \in Loaded : PanelOf(consoleCalls[i].kind) # p /\ ~WillReload(consoleCalls[i], p)
    BY <2>1, LoadedPanels DEF WillReload
  <2>3. \A p \in Loaded : shownIn'[p] = shownIn[p]
    BY <1>15, <2>1
  <2>. QED
    BY <1>1, <1>16, <2>1, <2>2, <2>3, ReturnKeepsPanels
<1>18. ASSUME NEW i \in DOMAIN consoleCalls, DecideReturns(i) PROVE PanelsInv'
  <2>1. /\ consoleCalls[i].kind = "decide"
        /\ UNCHANGED <<consoleToken, rowStatus, disturbed>>
    BY <1>18 DEF DecideReturns, At
  <2>2. CASE consoleCalls[i].what[1] \in FactRows
    <3>. DEFINE c == CallWith(consoleToken, "reload", EmptyRow)  n == <<c>>
                t == consoleToken  f == FactsAt(rowStatus, consoleToken)
    <3>1. consoleCalls' = Returned(consoleCalls, i, n) /\ shownIn' = shownIn
      BY <1>18, <2>2 DEF DecideReturns, Return, Returned, NewCall
    <3>2. "reload" \in CallKinds
      BY DEF CallKinds
    <3>3. c \in ConsoleCallRows
      BY <1>2, <3>2, NewCallOK
    <3>4. n \in Seq(ConsoleCallRows) /\ DOMAIN n = {1} /\ n[1] = c
      BY <3>3, OneCall
    <3>5. c.kind = "reload" /\ c.token = t /\ c.phase = "sent"
      BY DEF CallWith
    <3>. HIDE DEF n, c
    <3>6. SUFFICES ASSUME disturbed = {} PROVE PanelsInv'
      BY <2>1 DEF PanelsInv
    <3>7. ASSUME consoleToken = "none", NEW k \in DOMAIN consoleCalls'
          PROVE  consoleCalls'[k].token = "none" /\ consoleCalls'[k].phase # "ok"
      <4>0. i \in 1..Len(consoleCalls)
        BY <1>1, CallsThere
      <4>1. \/ \E j \in DOMAIN consoleCalls : j # i /\ Returned(consoleCalls, i, n)[k] = consoleCalls[j]
            \/ \E m \in DOMAIN n : Returned(consoleCalls, i, n)[k] = n[m]
        BY <1>2, <3>1, <3>4, <3>7, <4>0, ReturnKeeps
      <4>2. ASSUME NEW j \in DOMAIN consoleCalls, consoleCalls'[k] = consoleCalls[j]
            PROVE  consoleCalls'[k].token = "none" /\ consoleCalls'[k].phase # "ok"
        BY <3>6, <3>7, <4>2 DEF PanelsInv
      <4>. QED
        BY <3>1, <3>4, <3>5, <3>7, <4>1, <4>2
    <3>8. ASSUME NEW p \in Loaded
          PROVE  Caught(consoleCalls', p, t, f) /\ Covered(consoleCalls', p, t, f)
      <4>0. i \in 1..Len(consoleCalls)
        BY <1>1, CallsThere
      <4>. HIDE DEF f
      <4>1. GoodRead(c, p, t, f) <=> p = "review"
        <5>1. GoodRead(CallWith(t, "reload", EmptyRow), p, t, f) <=> PanelOf("reload") = p
          BY SentIsGood
        <5>. QED
          BY <5>1, LoadedPanels DEF c
      <4>2. p = "dashboard" => WillReload(c, p)
        BY <3>5 DEF WillReload
      <4>3. Covered(n, p, t, f)
        BY <3>4, <4>1, <4>2, LoadedPanels DEF Covered
      <4>4. \A m \in DOMAIN n : GoodRead(n[m], p, t, f) \/ PanelOf(n[m].kind) # p
        BY <3>4, <3>5, <4>1, LoadedPanels
      <4>5. Caught(Returned(consoleCalls, i, n), p, t, f)
        BY <1>2, <3>4, <4>0, <4>3, <4>4, ReturnCatches
      <4>6. Covered(Returned(consoleCalls, i, n), p, t, f)
        BY <1>2, <3>4, <4>0, <4>3, ReturnCovers
      <4>. QED
        BY <3>1, <4>5, <4>6
    <3>. QED
      BY <2>1, <3>1, <3>6, <3>7, <3>8 DEF PanelsInv
  <2>3. CASE consoleCalls[i].what[1] \notin FactRows
    <3>1. consoleCalls' = Returned(consoleCalls, i, <<>>) /\ ShowAction(i)
      BY <1>18, <2>3 DEF DecideReturns, Return, Returned
    <3>2. \A p \in Loaded : PanelOf(consoleCalls[i].kind) # p /\ ~WillReload(consoleCalls[i], p)
      BY <2>1, <2>3, LoadedPanels DEF WillReload
    <3>3. \A p \in Loaded : shownIn'[p] = shownIn[p]
      BY <1>15, <3>1
    <3>. QED
      BY <1>1, <1>16, <2>1, <3>1, <3>2, <3>3, ReturnKeepsPanels
  <2>. QED
    BY <2>2, <2>3
<1>19. ASSUME NEW i \in DOMAIN consoleCalls, CallThrows(i) PROVE PanelsInv'
  <2>. DEFINE n == AfterRead(i)
  <2>1. /\ consoleCalls[i].phase = "refused" /\ consoleCalls' = Returned(consoleCalls, i, n)
        /\ UNCHANGED <<consoleToken, shownIn, rowStatus, disturbed>>
    BY <1>19 DEF CallThrows, Return, Returned
  <2>2. n \in Seq(ConsoleCallRows)
    BY <1>2, AfterReadOK
  <2>3. \A m \in DOMAIN n : n[m] = CallWith(consoleToken, "dashboard", EmptyRow)
    BY <1>2, AfterReadOK
  <2>4. consoleCalls[i].kind = "reload" => 1 \in DOMAIN n
    BY <1>2, AfterReadOK
  <2>. HIDE DEF n
  <2>5. "dashboard" \in CallKinds
    BY DEF CallKinds
  <2>6. \A m \in DOMAIN n : \E kind \in CallKinds : \E what : n[m] = CallWith(consoleToken, kind, what)
    BY <2>3, <2>5
  <2>7. ASSUME NEW p \in Loaded
        PROVE  \/ \E m \in DOMAIN n : \E kind \in CallKinds : \E what :
                    n[m] = CallWith(consoleToken, kind, what) /\ PanelOf(kind) = p
               \/ ~WillReload(consoleCalls[i], p)
    <3>1. CASE consoleCalls[i].kind = "reload" /\ p = "dashboard"
      <4>1. 1 \in DOMAIN n /\ n[1] = CallWith(consoleToken, "dashboard", EmptyRow)
            /\ PanelOf("dashboard") = p
        BY <2>3, <2>4, <3>1, LoadedPanels
      <4>. QED
        BY <2>5, <4>1
    <3>2. CASE ~(consoleCalls[i].kind = "reload" /\ p = "dashboard")
      BY <2>1, <3>2 DEF WillReload
    <3>. QED
      BY <3>1, <3>2
  <2>8. UNCHANGED <<consoleToken, rowStatus, disturbed>> /\ \A p \in Loaded : shownIn'[p] = shownIn[p]
    BY <2>1
  <2>. QED
    BY <1>1, <2>1, <2>2, <2>6, <2>7, <2>8, ReturnKeepsPanels
<1>20. QED
  BY <1>3, <1>5, <1>6, <1>7, <1>8, <1>9, <1>10, <1>11, <1>12, <1>13, <1>14, <1>17, <1>18, <1>19
     DEF ConsoleNext

\* What holds of the console at every moment.
ConsoleInv == DecisionsInv /\ PanelsInv

LEMMA ConsoleStep == ConsoleInv /\ [ConsoleNext]_consoleVars => ConsoleInv'
<1>1. ConsoleInv /\ ConsoleNext => ConsoleInv'
  BY DecisionsStepKeeps, PanelsStepKeeps DEF ConsoleInv
<1>2. ConsoleInv /\ UNCHANGED consoleVars => ConsoleInv'
  BY DEF consoleVars, ConsoleInv, DecisionsInv, ConsoleShape, PanelsInv
<1>. QED
  BY <1>1, <1>2

LEMMA ConsoleBegins ==
    ASSUME ConsoleInit
    PROVE  ConsoleInv
<1>. USE ConsoleAssumption
<1>1. /\ consoleToken = "none" /\ shownIn = [p \in Panels |-> NothingShown]
      /\ proposalField = EmptyRow /\ consoleCalls = <<>> /\ decisions = {}
      /\ rowStatus = [row \in ConsoleRows |-> IF row \in FactRows THEN "proposed" ELSE "none"]
  BY DEF ConsoleInit, ConsoleRows
<1>2. <<>> \in Seq(RowStates) /\ <<>> \in Seq(ConsoleCallRows) /\ DOMAIN <<>> = {}
  BY EmptySeq
<1>3. NothingShown \in Shown /\ NothingShown.facts = <<>>
  BY <1>2 DEF NothingShown, Shown
<1>4. rowStatus \in [ConsoleRows -> RowStates]
  BY <1>1 DEF RowStates
<1>5. \A p \in Panels : shownIn[p] = NothingShown
  BY <1>1
<1>6. shownIn \in [Panels -> Shown]
  BY <1>1, <1>3
<1>7. ConsoleShape
  BY <1>1, <1>2, <1>4, <1>6 DEF ConsoleShape
<1>8. \A row \in ConsoleRows : RowOK(row, rowStatus, decisions, consoleCalls)
  <2>1. ASSUME NEW row \in ConsoleRows PROVE RowOK(row, rowStatus, decisions, consoleCalls)
    <3>1. /\ rowStatus[row] \in {"none", "proposed"}
          /\ rowStatus[row] = "none" => row \notin FactRows
          /\ \A s : ~OwnDecision(row, s, decisions)
      BY <1>1 DEF OwnDecision
    <3>. QED
      BY <3>1 DEF RowOK
  <2>. QED
    BY <2>1
<1>9. DecisionsInv
  BY <1>1, <1>2, <1>3, <1>5, <1>7, <1>8 DEF DecisionsInv, Panels
<1>10. PanelsInv
  BY <1>1, <1>2, <1>5, LoadedPanels DEF PanelsInv
<1>. QED
  BY <1>9, <1>10 DEF ConsoleInv

LEMMA ConsoleCorrect == ConsoleInv => ConsoleIsConsistent
<1>. SUFFICES ASSUME ConsoleInv PROVE ConsoleIsConsistent
  OBVIOUS
<1>1. DecisionsInv /\ PanelsInv
  BY DEF ConsoleInv
<1>2. consoleCalls = <<>> => DOMAIN consoleCalls = {}
  BY EmptySeq
<1>3. PanelsAreCurrent
  <2>1. ASSUME ConsoleAtRest, disturbed = {}, NEW p \in Loaded
        PROVE  \/ shownIn[p] = NothingShown
               \/ shownIn[p] = [of |-> consoleToken, facts |-> FactsOf(consoleToken)]
    <3>1. FactsOf(consoleToken) = FactsAt(rowStatus, consoleToken)
      BY DEF FactsOf, FactsAt
    <3>2. ~Covered(consoleCalls, p, consoleToken, FactsAt(rowStatus, consoleToken))
      BY <1>2, <2>1 DEF Covered, ConsoleAtRest
    <3>. QED
      BY <1>1, <2>1, <3>1, <3>2 DEF PanelsInv
  <2>. QED
    BY <2>1 DEF PanelsAreCurrent, Loaded
<1>4. DecisionsAreOwn
  <2>1. ASSUME NEW row \in ConsoleRows
        PROVE  LET own == {s \in RowStates : <<RowOwner(row), row, s>> \in decisions} IN
                 /\ rowStatus[row] \in {"none", "proposed"} \cup own
                 /\ ConsoleAtRest /\ own # {} => rowStatus[row] # "proposed"
    <3>1. RowOK(row, rowStatus, decisions, consoleCalls) /\ rowStatus[row] \in RowStates
      BY <1>1 DEF DecisionsInv, ConsoleShape
    <3>. QED
      BY <1>2, <3>1 DEF RowOK, OwnDecision, ConsoleAtRest
  <2>. QED
    BY <2>1 DEF DecisionsAreOwn, ConsoleRows
<1>. QED
  BY <1>3, <1>4 DEF ConsoleIsConsistent

-----------------------------------------------------------------------------
(* The clients together. *)

\* Lift: what the clients do is, for each of them, a step of its own or no step of
\* its variables.
LEMMA Lift ==
  [ClientsNext]_clientVars =>
    /\ [PhoneNext]_phoneVars /\ [ChatNext]_chatVars /\ [SpeechNext]_speechVars
    /\ [AccountNext]_accountVars /\ [PhoneRelayNext]_phoneRelayVars /\ [PageNext]_pageVars
    /\ [RoomPageNext]_roomPageVars /\ [ConsoleNext]_consoleVars /\ [TranscriptArrives]_segmentVars
BY DEF ClientsNext, clientVars, Phone, Chat, Speech, Account, RelayScreens, Page, CallRoom,
       Recogniser, Console

LEMMA ChatBegins == ChatInit => ChatInv
<1>. SUFFICES ASSUME ChatInit PROVE ChatInv
  OBVIOUS
<1>1. /\ \A t \in ChatTexts : chatStep[t] = "unsent" /\ chatKind[t] = "none" /\ chatReplies[t] = 0
      /\ pendingApproval = "none" /\ confirmed = {} /\ isLoading = FALSE /\ tokenStored = TRUE
      /\ outlived = {}
  BY DEF ChatInit
<1>2. chatStep \in [ChatTexts -> {"unsent", "queued", "waiting", "done"}]
  BY DEF ChatInit
<1>3. chatKind \in [ChatTexts -> ChatKinds \cup {"none"}]
  BY DEF ChatInit
<1>4. chatReplies \in [ChatTexts -> Nat]
  BY DEF ChatInit
<1>5. ChatTypeOK
  <2>1. isLoading \in BOOLEAN /\ tokenStored \in BOOLEAN
    BY <1>1
  <2>2. pendingApproval \in Approvals \cup {"none"} /\ confirmed \subseteq Approvals
        /\ outlived \subseteq ChatTexts
    BY <1>1
  <2>. QED
    BY <1>2, <1>3, <1>4, <2>1, <2>2 DEF ChatTypeOK
<1>6. Waiting = {} /\ ~isLoading
  BY <1>1 DEF Waiting
<1>. QED
  BY <1>1, <1>5, <1>6 DEF ChatInv, ChatRepliesOnce

LEMMA SpeechBegins == SpeechInit => SpeechInv
<1>. SUFFICES ASSUME SpeechInit PROVE SpeechInv
  OBVIOUS
<1>1. nativeQueue \in Seq(Speeches)
  BY EmptySeq DEF SpeechInit
<1>2. isMuted \in BOOLEAN /\ outputMode \in {"native", "natural"}
  BY DEF SpeechInit
<1>3. {speechAsked, currentSpeech, naturalSound} \subseteq 0..MaxSpeeches
  BY SpeechAssumption DEF SpeechInit
<1>. QED
  BY <1>1, <1>2, <1>3 DEF SpeechInit, SpeechInv, SpeechTypeOK

LEMMA AccountBegins == AccountInit => AccountInv
BY AccountAssumption DEF AccountInit, AccountInv, AccountTypeOK, AccountIsOwn, AccountAt, NoAccountCall

LEMMA PhoneBegins == PhoneInit => PhoneInv
<1>. SUFFICES ASSUME PhoneInit PROVE PhoneInv
  OBVIOUS
<1>. USE PhoneAssumption DEF PhoneInit
<1>1. {connected, oldLoop, sessionActive, isSessionActive, stateEvent, microphone,
       hasReportedAudioSendError} \subseteq BOOLEAN
  OBVIOUS
<1>2. resumed \in [Waiters -> Nat] /\ stops \in Nat /\ breaks \in 0..MaxBreaks
  OBVIOUS
<1>3. toGateway \in Seq({"start", "stop"}) /\ toPhone \in Seq({"ack", "error"})
  BY EmptySeq
<1>4. /\ waiters \subseteq Waiters /\ timers \subseteq Waiters /\ unsent \subseteq Waiters
      /\ operation \in {"none", "permission", "pong", "latePong", "answer", "acked", "failed"}
      /\ gateway \in {"idle", "active", "over"} /\ waiters = {}
      /\ ~connected => ~sessionActive /\ toGateway = <<>> /\ toPhone = <<>>
  OBVIOUS
<1>5. PhoneTypeOK
  BY <1>1, <1>2, <1>3, <1>4 DEF PhoneTypeOK
<1>6. ResumedTo(0)
  BY DEF ResumedTo, Waiters
<1>7. 0 \in 0..MaxStarts
  OBVIOUS
<1>. QED
  BY <1>5, <1>6, <1>7 DEF PhoneInv

LEMMA RelayScreensBegin == PhoneRelayInit => RelayScreensInv
<1>. SUFFICES ASSUME PhoneRelayInit PROVE RelayScreensInv
  OBVIOUS
<1>1. /\ rowVersion = Unread /\ listed = Unread /\ opened = NoRow /\ relayLoading = FALSE
      /\ relayTasks = [t \in RelayTasks |-> UnusedTask] /\ overlapped = FALSE
  BY DEF PhoneRelayInit
<1>2. Unread \in [RelayRows -> Nat]
  BY DEF Unread
<1>3. UnusedTask \in [pc : TaskPcs, row : RelayRows \cup {NoRow}, version : Nat,
                      read : [RelayRows -> Nat]]
  BY <1>2 DEF UnusedTask, TaskPcs
<1>4. UnusedTask.pc = "unused" /\ UnusedTask.version = 0
  BY DEF UnusedTask
<1>. HIDE DEF UnusedTask, Unread
<1>5. RelayTasksShape
  <2>1. relayTasks \in [RelayTasks ->
         [pc : TaskPcs, row : RelayRows \cup {NoRow}, version : Nat, read : [RelayRows -> Nat]]]
    BY <1>1, <1>3
  <2>2. overlapped \in BOOLEAN
    BY <1>1
  <2>. QED
    BY <1>1, <1>2, <2>1, <2>2 DEF RelayTasksShape
<1>6. \A t \in RelayTasks : relayTasks[t].pc = "unused" /\ relayTasks[t].version = 0
  BY <1>1, <1>4
<1>7. \A t \in RelayTasks : VersionOK(t) /\ ReadOK(t)
  BY <1>6 DEF VersionOK, ReadOK, TaskAt
<1>8. LoadsApart
  BY <1>6 DEF LoadsApart, Loading
<1>9. RelayShowsItsOwn
  BY <1>1, <1>6 DEF RelayShowsItsOwn, TaskAt
<1>. QED
  BY <1>5, <1>7, <1>8, <1>9 DEF RelayScreensInv

LEMMA PageBegins == PageInit => PageInv
<1>. SUFFICES ASSUME PageInit PROVE PageInv
  OBVIOUS
<1>. USE LivePageAssumption DEF PageInit
<1>1. pageSockets \in Seq([state : {"connecting", "open", "closing", "closed"},
                           session : {"none", "sent", "active", "over"}])
  BY EmptySeq
<1>2. micStarts \in Seq({"media", "module", "done"}) /\ Len(micStarts) = 0
  BY EmptySeq
<1>3. {consentChecked, startAccepted, hushed} \subseteq BOOLEAN
  OBVIOUS
<1>4. /\ micStops \in 0..MaxMicStops /\ {mediaStream, audioContext} \subseteq 0..Len(micStarts)
      /\ liveStreams \cup late \cup lost \subseteq DOMAIN micStarts
  BY <1>2
<1>5. PageTypeOK
  BY <1>1, <1>2, <1>3, <1>4 DEF PageTypeOK
<1>6. liveStreams = {} /\ ~startAccepted
  OBVIOUS
<1>. QED
  BY <1>5, <1>6 DEF PageInv, PageMicFollowsSession

LEMMA RoomPageBegins == RoomPageInit => RoomPageInv
<1>. SUFFICES ASSUME RoomPageInit PROVE RoomPageInv
  OBVIOUS
<1>. USE RoomPageAssumption DEF RoomPageInit
<1>1. /\ lkRooms \in Seq([join : JoinClicks, media : SUBSET Media,
                          state : {"connecting", "connected", "dropped", "left"}])
      /\ Len(lkRooms) = 0 /\ DOMAIN lkRooms = {}
  BY EmptySeq
<1>2. pageConsent \in [checked : BOOLEAN, guest : GuestConsents]
  BY DEF GuestConsents
<1>3. joins \in [JoinClicks -> {"none", "token", "connect", "camera", "microphone", "done"}]
  OBVIOUS
<1>4. /\ pageMode \in {"host", "guest"} /\ lkRoom = 0 /\ lkRoom \in 0..Len(lkRooms)
      /\ leaves \in 0..MaxLeaves /\ allowed = {} /\ leftJoins = {}
      /\ \A j \in JoinClicks : joins[j] = "none"
  BY <1>1
<1>5. RoomPageTypeOK
  BY <1>1, <1>2, <1>3, <1>4 DEF RoomPageTypeOK
<1>6. OneRoomAtMost
  BY <1>1, <1>4 DEF OneRoomAtMost
<1>. QED
  BY <1>4, <1>5, <1>6 DEF RoomPageInv

\* What the types of the Relay screens and the console have beyond their invariants.
RelayShown ==
    /\ {opened, messagesOf} \subseteq RelayRows \cup {NoRow}
    /\ {relayLoading, overlapped, messagesLate} \subseteq BOOLEAN

LEMMA RelayShownBegins == PhoneRelayInit => RelayShown
BY DEF PhoneRelayInit, RelayShown

LEMMA RelayShownStep ==
    ASSUME RelayScreensInv, RelayShown, [PhoneRelayNext]_phoneRelayVars
    PROVE  RelayShown'
<1>. USE DEF RelayShown
<1>1. overlapped' \in BOOLEAN
  BY RelayScreensStepKeeps DEF RelayScreensInv, RelayTasksShape
<1>2. CASE UNCHANGED phoneRelayVars
  BY <1>2 DEF phoneRelayVars
<1>3. ASSUME NEW r \in RelayRows, RowChanges(r) PROVE RelayShown'
  <2>1. UNCHANGED <<opened, messagesOf, relayLoading, messagesLate>>
    BY <1>3 DEF RowChanges
  <2>. QED
    BY <1>1, <2>1
<1>4. ASSUME NEW t \in RelayTasks,
             StartLoad(t) \/ LoadRead(t) \/ LoadReturns(t) \/ RelayCallFails(t) \/ Mutate(t) \/ MutateReturns(t)
      PROVE  RelayShown'
  <2>. DEFINE Rest == UNCHANGED <<opened, messagesOf, messagesLate>> /\ relayLoading' \in {TRUE, FALSE, relayLoading}
  <2>1. StartLoad(t) => Rest
    BY DEF StartLoad
  <2>2. LoadRead(t) => Rest
    BY DEF LoadRead
  <2>3. LoadReturns(t) => Rest
    BY DEF LoadReturns
  <2>4. RelayCallFails(t) => Rest
    BY DEF RelayCallFails
  <2>5. Mutate(t) => Rest
    BY DEF Mutate
  <2>6. MutateReturns(t) => Rest
    BY DEF MutateReturns
  <2>7. Rest
    BY <1>4, <2>1, <2>2, <2>3, <2>4, <2>5, <2>6
  <2>. QED
    BY <1>1, <2>7
<1>5. ASSUME NEW t \in RelayTasks, MessagesReturn(t) PROVE RelayShown'
  <2>1. relayTasks[t].row \in RelayRows \cup {NoRow}
    BY DEF RelayScreensInv, RelayTasksShape
  <2>. QED
    BY <1>1, <1>5, <2>1 DEF MessagesReturn
<1>6. ASSUME NEW t \in RelayTasks, MessagesFail(t) PROVE RelayShown'
  BY <1>1, <1>6 DEF MessagesFail
<1>7. ASSUME NEW t \in RelayTasks, NEW r \in RelayRows, StartMutate(t, r) \/ OpenRequest(t, r)
      PROVE  RelayShown'
  BY <1>1, <1>7 DEF StartMutate, OpenRequest
<1>8. CASE CloseRequest
  BY <1>1, <1>8 DEF CloseRequest
<1>. QED
  BY <1>2, <1>3, <1>4, <1>5, <1>6, <1>7, <1>8 DEF PhoneRelayNext

ClicksBounded == consoleClicks \in 0..MaxConsoleClicks

LEMMA ClicksStep == ClicksBounded /\ [ConsoleNext]_consoleVars => ClicksBounded'
<1>. SUFFICES ASSUME ClicksBounded, [ConsoleNext]_consoleVars PROVE ClicksBounded'
  OBVIOUS
<1>1. Click => consoleClicks' \in 0..MaxConsoleClicks
  BY ConsoleAssumption DEF Click, ClicksBounded
<1>2. \A a : TypeToken(a) \/ CreateDevUser(a) \/ Ask(a) \/ DecideProposal(a) => Click
  BY DEF TypeToken, CreateDevUser, Ask, DecideProposal, ClickSends
<1>3. CreateProposal \/ (\E k, s : DecideFact(k, s)) => Click
  BY DEF CreateProposal, DecideFact, ClickSends
<1>4. ASSUME NEW i, ServeRead(i) \/ ServeCreate(i) \/ ServeDecide(i) PROVE consoleClicks' = consoleClicks
  BY <1>4 DEF ServeRead, ServeCreate, ServeDecide, Serve
<1>5. ASSUME NEW i, ReadReturns(i) \/ UserReturns(i) \/ CreateReturns(i) \/ DecideReturns(i) \/ CallThrows(i)
      PROVE  consoleClicks' = consoleClicks
  BY <1>5 DEF ReadReturns, UserReturns, CreateReturns, DecideReturns, CallThrows
<1>6. UNCHANGED consoleVars => consoleClicks' = consoleClicks
  BY DEF consoleVars
<1>7. ConsoleNext => Click \/ consoleClicks' = consoleClicks
  BY <1>2, <1>3, <1>4, <1>5 DEF ConsoleNext
<1>. QED
  BY <1>1, <1>6, <1>7 DEF ClicksBounded

LEMMA ConsoleTyped == ASSUME ConsoleInv, ClicksBounded PROVE ConsoleTypeOK
<1>1. ConsoleShape
  BY DEF ConsoleInv, DecisionsInv
<1>2. \A p \in Panels : shownIn[p].of \in ConsoleAccounts \cup {"none"} /\ shownIn[p].facts \in Seq(RowStates)
  BY <1>1 DEF ConsoleShape, Shown
<1>3. \A i \in DOMAIN consoleCalls : consoleCalls[i].phase \in {"sent", "ok", "refused"}
  <2>1. \A i \in DOMAIN consoleCalls : consoleCalls[i] \in ConsoleCallRows
    BY <1>1, CallsThere DEF ConsoleShape
  <2>. QED
    BY <2>1 DEF ConsoleCallRows
<1>. QED
  BY <1>1, <1>2, <1>3 DEF ConsoleTypeOK, ConsoleShape, ClicksBounded, ConsoleRows

\* Every client keeps its invariant.
LEMMA ClientsKeep ==
    ClientsSpec => /\ []PhoneInv /\ []ChatInv /\ []SpeechInv /\ []AccountInv /\ []RelayScreensInv
                   /\ []PageInv /\ []RoomPageInv /\ []ConsoleInv /\ []SegInv
                   /\ []RelayShown /\ []ClicksBounded
<1>1. ClientsSpec => []PhoneInv
  BY Lift, PhoneBegins, PhoneStepKeeps, PTL DEF ClientsSpec, ClientsInit
<1>2. ClientsSpec => []ChatInv
  BY Lift, ChatBegins, ChatStepKeeps, PTL DEF ClientsSpec, ClientsInit
<1>3. ClientsSpec => []SpeechInv
  BY Lift, SpeechBegins, SpeechStepKeeps, PTL DEF ClientsSpec, ClientsInit
<1>4. ClientsSpec => []AccountInv
  BY Lift, AccountBegins, AccountStepKeeps, PTL DEF ClientsSpec, ClientsInit
<1>5. ClientsSpec => []RelayScreensInv
  BY Lift, RelayScreensBegin, RelayScreensStepKeeps, PTL DEF ClientsSpec, ClientsInit
<1>6. ClientsSpec => []PageInv
  BY Lift, PageBegins, PageStepKeeps, PTL DEF ClientsSpec, ClientsInit
<1>7. ClientsSpec => []RoomPageInv
  BY Lift, RoomPageBegins, RoomPageStepKeeps, PTL DEF ClientsSpec, ClientsInit
<1>8. ClientsSpec => []ConsoleInv
  BY Lift, ConsoleBegins, ConsoleStep, PTL DEF ClientsSpec, ClientsInit
<1>9. ClientsSpec => []SegInv
  BY Lift, SegmentsStart, SegmentsStep, PTL DEF ClientsSpec, ClientsInit
<1>10. ClientsSpec => []RelayShown
  BY <1>5, Lift, RelayShownBegins, RelayShownStep, PTL DEF ClientsSpec, ClientsInit
<1>11. ClientsSpec => []ClicksBounded
  <2>1. ConsoleInit => ClicksBounded
    BY ConsoleAssumption DEF ConsoleInit, ClicksBounded
  <2>. QED
    BY <2>1, Lift, ClicksStep, PTL DEF ClientsSpec, ClientsInit
<1>. QED
  BY <1>1, <1>2, <1>3, <1>4, <1>5, <1>6, <1>7, <1>8, <1>9, <1>10, <1>11, PTL

\* However the starts, texts, speeches, sign-ins, decisions and clicks of a client
\* overlap: the continuation of a start is resumed once (GatewayWebSocketClient.swift), a
\* text of the chat has one reply, a canceled speech stays silent, the room page is in
\* one room, and the Brain Console shows and decides for the user whose token it has.
\* For the account, the Relay requests and the live page's microphone it says no more
\* than that a wrong one comes of the overlaps that outdated, messagesLate, overlapped,
\* late and lost record.
THEOREM OverlapsHandled == ClientsSpec => []OverlapsAreHandled
<1>1. PhoneInv /\ ChatInv /\ SpeechInv /\ AccountInv /\ RelayScreensInv /\ PageInv
      /\ RoomPageInv /\ ConsoleInv => OverlapsAreHandled
  <2>1. PhoneInv => ResumedOnce
    BY PhoneAssumption DEF PhoneInv, ResumedTo, ResumedOnce
  <2>2. SpeechInv => CanceledIsSilent
    BY DEF SpeechInv, CanceledIsSilent
  <2>. QED
    BY <2>1, <2>2, ConsoleCorrect
       DEF OverlapsAreHandled, ChatInv, AccountInv, RelayScreensInv, PageInv, RoomPageInv
<1>. QED
  BY <1>1, ClientsKeep, PTL

\* Every variable of a client keeps its type, for any number of its calls.
THEOREM ClientsTyped == ClientsSpec => []ClientsTypeOK
<1>1. RelayScreensInv /\ RelayShown => PhoneRelayTypeOK
  BY DEF RelayScreensInv, RelayTasksShape, RelayShown, PhoneRelayTypeOK, Versions, TaskPcs
<1>2. PhoneInv /\ ChatInv /\ SpeechInv /\ AccountInv /\ RelayScreensInv /\ PageInv
      /\ RoomPageInv /\ ConsoleInv /\ SegInv /\ RelayShown /\ ClicksBounded => ClientsTypeOK
  BY <1>1, ConsoleTyped
     DEF ClientsTypeOK, PhoneInv, ChatInv, SpeechInv, AccountInv, PageInv, RoomPageInv, SegInv
<1>. QED
  BY <1>2, ClientsKeep, PTL

\* Whatever transcript the recogniser hears, of any length, its segments are its runs
\* (Segmented), whichever client runs.
THEOREM SegmentsHeard == ClientsSpec => []SegmentsAreHeard
<1>1. SegInv => SegmentsAreHeard
  BY RunsAreHeard, WholeIsHeard DEF SegmentsAreHeard
<1>. QED
  BY <1>1, ClientsKeep, PTL
=============================================================================
