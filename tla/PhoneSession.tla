---------------------------- MODULE PhoneSession ----------------------------
(***************************************************************************)
(* A voice session on the phone (apps/ios): LiveAssistViewModel, its          *)
(* GatewayWebSocketClient and the microphone. All of it runs on the main      *)
(* actor, so it interleaves only where it awaits: the start of a session       *)
(* (operation) waits for the permission, a pong and the gateway's answer,      *)
(* while events are received, timers fire and the user goes on.                *)
(*                                                                         *)
(* The answer is awaited through a waiter, a continuation that an answer, a    *)
(* timer, a failed send or a disconnect may resume; resuming one twice stops   *)
(* the app. A receive loop whose connection was closed ends later, and then    *)
(* disconnects whatever connection there is.                                 *)
(*                                                                         *)
(* The pong is awaited with a timer that does not end the wait: the group of   *)
(* withTimeout throws once both its children have, and the continuation of the  *)
(* ping only goes on with a pong or an error of the socket, late as it may be.  *)
(*                                                                         *)
(* Left out: logs, telemetry, speech output, texts, and the token and consent  *)
(* checks before a start (both are there).                                   *)
(***************************************************************************)
EXTENDS Naturals, Sequences, FiniteSets

CONSTANTS
    MaxStarts,     \* starts sent
    MaxInFlight,   \* messages under way when a stop is tapped
    MaxBreaks      \* times the network breaks the connection or a capture fails

ASSUME PhoneAssumption ==
    MaxStarts \in Nat /\ MaxInFlight \in Nat /\ MaxBreaks \in Nat

Waiters == 1..MaxStarts

VARIABLES
    \* GatewayWebSocketClient
    connected,     \* there is a socket
    oldLoop,       \* a receive loop of a closed connection has not ended
    sessionActive,
    waiters,       \* the waiters list
    resumed,       \* how often each continuation was resumed
    timers,        \* timers that have not fired
    unsent,        \* waiters whose start is not sent yet
    \* LiveAssistViewModel
    operation,     \* what the busy operation waits for, or what it woke with
    stops,         \* stop messages whose send has not returned
    isSessionActive,
    stateEvent,    \* an event waits to be handled by the view model
    microphone,    \* isMicrophoneRunning
    hasReportedAudioSendError,
    \* The other end of the connection, and the world.
    toGateway, toPhone, gateway, breaks

clientSide == <<connected, oldLoop, sessionActive, waiters, resumed, timers, unsent>>
viewSide == <<operation, stops, isSessionActive, stateEvent, microphone, hasReportedAudioSendError>>
outside == <<toGateway, toPhone, gateway, breaks>>
phoneVars == <<clientSide, viewSide, outside>>

PhoneInit ==
    /\ connected = FALSE /\ oldLoop = FALSE /\ sessionActive = FALSE
    /\ waiters = {} /\ timers = {} /\ unsent = {} /\ resumed = [w \in Waiters |-> 0]
    /\ operation = "none" /\ stops = 0 /\ isSessionActive = FALSE /\ stateEvent = FALSE
    /\ microphone = FALSE /\ hasReportedAudioSendError = FALSE
    /\ toGateway = <<>> /\ toPhone = <<>> /\ gateway = "idle" /\ breaks = 0

PhoneTypeOK ==
    /\ {connected, oldLoop, sessionActive, isSessionActive, stateEvent, microphone,
        hasReportedAudioSendError} \subseteq BOOLEAN
    /\ waiters \subseteq Waiters /\ timers \subseteq Waiters /\ unsent \subseteq Waiters
    /\ resumed \in [Waiters -> Nat] /\ stops \in Nat /\ breaks \in 0..MaxBreaks
    /\ operation \in {"none", "permission", "pong", "latePong", "answer", "acked", "failed"}
    /\ toGateway \in Seq({"start", "stop"}) /\ toPhone \in Seq({"ack", "error"})
    /\ gateway \in {"idle", "active", "over"}
    \* Only the operation waits for an answer, and one at a time.
    /\ waiters # {} => operation = "answer" /\ \E w \in Waiters : waiters = {w}
    /\ ~connected => ~sessionActive /\ toGateway = <<>> /\ toPhone = <<>>

-----------------------------------------------------------------------------
(* Pieces of the handlers. A definition marked "mutant" is a faulty variant of *)
(* the one after it; no formula uses it.                                     *)

canSendAudio == connected /\ sessionActive

\* Resume the continuations of the waiters in W; the operation wakes with o.
Resume(W, o) ==
    /\ resumed' = [w \in Waiters |-> resumed[w] + IF w \in W THEN 1 ELSE 0]
    /\ waiters' = waiters \ W
    /\ operation' = IF W # {} /\ operation = "answer" THEN o ELSE operation

disconnectForgetful ==                                           \* mutant
    /\ waiters' = {} /\ UNCHANGED <<resumed, operation>>
    /\ connected' = FALSE /\ sessionActive' = FALSE
    /\ toGateway' = <<>> /\ toPhone' = <<>> /\ gateway' = "idle"

disconnectKeepsActive ==                                         \* mutant
    /\ Resume(waiters, "failed")
    /\ connected' = FALSE /\ UNCHANGED sessionActive
    /\ toGateway' = <<>> /\ toPhone' = <<>> /\ gateway' = "idle"

\* GatewayWebSocketClient.disconnect, but for the loop it cancels.
disconnectClient ==
    /\ Resume(waiters, "failed")
    /\ connected' = FALSE /\ sessionActive' = FALSE
    /\ toGateway' = <<>> /\ toPhone' = <<>> /\ gateway' = "idle"

-----------------------------------------------------------------------------
(* startVoiceSession *)

started == Cardinality({w \in Waiters : resumed[w] > 0})

\* The button is disabled while an operation runs.
TapStart ==
    /\ operation = "none" /\ started < MaxStarts /\ operation' = "permission"
    /\ UNCHANGED <<clientSide, stops, isSessionActive, stateEvent, microphone,
                   hasReportedAudioSendError, toGateway, toPhone, gateway, breaks>>

\* sendStartAndWaitForAck, up to its await.
sendStart ==
    \E w \in Waiters :
        /\ w = started + 1
        /\ sessionActive' = FALSE
        /\ waiters' = waiters \cup {w} /\ timers' = timers \cup {w} /\ unsent' = unsent \cup {w}
        /\ operation' = "answer"

PermissionDenied ==
    /\ operation = "permission" /\ operation' = "none"
    /\ microphone' = FALSE
    /\ UNCHANGED <<clientSide, stops, isSessionActive, stateEvent, hasReportedAudioSendError, outside>>

StartConnected ==
    /\ operation = "permission" /\ connected
    /\ sendStart
    /\ UNCHANGED <<connected, oldLoop, resumed, stops, isSessionActive, stateEvent,
                   microphone, hasReportedAudioSendError, outside>>

Connect ==
    /\ operation = "permission" /\ ~connected
    /\ connected' = TRUE /\ operation' = "pong"
    /\ UNCHANGED <<oldLoop, sessionActive, waiters, resumed, timers, unsent, stops, isSessionActive,
                   stateEvent, microphone, hasReportedAudioSendError, outside>>

Pong ==
    /\ operation = "pong" /\ connected
    /\ sendStart
    /\ UNCHANGED <<connected, oldLoop, resumed, stops, isSessionActive, stateEvent,
                   microphone, hasReportedAudioSendError, outside>>

\* The timer of withTimeout fires: its group waits for the ping all the same.
PingTimeout ==
    /\ operation = "pong" /\ operation' = "latePong"
    /\ UNCHANGED <<clientSide, stops, isSessionActive, stateEvent, microphone,
                   hasReportedAudioSendError, outside>>

\* The catch of connect, which disconnects, and that of run.
connectThrows ==
    /\ operation' = "none" /\ microphone' = FALSE
    /\ connected' = FALSE /\ sessionActive' = FALSE /\ oldLoop' = (oldLoop \/ connected)
    /\ toGateway' = <<>> /\ toPhone' = <<>> /\ gateway' = "idle"
    /\ UNCHANGED <<waiters, resumed, timers, unsent, stops, isSessionActive, stateEvent,
                   hasReportedAudioSendError>>

\* The pong comes after the timer fired.
LatePong ==
    /\ operation = "latePong" /\ connected
    /\ connectThrows /\ UNCHANGED breaks

\* The socket fails with the ping under way ...
PingBreaks ==
    /\ operation \in {"pong", "latePong"} /\ connected
    /\ breaks < MaxBreaks /\ breaks' = breaks + 1
    /\ connectThrows

\* ... or was closed: its task calls the ping's handler with an error.
PingFails ==
    /\ operation \in {"pong", "latePong"} /\ ~connected
    /\ connectThrows /\ UNCHANGED breaks

\* The task that sends the start.
SendStart(w) ==
    /\ w \in unsent /\ unsent' = unsent \ {w}
    /\ IF connected
       THEN toGateway' = Append(toGateway, "start") /\ UNCHANGED <<waiters, resumed, operation>>
       ELSE Resume({w} \cap waiters, "failed") /\ UNCHANGED toGateway
    /\ UNCHANGED <<connected, oldLoop, sessionActive, timers, stops, isSessionActive, stateEvent,
                   microphone, hasReportedAudioSendError, toPhone, gateway, breaks>>

AnswerTimeoutUnchecked(w) ==                                     \* mutant
    /\ w \in timers /\ timers' = timers \ {w}
    /\ Resume({w}, "failed")
    /\ UNCHANGED <<connected, oldLoop, sessionActive, unsent, stops, isSessionActive, stateEvent,
                   microphone, hasReportedAudioSendError, outside>>

AnswerTimeout(w) ==
    /\ w \in timers /\ timers' = timers \ {w}
    /\ Resume({w} \cap waiters, "failed")
    /\ UNCHANGED <<connected, oldLoop, sessionActive, unsent, stops, isSessionActive, stateEvent,
                   microphone, hasReportedAudioSendError, outside>>

\* startMicrophoneAfterAck, when the audio engine starts.
MicrophoneOn ==
    /\ operation = "acked" /\ canSendAudio /\ operation' = "none"
    /\ microphone' = TRUE /\ hasReportedAudioSendError' = FALSE
    /\ isSessionActive' = TRUE
    /\ UNCHANGED <<clientSide, stops, stateEvent, outside>>

\* ... and when it does not, or the session is over already.
MicrophoneFails ==
    /\ operation = "acked" /\ operation' = "none"
    /\ microphone' = FALSE /\ hasReportedAudioSendError' = FALSE
    /\ isSessionActive' = sessionActive
    /\ UNCHANGED <<clientSide, stops, stateEvent, outside>>

\* The catch of run.
StartFails ==
    /\ operation = "failed" /\ operation' = "none"
    /\ microphone' = FALSE
    /\ UNCHANGED <<clientSide, stops, isSessionActive, stateEvent, hasReportedAudioSendError, outside>>

-----------------------------------------------------------------------------
(* receiveLoop *)

Receive ==
    /\ connected /\ toPhone # <<>> /\ toPhone' = Tail(toPhone)
    /\ Resume(waiters, IF Head(toPhone) = "ack" THEN "acked" ELSE "failed")
    /\ sessionActive' = (sessionActive \/ Head(toPhone) = "ack")
    /\ stateEvent' = TRUE
    /\ UNCHANGED <<connected, oldLoop, timers, unsent, stops, isSessionActive, microphone,
                   hasReportedAudioSendError, toGateway, gateway, breaks>>

\* handleGatewayEvent, in a task of its own.
HandleEvent ==
    /\ stateEvent /\ stateEvent' = FALSE
    /\ isSessionActive' = sessionActive
    /\ UNCHANGED <<clientSide, operation, stops, microphone, hasReportedAudioSendError, outside>>

ConnectionBreaks ==
    /\ connected /\ breaks < MaxBreaks /\ breaks' = breaks + 1
    /\ disconnectClient
    /\ stateEvent' = TRUE
    /\ UNCHANGED <<oldLoop, timers, unsent, stops, isSessionActive, microphone,
                   hasReportedAudioSendError>>

\* The loop of a closed connection ends: it cancels the loop there is, too.
OldLoopEnds ==
    /\ oldLoop /\ oldLoop' = connected
    /\ disconnectClient
    /\ UNCHANGED <<timers, unsent, stops, isSessionActive, stateEvent, microphone,
                   hasReportedAudioSendError, breaks>>

-----------------------------------------------------------------------------
(* The session goes on and is stopped. *)

\* The tap of the engine: a buffer is sent, or the first failure stops it.
SendAudioFrame ==
    /\ microphone /\ ~canSendAudio /\ ~hasReportedAudioSendError
    /\ hasReportedAudioSendError' = TRUE /\ microphone' = FALSE
    /\ UNCHANGED <<clientSide, operation, stops, isSessionActive, stateEvent, outside>>

\* The conversion fails or the input route is lost.
CaptureFails ==
    /\ microphone /\ breaks < MaxBreaks /\ breaks' = breaks + 1
    /\ microphone' = FALSE
    /\ UNCHANGED <<clientSide, operation, stops, isSessionActive, stateEvent,
                   hasReportedAudioSendError, toGateway, toPhone, gateway>>

\* Bound: one stop at a time, on a connection with few messages under way.
FewStops == stops = 0 /\ Len(toGateway) + Len(toPhone) < MaxInFlight

\* stopLocalAudio and the task that sends the stop.
stopSending ==
    /\ microphone' = FALSE
    /\ IF connected
       THEN toGateway' = Append(toGateway, "stop") /\ stops' = stops + 1
       ELSE UNCHANGED <<toGateway, stops>>

\* The button is disabled while an operation runs.
TapStop ==
    /\ operation = "none" /\ FewStops
    /\ stopSending
    /\ UNCHANGED <<clientSide, operation, isSessionActive, stateEvent, hasReportedAudioSendError,
                   toPhone, gateway, breaks>>

\* stopForBackground does nothing before the session is active.
Background ==
    /\ microphone \/ isSessionActive
    /\ FewStops
    /\ stopSending
    /\ UNCHANGED <<clientSide, operation, isSessionActive, stateEvent, hasReportedAudioSendError,
                   toPhone, gateway, breaks>>

\* The send of a stop returns or, the connection being closed, throws.
StopSent ==
    /\ stops > 0 /\ stops' = stops - 1
    /\ \/ sessionActive' = FALSE /\ isSessionActive' = FALSE
       \/ UNCHANGED <<sessionActive, isSessionActive>>
    /\ UNCHANGED <<connected, oldLoop, waiters, resumed, timers, unsent, operation, stateEvent,
                   microphone, hasReportedAudioSendError, outside>>

\* Disconnect, unless an operation runs, or the view goes away.
CloseSession ==
    /\ connected
    /\ disconnectClient /\ oldLoop' = TRUE
    /\ microphone' = FALSE /\ isSessionActive' = FALSE
    /\ UNCHANGED <<timers, unsent, stops, stateEvent, hasReportedAudioSendError, breaks>>

-----------------------------------------------------------------------------
(* The gateway, from what it sends: a session is started once a connection.   *)

GatewayAnswers ==
    /\ toGateway # <<>> /\ toGateway' = Tail(toGateway)
    /\ \/ /\ Head(toGateway) = "start" /\ gateway = "idle"
          /\ \/ gateway' = "active" /\ toPhone' = Append(toPhone, "ack")
             \/ gateway' = "over" /\ toPhone' = Append(toPhone, "error")
       \/ Head(toGateway) = "stop" /\ gateway = "active" /\ gateway' = "over" /\ UNCHANGED toPhone
       \/ /\ Head(toGateway) = "stop" => gateway # "active"
          /\ Head(toGateway) = "start" => gateway # "idle"
          /\ toPhone' = Append(toPhone, "error") /\ UNCHANGED gateway
    /\ UNCHANGED <<clientSide, viewSide, breaks>>

-----------------------------------------------------------------------------

\* The operation asks, or waits, for what is outside the app: the user's permission,
\* or a pong.
OperationAsks ==
    PermissionDenied \/ StartConnected \/ Connect \/ Pong \/ LatePong \/ PingBreaks

\* The operation goes on by itself.
OperationGoesOn ==
    PingTimeout \/ PingFails \/ MicrophoneOn \/ MicrophoneFails \/ StartFails

PhoneNext ==
    \/ TapStart \/ OperationAsks \/ OperationGoesOn
    \/ \E w \in Waiters : SendStart(w) \/ AnswerTimeout(w)
    \/ Receive \/ HandleEvent \/ ConnectionBreaks \/ OldLoopEnds
    \/ SendAudioFrame \/ CaptureFails \/ TapStop \/ Background \/ StopSent \/ CloseSession
    \/ GatewayAnswers

PhoneSpec == PhoneInit /\ [][PhoneNext]_phoneVars

\* Buffers keep coming while the engine runs; an operation that can go on by itself
\* does, and a timer fires: what the main actor's tasks, the audio engine and a closed
\* socket do. No pong and no answer of the gateway, and no step of the user, is assumed.
PhoneFairness ==
    /\ WF_phoneVars(SendAudioFrame) /\ WF_phoneVars(OperationGoesOn)
    /\ \A w \in Waiters : WF_phoneVars(AnswerTimeout(w))

-----------------------------------------------------------------------------
(* Properties *)

\* A start's continuation is resumed once at most: an answer, a timer, a failed
\* send and a disconnect may all come, in any order.
ResumedOnce == \A w \in Waiters : resumed[w] <= 1

\* The start waits for the user to answer the system's question, or for a pong that an
\* open socket has not delivered: no timer ends either wait.
WaitsUntimed ==
    \/ operation = "permission"
    \/ operation \in {"pong", "latePong"} /\ connected

\* Whatever becomes of the gateway's answer and of the connection, a start ends, so that
\* the button works again, unless it waits for good for the user or for a pong.
StartEnds == []<>(operation = "none") \/ <>[]WaitsUntimed

\* A microphone whose audio can no longer be sent is stopped.
MicrophoneFollowsSession == microphone /\ ~canSendAudio ~> ~microphone \/ canSendAudio
=============================================================================
