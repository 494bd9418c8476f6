---------------------------- MODULE VoiceGateway ----------------------------
(***************************************************************************)
(* One voice call: a client socket of the gateway, the GatewaySession that  *)
(* serves it, the backend socket it opens, and the backend's voice socket   *)
(* at the other end (its session reduced to whether and how it ended;       *)
(* VoiceSession has its inside).                                            *)
(*                                                                         *)
(* The gateway handles client messages one at a time: task names the await  *)
(* the current handler is suspended in. Timers, the two close events and    *)
(* recognition results run in between. The generation of a session changes  *)
(* only when active becomes FALSE, so canEmit needs no counter. Replies of   *)
(* the backend other than the answer to start are forwarded unchanged and   *)
(* left out.                                                                *)
(***************************************************************************)
EXTENDS Naturals, Sequences

CONSTANTS
    MaxInputs,   \* texts, transcripts and barge-ins forwarded to the backend
    MaxDrops     \* times the network breaks the backend connection

ASSUME ConstantsAssumption == MaxInputs \in Nat /\ MaxDrops \in Nat

VARIABLES
    \* The gateway session.
    state, active, explicitlyStopped, asr, idleTimer,
    task,         \* where the handler of the current client message waits
    pcm,          \* the session takes audio
    heard,        \* audio was sent whose recognition result is outstanding
    \* The client.
    clientOpen,
    asked,        \* history: the decision of the first stop that was sent
    inputs,       \* how many inputs were forwarded
    \* The backend connection.
    link, attached, wire, answer, drops,
    \* The backend's voice socket.
    inbox, bpc, outcome, bStopped, bClosed

gatewayVars == <<state, active, explicitlyStopped, asr, idleTimer, task, pcm, heard>>
clientVars == <<clientOpen, asked, inputs>>
linkVars == <<link, attached, wire, answer, drops>>
backendVars == <<inbox, bpc, outcome, bStopped, bClosed>>
vars == <<gatewayVars, clientVars, linkVars, backendVars>>

Decisions == {"save", "discard"}
Ended == {"stopped", "interrupted", "failed"}

Init ==
    /\ state = "idle" /\ active = TRUE /\ explicitlyStopped = FALSE
    /\ asr = "none" /\ idleTimer = FALSE /\ task = "none"
    /\ pcm = FALSE /\ heard = FALSE
    /\ clientOpen = TRUE /\ asked = "nothing" /\ inputs = 0
    /\ link = "none" /\ attached = FALSE /\ wire = <<>> /\ answer = "none" /\ drops = 0
    /\ inbox = <<>> /\ bpc = "idle" /\ outcome = "none"
    /\ bStopped = FALSE /\ bClosed = FALSE

-----------------------------------------------------------------------------
(* Pieces of the handlers. A definition marked "mutant" is a faulty variant of *)
(* the one after it; no formula uses it.                                      *)

canEmit == active /\ state \notin Ended

\* A control message is refused unless a session was started and is active.
Accepts == link # "none" /\ active /\ state \notin {"idle", "failed"}

\* Every client message restarts the idle timer of an active session.
bumpClient == idleTimer' = active

\* BackendVoiceClient.close: a socket still connecting is given up, an open
\* one is closed after what was sent on it.
CloseBackend ==
    link' = CASE link = "connecting" -> "closed"
              [] link = "open" -> "closing"
              [] OTHER -> link

\* BackendVoiceClient.send throws unless the socket is open.
SendOrThrow(m) == wire' = IF link = "open" THEN Append(wire, m) ELSE wire

StopAsr == asr' = IF asr = "running" THEN "stopped" ELSE asr

\* Only an open socket is closed.
\* GatewaySession.disconnect. It does not touch the message being handled;
\* timer says whether the idle timer is pending when it is called.
disconnect(timer) ==
    IF active /\ ~explicitlyStopped
    THEN /\ active' = FALSE
         /\ state' = "interrupted"
         /\ idleTimer' = FALSE
         /\ StopAsr
         /\ CloseBackend
    ELSE /\ idleTimer' = timer
         /\ UNCHANGED <<active, state, asr, link>>

-----------------------------------------------------------------------------
(* Client messages. A message the client sent before it closed its socket is *)
(* still handled afterwards, so clientOpen guards none of them.              *)

\* A start without consent, or with audio when there is no recogniser.
RefuseStart ==
    /\ task = "none" /\ link = "none" /\ state = "idle"
    /\ bumpClient
    /\ state' = "failed"
    /\ UNCHANGED <<active, explicitlyStopped, asr, task, pcm, heard, clientVars, linkVars, backendVars>>

start(audio) ==
    /\ task = "none" /\ link = "none" /\ state = "idle"
    /\ bumpClient
    /\ state' = "starting"
    /\ pcm' = audio
    /\ link' = "connecting"
    /\ task' = "open"
    /\ UNCHANGED <<active, explicitlyStopped, asr, heard, clientVars, attached, wire, answer, drops, backendVars>>

\* A message the session refuses, or a second start.
RefuseMessage ==
    /\ task = "none"
    /\ \/ ~Accepts
       \/ link # "none"
    /\ bumpClient
    /\ UNCHANGED <<state, active, explicitlyStopped, asr, task, pcm, heard, clientVars, linkVars, backendVars>>

\* user_text, transcript, speech_started, speech_ended.
Forward ==
    /\ task = "none" /\ Accepts /\ inputs < MaxInputs
    /\ bumpClient
    /\ SendOrThrow("input")
    /\ inputs' = inputs + 1
    /\ UNCHANGED <<state, active, explicitlyStopped, asr, task, pcm, heard, clientOpen, asked, link, attached, answer, drops, backendVars>>

handleBinary ==
    /\ task = "none" /\ active /\ state # "idle" /\ asr # "none" /\ pcm
    /\ bumpClient
    /\ heard' = TRUE
    /\ UNCHANGED <<state, active, explicitlyStopped, asr, task, pcm, clientVars, linkVars, backendVars>>

\* stop up to its delay. When the send throws, the handler ends there.
stop(d) ==
    /\ task = "none" /\ Accepts
    /\ bumpClient
    /\ explicitlyStopped' = TRUE
    /\ state' = "stopping"
    /\ SendOrThrow(d)
    /\ task' = IF link = "open" THEN "delay" ELSE "none"
    /\ asked' = IF link = "open" /\ asked = "nothing" THEN d ELSE asked
    /\ UNCHANGED <<active, asr, pcm, heard, clientOpen, inputs, link, attached, answer, drops, backendVars>>

\* stop after its delay of one second.
StopDelayEnds ==
    /\ task = "delay"
    /\ task' = "none"
    /\ active' = FALSE
    /\ idleTimer' = FALSE
    /\ StopAsr
    /\ CloseBackend
    /\ state' = "stopped"
    /\ UNCHANGED <<explicitlyStopped, pcm, heard, clientVars, attached, wire, answer, drops, backendVars>>

ClientCloses ==
    /\ clientOpen
    /\ clientOpen' = FALSE
    /\ disconnect(idleTimer)
    /\ UNCHANGED <<explicitlyStopped, task, pcm, heard, asked, inputs, attached, wire, answer, drops, backendVars>>

-----------------------------------------------------------------------------
(* The backend client: connecting, the answer to start, timeouts. *)

\* The socket opens. When the start still waits, its listeners are attached
\* and the start message is sent.
BackendOpens ==
    /\ link = "connecting"
    /\ link' = "open"
    /\ IF task = "open"
       THEN attached' = TRUE /\ wire' = <<"start">> /\ task' = "ack"
       ELSE UNCHANGED <<attached, wire, task>>
    /\ UNCHANGED <<state, active, explicitlyStopped, asr, idleTimer, pcm, heard, clientVars, answer, drops, backendVars>>

\* The connection is refused, or was given up while connecting.
ConnectFails ==
    /\ \/ link = "connecting"
       \/ link = "closed" /\ task = "open"
    /\ link' = "closed"
    /\ task' = IF task = "open" THEN "none" ELSE task
    /\ UNCHANGED <<state, active, explicitlyStopped, asr, idleTimer, pcm, heard, clientVars, attached, wire, answer, drops, backendVars>>

ConnectTimesOutOnly ==                                                   \* mutant
    /\ task = "open"
    /\ task' = "none"
    /\ UNCHANGED <<state, active, explicitlyStopped, asr, idleTimer, pcm, heard, clientVars, linkVars, backendVars>>

\* One of the two timeouts of start: the handler throws, nothing is closed.
StartTimesOut ==
    /\ task \in {"open", "ack"}
    /\ task' = "none"
    /\ UNCHANGED <<state, active, explicitlyStopped, asr, idleTimer, pcm, heard, clientVars, linkVars, backendVars>>

StartRejected ==
    /\ task = "ack" /\ answer = "error"
    /\ task' = "none"
    /\ UNCHANGED <<state, active, explicitlyStopped, asr, idleTimer, pcm, heard, clientVars, linkVars, backendVars>>

AckArrivesUnchecked ==                                                   \* mutant
    /\ task = "ack" /\ answer = "ack" /\ link # "broken"
    /\ task' = "none" /\ state' = "listening" /\ idleTimer' = TRUE
    /\ asr' = IF pcm THEN "running" ELSE asr
    /\ UNCHANGED <<active, explicitlyStopped, pcm, heard, clientVars, linkVars, backendVars>>

\* voice_ack arrives: the rest of start, with startAsr.
AckArrives ==
    /\ task = "ack" /\ answer = "ack" /\ link # "broken"
    /\ task' = "none"
    /\ IF canEmit
       THEN /\ state' = "listening"
            /\ asr' = IF pcm THEN "running" ELSE asr
            /\ idleTimer' = TRUE
       ELSE UNCHANGED <<state, asr, idleTimer>>
    /\ UNCHANGED <<active, explicitlyStopped, pcm, heard, clientVars, linkVars, backendVars>>

-----------------------------------------------------------------------------
(* Timers and callbacks of the gateway session. *)

IdleTimeout ==
    /\ idleTimer
    /\ disconnect(FALSE)
    /\ UNCHANGED <<explicitlyStopped, task, pcm, heard, clientVars, attached, wire, answer, drops, backendVars>>

\* The recogniser may still deliver after requestClose.
onFinal ==
    /\ heard
    /\ heard' = FALSE
    /\ IF canEmit /\ inputs < MaxInputs
       THEN SendOrThrow("input") /\ inputs' = inputs + 1
       ELSE UNCHANGED <<wire, inputs>>
    /\ UNCHANGED <<state, active, explicitlyStopped, asr, idleTimer, task, pcm, clientOpen, asked, link, attached, answer, drops, backendVars>>

\* The close event of the backend socket.
BackendCloseSeen ==
    /\ link = "broken" /\ attached
    /\ attached' = FALSE
    /\ disconnect(idleTimer)
    /\ UNCHANGED <<explicitlyStopped, task, pcm, heard, clientVars, wire, answer, drops, backendVars>>

-----------------------------------------------------------------------------
(* The network. *)

Deliver ==
    /\ wire # <<>> /\ link \in {"open", "closing"}
    /\ inbox' = Append(inbox, Head(wire))
    /\ wire' = Tail(wire)
    /\ UNCHANGED <<gatewayVars, clientVars, link, attached, answer, drops, bpc, outcome, bStopped, bClosed>>

\* The connection breaks and what was under way is lost.
Drop ==
    /\ link \in {"open", "closing"} /\ drops < MaxDrops
    /\ link' = "broken"
    /\ wire' = <<>>
    /\ drops' = drops + 1
    /\ UNCHANGED <<gatewayVars, clientVars, attached, answer, backendVars>>

-----------------------------------------------------------------------------
(* The backend's voice socket: its own queue of messages and its close event. *)

HandleByName ==                                                          \* mutant
    /\ bpc = "idle" /\ inbox # <<>>
    /\ inbox' = Tail(inbox)
    /\ bpc' = Head(inbox)
    /\ bStopped' = (bStopped \/ (outcome = "active" /\ Head(inbox) \in Decisions))
    /\ UNCHANGED <<gatewayVars, clientVars, linkVars, outcome, bClosed>>

\* The next message of the queue is taken up.
Handle ==
    /\ bpc = "idle" /\ inbox # <<>>
    /\ inbox' = Tail(inbox)
    /\ bpc' = CASE Head(inbox) = "start" -> "starting"
                [] Head(inbox) # "start" /\ outcome # "active" -> "idle"
                [] Head(inbox) \in Decisions /\ outcome = "active" -> Head(inbox)
                [] OTHER -> "answering"
    /\ bStopped' = (bStopped \/ (outcome = "active" /\ Head(inbox) \in Decisions))
    /\ UNCHANGED <<gatewayVars, clientVars, linkVars, outcome, bClosed>>

\* startSession and the voice_sessions row; the answer to start.
Started(ok) ==
    /\ bpc = "starting"
    /\ bpc' = "idle"
    /\ outcome' = IF ok THEN "active" ELSE outcome
    /\ answer' = IF bClosed THEN answer ELSE IF ok THEN "ack" ELSE "error"
    /\ UNCHANGED <<gatewayVars, clientVars, link, attached, wire, drops, inbox, bStopped, bClosed>>

Answered ==
    /\ bpc = "answering"
    /\ bpc' = "idle"
    /\ UNCHANGED <<gatewayVars, clientVars, linkVars, inbox, outcome, bStopped, bClosed>>

\* stopVoiceSession.
Stopped ==
    /\ bpc \in Decisions
    /\ bpc' = "idle"
    /\ outcome' = IF bpc = "save" THEN "saved" ELSE "discarded"
    /\ UNCHANGED <<gatewayVars, clientVars, linkVars, inbox, bStopped, bClosed>>

ClosedDespiteStop ==                                                     \* mutant
    /\ ~bClosed
    /\ (link = "closing" /\ wire = <<>>) \/ link = "broken"
    /\ bClosed' = TRUE
    /\ outcome' = IF outcome = "active" THEN "interrupted" ELSE outcome
    /\ UNCHANGED <<gatewayVars, clientVars, linkVars, inbox, bpc, bStopped>>

\* The close event at the backend, which does not wait for the queue.
Closed ==
    /\ ~bClosed
    /\ \/ link = "closing" /\ wire = <<>>
       \/ link = "broken"
    /\ bClosed' = TRUE
    /\ outcome' = IF outcome = "active" /\ ~bStopped THEN "interrupted" ELSE outcome
    /\ UNCHANGED <<gatewayVars, clientVars, linkVars, inbox, bpc, bStopped>>

-----------------------------------------------------------------------------
ClientMessage ==
    \/ RefuseStart
    \/ \E audio \in BOOLEAN : start(audio)
    \/ RefuseMessage
    \/ Forward
    \/ handleBinary
    \/ \E d \in Decisions : stop(d)

GatewayStep ==
    \/ StopDelayEnds
    \/ ConnectFails
    \/ StartTimesOut
    \/ StartRejected
    \/ AckArrives
    \/ onFinal
    \/ BackendCloseSeen

BackendStep ==
    \/ Handle
    \/ \E ok \in BOOLEAN : Started(ok)
    \/ Answered
    \/ Stopped
    \/ Closed

Next ==
    \/ ClientMessage
    \/ ClientCloses
    \/ GatewayStep
    \/ BackendOpens
    \/ IdleTimeout
    \/ Deliver
    \/ Drop
    \/ BackendStep

Spec == Init /\ [][Next]_vars

\* Timers fire, what was sent on a connection that holds arrives, and every
\* statement and provider call of the backend returns. Nothing obliges the
\* client to send, to stop or to close, nor the network to break.
Fairness ==
    /\ WF_vars(StopDelayEnds) /\ WF_vars(ConnectFails)
    /\ WF_vars(StartTimesOut) /\ WF_vars(StartRejected) /\ WF_vars(AckArrives)
    /\ WF_vars(BackendCloseSeen) /\ WF_vars(Deliver)
    /\ WF_vars(BackendStep)

FairSpec == Spec /\ Fairness

-----------------------------------------------------------------------------
(* Properties. *)

TypeOK ==
    /\ state \in {"idle", "starting", "listening", "stopping"} \cup Ended
    /\ active \in BOOLEAN /\ explicitlyStopped \in BOOLEAN /\ idleTimer \in BOOLEAN
    /\ asr \in {"none", "running", "stopped"}
    /\ task \in {"none", "open", "ack", "delay"}
    /\ pcm \in BOOLEAN /\ heard \in BOOLEAN /\ clientOpen \in BOOLEAN
    /\ asked \in {"nothing"} \cup Decisions
    /\ inputs \in 0..MaxInputs /\ drops \in 0..MaxDrops
    /\ link \in {"none", "connecting", "open", "closing", "closed", "broken"}
    /\ attached \in BOOLEAN
    /\ wire \in Seq({"start", "input"} \cup Decisions)
    /\ inbox \in Seq({"start", "input"} \cup Decisions)
    /\ answer \in {"none", "ack", "error"}
    /\ bpc \in {"idle", "starting", "answering"} \cup Decisions
    /\ outcome \in {"none", "active", "saved", "discarded", "interrupted"}
    /\ bStopped \in BOOLEAN /\ bClosed \in BOOLEAN

\* A gateway session that is over has stopped its recogniser, closed its
\* backend socket and stays over, also when the end came while the answer to
\* start was awaited.
OverIsReleased ==
    ~active => /\ asr # "running"
               /\ link \notin {"connecting", "open"}
               /\ state \in Ended

\* The client's session at the backend: begun once, ended once, saved or
\* discarded only as the client decided (CallOutcome).
Outcome == INSTANCE CallOutcome
OutcomeSpec == Outcome!Spec

\* The handler of a client message returns or throws, whatever the backend
\* does: a start that is never answered does not block the messages behind it.
HandlersEnd == (task # "none") ~> (task = "none")

\* When the client is gone, a session that the backend had opened before its
\* own close event ends.
GoneEndsSession ==
    (~clientOpen /\ outcome = "active" /\ ~bClosed) ~> (outcome # "active")

\* Both: nothing that the client waits for or leaves behind stays for ever.
GatewayLiveness == HandlersEnd /\ GoneEndsSession

\* README.md:452-453: a stop makes the session discarded or saved. The gateway
\* waits one second and closes the backend socket: it may close before the
\* backend takes up the stop behind an input it is still storing.
StopIsHonoured ==
    \A d \in Decisions :
        (asked = d /\ task = "delay" /\ asr = "running" /\ outcome = "active") ~> (outcome = Outcome!EndOf(d))
=============================================================================
