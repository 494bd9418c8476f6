------------------------------ MODULE LivePage ------------------------------
(***************************************************************************)
(* The microphone of the gateway's live page (services/voice-gateway/public/    *)
(* live-client.js). One page keeps one socket, one stream, one audio context and *)
(* one flag in its globals, while the calls that use them wait: for the user's    *)
(* permission, for the worklet, for a context to close. Every socket it ever      *)
(* made keeps its listeners.                                                  *)
(*                                                                         *)
(* Left out: sessions of typed text, whose ack starts no microphone, the         *)
(* worklet's frames, speech, and what is shown. The gateway accepts one start a   *)
(* socket. A stream and its audio context have the number of the start that got  *)
(* them.                                                                    *)
(***************************************************************************)
EXTENDS Naturals, Sequences

CONSTANTS
    MaxSockets,     \* sockets the page makes (bound)
    MaxMicStarts,   \* microphone starts (bound)
    MaxMicStops     \* stops that wait for a context at the same time (bound)

ASSUME LivePageAssumption == {MaxSockets, MaxMicStarts, MaxMicStops} \subseteq Nat

VARIABLES
    pageSockets,    \* [state, session] of each socket in the order they were made
    consentChecked,
    startAccepted,
    micStarts,      \* what each startMic waits for: "media", "module" or nothing
    micStops,       \* stopMic calls that wait for the context to close
    mediaStream, audioContext,      \* 0 for null
    liveStreams,    \* streams that capture
    late,           \* history: streams granted after a stop
    lost,           \* history: streams replaced while they captured
    hushed          \* history: the last ack came during a stop, or without consent

pageVars == <<pageSockets, consentChecked, startAccepted, micStarts, micStops, mediaStream,
              audioContext, liveStreams, late, lost, hushed>>
micVars == <<micStarts, micStops, mediaStream, audioContext, liveStreams, late, lost>>

PageInit ==
    /\ pageSockets = <<>> /\ consentChecked = FALSE /\ startAccepted = FALSE
    /\ micStarts = <<>> /\ micStops = 0 /\ mediaStream = 0 /\ audioContext = 0
    /\ liveStreams = {} /\ late = {} /\ lost = {} /\ hushed = FALSE

PageTypeOK ==
    /\ pageSockets \in Seq([state : {"connecting", "open", "closing", "closed"},
                            session : {"none", "sent", "active", "over"}])
    /\ {consentChecked, startAccepted, hushed} \subseteq BOOLEAN
    /\ micStarts \in Seq({"media", "module", "done"}) /\ micStops \in 0..MaxMicStops
    /\ {mediaStream, audioContext} \subseteq 0..Len(micStarts)
    /\ liveStreams \cup late \cup lost \subseteq DOMAIN micStarts

-----------------------------------------------------------------------------
(* A definition marked "mutant" is a faulty variant of the one after it; no    *)
(* formula uses it.                                                          *)

pageSocket == Len(pageSockets)      \* the page's socket is the last one made
SocketIs(s, state) == pageSockets[s].state = state
SetSocket(s, field, value) == pageSockets' = [pageSockets EXCEPT ![s][field] = value]

ReleaseKeepsTracks ==                                            \* mutant
    audioContext' = 0 /\ mediaStream' = 0 /\ UNCHANGED liveStreams

Release == audioContext' = 0 /\ mediaStream' = 0 /\ liveStreams' = liveStreams \ {mediaStream}

\* stopMic: it waits for the context, if there is one, and then releases whatever
\* the page has by then.
StopMic ==
    /\ startAccepted' = FALSE
    /\ IF audioContext = 0 THEN Release /\ UNCHANGED micStops
       ELSE /\ micStops < MaxMicStops /\ micStops' = micStops + 1
            /\ UNCHANGED <<mediaStream, audioContext, liveStreams>>

ContextClosed ==
    /\ micStops > 0 /\ micStops' = micStops - 1
    /\ Release
    /\ UNCHANGED <<pageSockets, consentChecked, startAccepted, micStarts, late, lost, hushed>>

ToggleConsent ==
    /\ consentChecked' = ~consentChecked
    /\ UNCHANGED <<pageSockets, startAccepted, micVars, hushed>>

-----------------------------------------------------------------------------
(* The sockets *)

PageConnect ==
    /\ Len(pageSockets) < MaxSockets
    /\ pageSockets' = Append(pageSockets, [state |-> "connecting", session |-> "none"])
    /\ UNCHANGED <<consentChecked, startAccepted, micVars, hushed>>

PageOpens(s) ==
    /\ SocketIs(s, "connecting") /\ SetSocket(s, "state", "open")
    /\ UNCHANGED <<consentChecked, startAccepted, micVars, hushed>>

\* The close event of any socket stops the microphone there is.
PageCloses(s) ==
    /\ ~SocketIs(s, "closed") /\ SetSocket(s, "state", "closed")
    /\ StopMic
    /\ UNCHANGED <<consentChecked, micStarts, late, lost, hushed>>

DisconnectClick ==
    /\ pageSocket # 0 => ~SocketIs(pageSocket, "closed")
    /\ StopMic
    /\ IF pageSocket = 0 THEN UNCHANGED pageSockets
       ELSE SetSocket(pageSocket, "state", "closing")
    /\ UNCHANGED <<consentChecked, micStarts, late, lost, hushed>>

StartClick ==
    /\ pageSocket # 0 /\ SocketIs(pageSocket, "open") /\ consentChecked
    /\ pageSockets[pageSocket].session = "none" /\ SetSocket(pageSocket, "session", "sent")
    /\ UNCHANGED <<consentChecked, startAccepted, micVars, hushed>>

StopClick ==
    /\ IF pageSocket # 0 /\ SocketIs(pageSocket, "open") /\ pageSockets[pageSocket].session = "active"
       THEN SetSocket(pageSocket, "session", "over") ELSE UNCHANGED pageSockets
    /\ StopMic
    /\ UNCHANGED <<consentChecked, micStarts, late, lost, hushed>>

\* gateway_ack, of any socket that is open.
AckArrives(s) ==
    /\ SocketIs(s, "open") /\ pageSockets[s].session = "sent"
    /\ SetSocket(s, "session", "active")
    /\ startAccepted' = TRUE
    /\ hushed' = (micStops > 0 \/ ~consentChecked)
    /\ IF consentChecked
       THEN Len(micStarts) < MaxMicStarts /\ micStarts' = Append(micStarts, "media")
       ELSE UNCHANGED micStarts
    /\ UNCHANGED <<consentChecked, micStops, mediaStream, audioContext, liveStreams, late, lost>>

\* No speech recognition, at the start or later.
ProviderFails(s) ==
    /\ SocketIs(s, "open") /\ pageSockets[s].session \in {"sent", "active"}
    /\ IF pageSockets[s].session = "sent" THEN SetSocket(s, "session", "over")
       ELSE UNCHANGED pageSockets
    /\ StopMic
    /\ UNCHANGED <<consentChecked, micStarts, late, lost, hushed>>

-----------------------------------------------------------------------------
(* startMic *)

MicAt(n, step) == micStarts[n] = step
MicGo(n, step) == micStarts' = [micStarts EXCEPT ![n] = step]

MediaGranted(n) ==
    /\ MicAt(n, "media") /\ MicGo(n, "module")
    /\ mediaStream' = n /\ audioContext' = n
    /\ liveStreams' = liveStreams \cup {n}
    /\ late' = IF startAccepted THEN late ELSE late \cup {n}
    /\ lost' = lost \cup ({mediaStream} \ {0})
    /\ UNCHANGED <<pageSockets, consentChecked, startAccepted, micStops, hushed>>

\* The module is there; the stream and the context are those the page has now, and
\* another context may lack the module.
ModuleLoads(n) ==
    /\ MicAt(n, "module") /\ mediaStream # 0
    /\ audioContext = n \/ ~MicAt(audioContext, "module")
    /\ MicGo(n, "done")
    /\ UNCHANGED <<pageSockets, consentChecked, startAccepted, micStops, mediaStream,
                   audioContext, liveStreams, late, lost, hushed>>

\* The permission is refused, the module does not load, or there is nothing to
\* connect any more.
MicFails(n) ==
    /\ ~MicAt(n, "done") /\ MicGo(n, "done")
    /\ StopMic
    /\ UNCHANGED <<pageSockets, consentChecked, late, lost, hushed>>

PageNext ==
    \/ ToggleConsent \/ PageConnect \/ DisconnectClick \/ StartClick \/ StopClick \/ ContextClosed
    \/ \E s \in DOMAIN pageSockets :
         PageOpens(s) \/ PageCloses(s) \/ AckArrives(s) \/ ProviderFails(s)
    \/ \E n \in DOMAIN micStarts : MediaGranted(n) \/ ModuleLoads(n) \/ MicFails(n)

PageSpec == PageInit /\ [][PageNext]_pageVars

-----------------------------------------------------------------------------
(* Properties *)

\* With no session accepted and no stop under way the microphone is off, unless it
\* was granted after the stop or its stream was replaced by a second one; and a
\* session that is accepted has its microphone, or waits for it, unless its ack
\* came during a stop or after the consent was taken back (startMic, stopMic).
PageMicFollowsSession ==
    /\ ~startAccepted /\ micStops = 0 => liveStreams \subseteq late \cup lost
    /\ startAccepted /\ ~hushed => mediaStream # 0 \/ \E n \in DOMAIN micStarts : MicAt(n, "media")
=============================================================================
