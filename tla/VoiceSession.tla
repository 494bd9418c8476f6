---------------------------- MODULE VoiceSession ----------------------------
(***************************************************************************)
(* One voice session of a client socket (src/voice/ws.ts, state.ts).       *)
(* Messages are handled one at a time; recognised transcripts, the agent's *)
(* answers and the socket's close event are not in that queue and run      *)
(* between any two awaits.  One action is what a coroutine does from one   *)
(* await to the next.                                                      *)
(*                                                                         *)
(* The generation of a session changes only when it becomes inactive, so   *)
(* canWrite is "active, and the row active".  canWrite looks at the first  *)
(* before it awaits the second; both only ever turn false, so one action   *)
(* that reads them together has the same outcomes.                         *)
(***************************************************************************)
EXTENDS Naturals

CONSTANTS
    Utterances,     \* user texts and transcripts; also the speech each leads to
    NoSpeech,
    MaxFaults       \* bound of the model: statements that fail

ASSUME ConstantsAssumption ==
    /\ NoSpeech \notin Utterances
    /\ Utterances \cap {"idle", "start", "speechStarted", "speechEnded", "stop"} = {}
    /\ MaxFaults \in Nat

VARIABLES
    status,                 \* sessions.status, "none": no row
    discardOnStop, speaks,  \* retention_policy; outputKind is not text
    rowState, rowSpeech,    \* state and current_speech_id of the voice_sessions row
    machine, speech,        \* VoiceStateMachine
    active, joined,         \* session.active; the handler's session is not null
    wish,                   \* what the stop message asked for (explicitlyStopped)
    handling, step,         \* what the message queue waits for, and where
    silencing,              \* the speech cancelSpeech is canceling
    open,                   \* the socket
    phase,                  \* how far the session has started or ended
    kind, pc,               \* of an utterance: what it is, where its coroutine waits
    turns, replies,         \* agent_turns rows: of the user, of assistant and cue
    outputs,                \* voice_outputs rows of a speech: type and status
    shown, spoken, silenced, \* texts and cues, speak requests and cancels sent
    faults

rowVars == <<rowState, rowSpeech>>
machineVars == <<machine, speech>>
sessionVars == <<status, discardOnStop, speaks, active, joined, phase>>
queueVars == <<wish, handling, step, silencing, open>>
content == <<turns, replies, outputs>>
sent == <<shown, spoken, silenced>>
vars == <<sessionVars, rowVars, machineVars, queueVars, kind, pc, content, sent, faults>>

TextSteps == {"turnCheck", "turnInsert", "think", "thinkRow", "research"}
HeardSteps == {"heard", "heardTurnCheck", "heardTurnInsert", "push"}
ReplySteps == {"gate", "replyCheck", "replyInsert", "outCheck", "outInsert", "show", "listenRow",
               "speakCheck", "speakOutCheck", "speakOutInsert", "speakRow"}
FailSteps == {"failGate", "fail", "failRow"}
Steps == TextSteps \cup HeardSteps \cup ReplySteps \cup FailSteps \cup {"ask"}
\* The steps of a text from transition(thinking) to the next transition.
Pending == {"thinkRow", "research", "ask", "failGate", "fail"} \cup (ReplySteps \ {"listenRow"})
Ended == {"saved", "discarded", "interrupted"}

Init ==
    /\ status = "none" /\ discardOnStop = FALSE /\ speaks = FALSE
    /\ rowState = "none" /\ rowSpeech = NoSpeech
    /\ machine = "listening" /\ speech = NoSpeech
    /\ active = FALSE /\ joined = FALSE
    /\ wish = "none" /\ handling = "idle" /\ step = "none" /\ silencing = NoSpeech /\ open = TRUE
    /\ phase = "none"
    /\ kind = [u \in Utterances |-> "none"]
    /\ pc = [u \in Utterances |-> "none"]
    /\ turns = {} /\ replies = {}
    /\ outputs = [u \in Utterances |-> {}]
    /\ shown = {} /\ spoken = {} /\ silenced = {}
    /\ faults = 0

CanWrite == active /\ status = "active"

\* An event goes out while the socket is open.
Emit(events, u) == IF open THEN events \cup {u} ELSE events

-----------------------------------------------------------------------------
(* Starting.  A definition marked "mutant" is a faulty variant of the one   *)
(* after it; no action uses it, and README.md says which property fails     *)
(* with it.                                                                 *)

\* A start message, up to the sessions row of startSession.
Start ==
    /\ handling = "idle" /\ status = "none"
    /\ status' = "active"
    /\ discardOnStop' \in BOOLEAN /\ speaks' \in BOOLEAN
    /\ handling' = "start"
    /\ phase' = "start"
    /\ UNCHANGED <<active, joined, rowVars, machineVars, wish, step, silencing, open, kind, pc,
                   content, sent, faults>>

\* The voice_sessions row is stored; the handler has its session.
Started ==
    /\ phase = "start"
    /\ rowState' = "listening"
    /\ active' = TRUE /\ joined' = TRUE
    /\ phase' = "live"
    /\ handling' = "idle"
    /\ UNCHANGED <<status, discardOnStop, speaks, rowSpeech, machineVars, wish, step, silencing,
                   open, kind, pc, content, sent, faults>>

-----------------------------------------------------------------------------
(* Utterances. *)

\* The queue goes on once a handler is done or leaves the answer to the agent.
GoTo(u, s) ==
    /\ pc' = [pc EXCEPT ![u] = s]
    /\ handling' = IF s \in {"done", "ask"} /\ handling = u THEN "idle" ELSE handling

\* What every step of an utterance leaves alone.
quiet == <<sessionVars, wish, step, silencing, open, kind, silenced, faults>>

\* A canWrite that ends the coroutine, and one that only skips a row.
Gate(u, s) == GoTo(u, IF CanWrite THEN s ELSE "done")
Persist(u, insert, skip) == GoTo(u, IF CanWrite THEN insert ELSE skip)

Arrive(u, k, s) ==
    /\ pc[u] = "none"
    /\ kind' = [kind EXCEPT ![u] = k]
    /\ pc' = [pc EXCEPT ![u] = s]
    /\ UNCHANGED <<sessionVars, rowVars, machineVars, wish, step, silencing, open, content, sent,
                   faults>>

TextNotAwaited(u) ==                                                           \* mutant
    /\ handling = "idle" /\ active
    /\ Arrive(u, "text", "turnCheck")
    /\ UNCHANGED handling
\* A user_text message.
Text(u) ==
    /\ handling = "idle" /\ active
    /\ Arrive(u, "text", "turnCheck")
    /\ handling' = u

\* A transcript message, or a final recognition result, which is not queued.
Transcript(u) ==
    /\ handling = "idle" /\ active
    /\ Arrive(u, "transcript", "heard")
    /\ handling' = u
Hear(u) ==
    /\ joined
    /\ Arrive(u, "transcript", "heard")
    /\ UNCHANGED handling

\* persistTurn of the user's words.
TurnCheck(u) ==
    /\ \/ pc[u] = "turnCheck" /\ Persist(u, "turnInsert", "think")
       \/ pc[u] = "heardTurnCheck" /\ Persist(u, "heardTurnInsert", "push")
    /\ UNCHANGED <<quiet, rowVars, machineVars, content, shown, spoken>>

TurnInsert(u) ==
    /\ \/ pc[u] = "turnInsert" /\ GoTo(u, "think")
       \/ pc[u] = "heardTurnInsert" /\ GoTo(u, "push")
    /\ turns' = turns \cup {u}
    /\ UNCHANGED <<quiet, rowVars, machineVars, replies, outputs, shown, spoken>>

\* transition(thinking): it throws while the session speaks, and the queue
\* reports that.
Think(u) ==
    /\ pc[u] = "think"
    /\ IF machine = "speaking"
       THEN GoTo(u, "done") /\ UNCHANGED machineVars
       ELSE GoTo(u, "thinkRow") /\ machine' = "thinking" /\ speech' = NoSpeech
    /\ UNCHANGED <<quiet, rowVars, content, shown, spoken>>

\* Either a research task is started and the queue waits for the holding
\* answer, or the agent is asked and the queue goes on.
ThinkRow(u) ==
    /\ pc[u] = "thinkRow"
    /\ rowState' = "thinking" /\ rowSpeech' = NoSpeech
    /\ \E s \in {"research", "ask"} : GoTo(u, s)
    /\ UNCHANGED <<quiet, machineVars, content, shown, spoken>>

Research(u) ==
    /\ pc[u] = "research"
    /\ GoTo(u, "gate")
    /\ UNCHANGED <<quiet, rowVars, machineVars, content, shown, spoken>>

\* The agent answers, is not configured, or throws.
AskUnreported(u) ==                                                            \* mutant
    /\ pc[u] = "ask"
    /\ \E s \in {"gate", "done"} : GoTo(u, s)
    /\ UNCHANGED <<quiet, rowVars, machineVars, content, shown, spoken>>
Ask(u) ==
    /\ pc[u] = "ask"
    /\ \E s \in {"gate", "failGate"} : GoTo(u, s)
    /\ UNCHANGED <<quiet, rowVars, machineVars, content, shown, spoken>>

\* ingestVoiceTranscript: the segment is stored or ignored ...
Heard(u) ==
    /\ pc[u] = "heard"
    /\ Gate(u, "heardTurnCheck")
    /\ UNCHANGED <<quiet, rowVars, machineVars, content, shown, spoken>>

\* ... and sent; a cue may follow.
Push(u) ==
    /\ pc[u] = "push"
    /\ \E s \in {"gate", "done"} : GoTo(u, s)
    /\ UNCHANGED <<quiet, rowVars, machineVars, content, shown, spoken>>

-----------------------------------------------------------------------------
(* The reply: an answer, a holding answer or a cue, spoken if the client    *)
(* asked for speech.                                                        *)

ReplyGate(u) ==
    /\ pc[u] = "gate"
    /\ Gate(u, "replyCheck")
    /\ UNCHANGED <<quiet, rowVars, machineVars, content, shown, spoken>>

ReplyCheck(u) ==
    /\ \/ pc[u] = "replyCheck" /\ Persist(u, "replyInsert", "outCheck")
       \/ pc[u] = "outCheck" /\ Persist(u, "outInsert", "show")
    /\ UNCHANGED <<quiet, rowVars, machineVars, content, shown, spoken>>

ReplyInsert(u) ==
    /\ pc[u] = "replyInsert"
    /\ replies' = replies \cup {u}
    /\ GoTo(u, "outCheck")
    /\ UNCHANGED <<quiet, rowVars, machineVars, turns, outputs, shown, spoken>>

OutInsert(u) ==
    /\ pc[u] = "outInsert"
    /\ outputs' = [outputs EXCEPT ![u] = @ \cup {<<"text", "emitted">>}]
    /\ GoTo(u, "show")
    /\ UNCHANGED <<quiet, rowVars, machineVars, turns, replies, shown, spoken>>

ListenKeepsSpeech == machine' = "listening" /\ speech' = speech                  \* mutant
Listen == machine' = "listening" /\ speech' = NoSpeech

\* The text is sent; without speech the session listens again.
Show(u) ==
    /\ pc[u] = "show"
    /\ shown' = Emit(shown, u)
    /\ IF speaks
       THEN GoTo(u, "speakCheck") /\ UNCHANGED machineVars
       ELSE GoTo(u, "listenRow") /\ Listen
    /\ UNCHANGED <<quiet, rowVars, content, spoken>>

\* The UPDATE of transition(listening) looks at nothing.
ListenRow(u) ==
    /\ pc[u] \in {"listenRow", "failRow"}
    /\ rowState' = "listening" /\ rowSpeech' = NoSpeech
    /\ GoTo(u, "done")
    /\ UNCHANGED <<quiet, machineVars, content, shown, spoken>>

\* requestSpeech asks the client to speak; the second event, that there is no
\* speech provider, changes nothing that is modelled.
SpeakCheckStarts(u) ==                                                         \* mutant
    /\ pc[u] = "speakCheck"
    /\ Gate(u, "speakOutCheck")
    /\ IF CanWrite THEN machine' = "speaking" /\ speech' = u ELSE UNCHANGED machineVars
    /\ UNCHANGED <<quiet, rowVars, content, shown, spoken>>
SpeakCheck(u) ==
    /\ pc[u] = "speakCheck"
    /\ Gate(u, "speakOutCheck")
    /\ UNCHANGED <<quiet, rowVars, machineVars, content, shown, spoken>>

SpeakOutCheck(u) ==
    /\ pc[u] = "speakOutCheck"
    /\ Persist(u, "speakOutInsert", "speakRow")
    /\ UNCHANGED <<quiet, rowVars, machineVars, content, shown, spoken>>

SpeakOutInsert(u) ==
    /\ pc[u] = "speakOutInsert"
    /\ outputs' = [outputs EXCEPT ![u] = @ \cup {<<"speak", "emitted">>}]
    /\ GoTo(u, "speakRow")
    /\ UNCHANGED <<quiet, rowVars, machineVars, turns, replies, shown, spoken>>

\* The row names the speech, startSpeech replaces whatever is being spoken,
\* and the speak request is sent.
SpeakRow(u) ==
    /\ pc[u] = "speakRow"
    /\ rowSpeech' = u
    /\ machine' = "speaking" /\ speech' = u
    /\ spoken' = Emit(spoken, u)
    /\ GoTo(u, "done")
    /\ UNCHANGED <<quiet, rowState, content, shown>>

\* An error of the answer, reported unless the session has ended.
FailGate(u) ==
    /\ pc[u] = "failGate"
    /\ Gate(u, "fail")
    /\ UNCHANGED <<quiet, rowVars, machineVars, content, shown, spoken>>

Fail(u) ==
    /\ pc[u] = "fail"
    /\ Listen
    /\ GoTo(u, "failRow")
    /\ UNCHANGED <<quiet, rowVars, content, shown, spoken>>

-----------------------------------------------------------------------------
(* Barge-in and the end of local speech. *)

still == <<kind, pc, turns, replies, shown, spoken, faults>>

SpeechStarted ==
    /\ handling = "idle" /\ active
    /\ handling' = "speechStarted" /\ step' = "latency"
    /\ UNCHANGED <<sessionVars, rowVars, machineVars, wish, silencing, open, still, outputs,
                   silenced>>

\* cancelSpeech, up to its first await.
BargeIn ==
    /\ step = "latency"
    /\ IF machine = "speaking"
       THEN Listen /\ silencing' = speech /\ step' = "outputs" /\ UNCHANGED handling
       ELSE step' = "none" /\ handling' = "idle" /\ UNCHANGED <<machineVars, silencing>>
    /\ UNCHANGED <<sessionVars, rowVars, wish, open, still, outputs, silenced>>

SilenceOutputs ==
    /\ step = "outputs"
    /\ outputs' = [outputs EXCEPT ![silencing] = {<<r[1], "canceled">> : r \in @}]
    /\ step' = "row"
    /\ UNCHANGED <<sessionVars, rowVars, machineVars, wish, handling, silencing, open, still,
                   silenced>>

\* The cancel is sent; a stop makes the session inactive.
SilenceRow ==
    /\ step = "row"
    /\ rowState' = "listening" /\ rowSpeech' = NoSpeech
    /\ silenced' = Emit(silenced, silencing)
    /\ silencing' = NoSpeech /\ step' = "none"
    /\ IF handling = "stop"
       THEN active' = FALSE /\ phase' = wish /\ UNCHANGED handling
       ELSE handling' = "idle" /\ UNCHANGED <<active, phase>>
    /\ UNCHANGED <<status, discardOnStop, speaks, joined, machineVars, wish, open, still, outputs>>

SpeechEnded ==
    /\ handling = "idle" /\ active
    /\ Listen
    /\ handling' = "speechEnded"
    /\ UNCHANGED <<sessionVars, rowVars, wish, step, silencing, open, still, outputs, silenced>>

SpeechEndedRow ==
    /\ handling = "speechEnded"
    /\ rowState' = "listening" /\ rowSpeech' = NoSpeech
    /\ handling' = "idle"
    /\ UNCHANGED <<sessionVars, machineVars, wish, step, silencing, open, still, outputs, silenced>>

-----------------------------------------------------------------------------
(* The end of the session. *)

Stop(w) ==
    /\ handling = "idle" /\ active
    /\ wish' = w
    /\ handling' = "stop"
    /\ IF machine = "speaking"
       THEN Listen /\ silencing' = speech /\ step' = "outputs" /\ UNCHANGED <<active, phase>>
       ELSE active' = FALSE /\ phase' = w /\ UNCHANGED <<machineVars, silencing, step>>
    /\ UNCHANGED <<status, discardOnStop, speaks, joined, rowVars, open, still, outputs, silenced>>

CloseAlways ==                                                                 \* mutant
    /\ open
    /\ open' = FALSE
    /\ IF joined
       THEN active' = FALSE /\ phase' = "interrupt"
       ELSE UNCHANGED <<active, phase>>
    /\ UNCHANGED <<status, discardOnStop, speaks, joined, rowVars, machineVars, wish, handling, step,
                   silencing, still, outputs, silenced>>
Close ==
    /\ open
    /\ open' = FALSE
    /\ IF joined /\ wish = "none"
       THEN active' = FALSE /\ phase' = "interrupt"
       ELSE UNCHANGED <<active, phase>>
    /\ UNCHANGED <<status, discardOnStop, speaks, joined, rowVars, machineVars, wish, handling, step,
                   silencing, still, outputs, silenced>>

endOnly == <<discardOnStop, speaks, active, machineVars, wish, step, silencing, open, kind, pc, sent,
             faults>>

\* stopSession(save): see LiveSession for what follows the status.
Save ==
    /\ phase = "save"
    /\ status' = "saved"
    /\ phase' = "stopRow"
    /\ UNCHANGED <<endOnly, joined, handling, rowVars, content>>

\* The transaction of stopSession(discard).
Discard ==
    /\ phase = "discard"
    /\ status' = "discarded"
    /\ turns' = {} /\ replies' = {} /\ outputs' = [u \in Utterances |-> {}]
    /\ phase' = "stopRow"
    /\ UNCHANGED <<endOnly, joined, handling, rowVars>>

StopRow ==
    /\ phase = "stopRow"
    /\ rowState' = IF wish = "save" THEN "stopped" ELSE "discarded"
    /\ rowSpeech' = NoSpeech
    /\ phase' = IF wish = "save" THEN "clear" ELSE "purgeTurns"
    /\ UNCHANGED <<endOnly, joined, handling, status, content>>

Interrupt ==
    /\ phase = "interrupt"
    /\ status' = "interrupted"
    /\ phase' = "interruptRow"
    /\ UNCHANGED <<endOnly, joined, handling, rowVars, content>>

InterruptRow ==
    /\ phase = "interruptRow"
    /\ rowState' = "interrupted" /\ rowSpeech' = NoSpeech
    /\ phase' = IF discardOnStop THEN "purgeTurns" ELSE "clear"
    /\ UNCHANGED <<endOnly, joined, handling, status, content>>

\* deleteVoiceContent.
PurgeTurns ==
    /\ phase = "purgeTurns"
    /\ turns' = {} /\ replies' = {}
    /\ phase' = "purgeOutputs"
    /\ UNCHANGED <<endOnly, joined, handling, status, rowVars, outputs>>

PurgeOutputs ==
    /\ phase = "purgeOutputs"
    /\ outputs' = [u \in Utterances |-> {}]
    /\ phase' = "clear"
    /\ UNCHANGED <<endOnly, joined, handling, status, rowVars, turns, replies>>

\* Redis is cleared; after a stop the handler forgets the session.
Clear ==
    /\ phase = "clear"
    /\ phase' = "ended"
    /\ IF handling = "stop"
       THEN handling' = "idle" /\ joined' = FALSE
       ELSE UNCHANGED <<handling, joined>>
    /\ UNCHANGED <<endOnly, status, rowVars, content>>

-----------------------------------------------------------------------------
(* Rejected statements. *)

\* An answer of the agent ends in its error path, anything else is abandoned
\* and reported.  A failure of the error path itself is left out.
Fault(u) ==
    /\ faults < MaxFaults
    /\ pc[u] \in Steps \ (FailSteps \cup {"ask", "think", "show"})
    /\ faults' = faults + 1
    /\ GoTo(u, IF kind[u] = "text" /\ handling # u THEN "failGate" ELSE "done")
    /\ UNCHANGED <<sessionVars, rowVars, machineVars, wish, step, silencing, open, kind, content,
                   sent>>

\* A start, a barge-in, an end of speech or an ending is abandoned; the queue
\* goes on, with explicitlyStopped as it is.
HandlerFault ==
    /\ faults < MaxFaults
    /\ faults' = faults + 1
    /\ \/ /\ handling \in {"start", "speechStarted", "speechEnded", "stop"}
          /\ handling' = "idle" /\ step' = "none" /\ silencing' = NoSpeech
          /\ phase' = IF handling \in {"start", "stop"} /\ phase # "live" THEN "failed" ELSE phase
       \/ /\ handling # "stop" /\ phase \notin {"none", "start", "live", "ended", "failed"}
          /\ phase' = "failed"
          /\ UNCHANGED <<handling, step, silencing>>
    /\ UNCHANGED <<status, discardOnStop, speaks, active, joined, rowVars, machineVars, wish, open,
                   kind, pc, content, sent>>

-----------------------------------------------------------------------------
UtteranceStep(u) ==
    \/ TurnCheck(u) \/ TurnInsert(u) \/ Think(u) \/ ThinkRow(u) \/ Research(u) \/ Ask(u)
    \/ Heard(u) \/ Push(u)
    \/ ReplyGate(u) \/ ReplyCheck(u) \/ ReplyInsert(u) \/ OutInsert(u) \/ Show(u) \/ ListenRow(u)
    \/ SpeakCheck(u) \/ SpeakOutCheck(u) \/ SpeakOutInsert(u) \/ SpeakRow(u)
    \/ FailGate(u) \/ Fail(u)
HandlerStep == Started \/ BargeIn \/ SilenceOutputs \/ SilenceRow \/ SpeechEndedRow
EndStep == \/ Save \/ Discard \/ StopRow \/ Interrupt \/ InterruptRow
           \/ PurgeTurns \/ PurgeOutputs \/ Clear

Next ==
    \/ Start \/ HandlerStep \/ EndStep \/ HandlerFault
    \/ SpeechStarted \/ SpeechEnded \/ Close
    \/ \E w \in {"save", "discard"} : Stop(w)
    \/ \E u \in Utterances : Text(u) \/ Transcript(u) \/ Hear(u) \/ UtteranceStep(u) \/ Fault(u)

Spec == Init /\ [][Next]_vars

-----------------------------------------------------------------------------
(* Properties. *)

TypeOK ==
    /\ status \in {"none", "active"} \cup Ended
    /\ {discardOnStop, speaks, active, joined, open} \subseteq BOOLEAN
    /\ rowState \in {"none", "listening", "thinking", "stopped", "discarded", "interrupted"}
    /\ machine \in {"listening", "thinking", "speaking"}
    /\ {rowSpeech, speech, silencing} \subseteq Utterances \cup {NoSpeech}
    /\ wish \in {"none", "save", "discard"}
    /\ handling \in {"idle", "start", "speechStarted", "speechEnded", "stop"} \cup Utterances
    /\ step \in {"none", "latency", "outputs", "row"}
    /\ step \in {"outputs", "row"} <=> silencing # NoSpeech
    /\ machine = "speaking" <=> speech # NoSpeech
    /\ phase \in {"none", "start", "live", "save", "discard", "stopRow", "interrupt",
                  "interruptRow", "purgeTurns", "purgeOutputs", "clear", "ended", "failed"}
    /\ kind \in [Utterances -> {"none", "text", "transcript"}]
    /\ pc \in [Utterances -> Steps \cup {"none", "done"}]
    /\ UNION {turns, replies, shown, spoken, silenced} \subseteq Utterances
    /\ outputs \in [Utterances -> SUBSET ({"text", "speak"} \X {"emitted", "canceled"})]
    /\ faults \in Nat

\* Once the client is told that a speech is canceled, neither its text nor its
\* speak request is on record as emitted, whichever replies and barge-ins
\* cross.
CanceledSpeechMarked ==
    \A u \in silenced : \A r \in outputs[u] : r[2] = "canceled"

\* A session ends once: a close event cannot interrupt a session that is
\* being stopped, nor a queued stop save one that was interrupted.
EndedOnce == [][(status \in Ended) => (status' = status)]_vars

Texts == {u \in Utterances : kind[u] = "text"}

\* A saved session has every text its user sent before the stop.
SavedHasUserTurns == status = "saved" /\ faults = 0 => Texts \subseteq turns

\* A session discarded by a stop has none of them.
UserTurnsDiscarded == phase = "ended" /\ status = "discarded" => Texts \cap turns = {}

\* A session does not think for ever: while it does, the reply to a text is
\* under way, and each way a reply can take leads to speech, to listening or
\* to the end of the session.
ThinkingIsOwned ==
    machine = "thinking" /\ active /\ faults = 0 =>
        \E u \in Texts : pc[u] \in Pending

\* README.md, "Retention behavior": "stop.save=false: status discarded; ...
\* agent turns, voice outputs deleted".  Once a discard is over, no row of
\* either is left.
DiscardDeletesAll ==
    phase = "ended" /\ status = "discarded" =>
        /\ turns \cup replies = {}
        /\ \A u \in Utterances : outputs[u] = {}
=============================================================================
