-------------------------- MODULE VoiceSessionProofs --------------------------
(***************************************************************************)
(* Proofs about VoiceSession for every set of utterances and every bound   *)
(* on faults:                                                              *)
(*   TypeCorrect       the type invariant, with FlowInv;                   *)
(*   SessionEndsOnce   EndedOnce, from FlowInv;                            *)
(*   ThinkingOwned     ThinkingIsOwned, from ThinkInv;                     *)
(*   CanceledMarked    CanceledSpeechMarked, from SpeechInv;               *)
(*   TurnsSaved        SavedHasUserTurns, from TurnInv;                    *)
(*   TurnsDiscarded    UserTurnsDiscarded, from TurnInv.                   *)
(***************************************************************************)
EXTENDS VoiceSession, TLAPS

\* How the message queue, cancelSpeech and the start or end of the session
\* relate: an active session is live, a stop is remembered for the close
\* event, and a stop waits in cancelSpeech only while the session is live.
FlowInv ==
    /\ active => phase = "live"
    /\ phase \in {"start", "live"} => status = "active"
    /\ phase = "start" => handling = "start"
    /\ phase \in {"none", "start", "live", "save", "discard", "interrupt"} => status \notin Ended
    /\ joined /\ open /\ wish = "none" => phase = "live"
    /\ step # "none" => handling \in {"speechStarted", "stop"}
    /\ handling = "stop" => wish # "none" /\ (step # "none" => phase = "live")

\* Before the session is live nothing happens in it.
FreshInv ==
    status = "none" \/ phase = "start" =>
        ~joined /\ machine = "listening" /\ \A u \in Utterances : pc[u] = "none"

Inv == TypeOK /\ FlowInv

\* What every step of an utterance has in common.
Move(u) ==
    /\ pc[u] \in Steps
    /\ \E s \in Steps \cup {"done"} : GoTo(u, s)
    /\ UNCHANGED quiet

-----------------------------------------------------------------------------
(* Types and flow. *)

\* Each step of an utterance is a Move.
LEMMA UtteranceStepMoves ==
    ASSUME NEW u \in Utterances, UtteranceStep(u)
    PROVE  Move(u)
  <1>. USE DEF Move, Gate, Persist, Steps, TextSteps, HeardSteps, ReplySteps, FailSteps
  <1>1. CASE TurnCheck(u) \/ TurnInsert(u) \/ Think(u) \/ ThinkRow(u) \/ Research(u) \/ Ask(u)
    BY <1>1 DEF TurnCheck, TurnInsert, Think, ThinkRow, Research, Ask
  <1>2. CASE Heard(u) \/ Push(u)
    BY <1>2 DEF Heard, Push
  <1>3. CASE ReplyGate(u) \/ ReplyCheck(u) \/ ReplyInsert(u) \/ OutInsert(u) \/ Show(u) \/ ListenRow(u)
    BY <1>3 DEF ReplyGate, ReplyCheck, ReplyInsert, OutInsert, Show, ListenRow
  <1>4. CASE SpeakCheck(u) \/ SpeakOutCheck(u) \/ SpeakOutInsert(u) \/ SpeakRow(u)
    BY <1>4 DEF SpeakCheck, SpeakOutCheck, SpeakOutInsert, SpeakRow
  <1>5. CASE FailGate(u) \/ Fail(u)
    BY <1>5 DEF FailGate, Fail
  <1>. QED
    BY <1>1, <1>2, <1>3, <1>4, <1>5 DEF UtteranceStep

\* A Move keeps FlowInv, since an utterance is not the name of another handler.
LEMMA MoveFlow ==
    ASSUME Inv, NEW u \in Utterances, Move(u)
    PROVE  FlowInv'
  BY ConstantsAssumption DEF Inv, FlowInv, Move, GoTo, quiet, sessionVars, Ended, CanWrite

\* An utterance's step keeps the types.
LEMMA UtteranceStepType ==
    ASSUME Inv, NEW u \in Utterances, UtteranceStep(u)
    PROVE  TypeOK'
  <1>1. Move(u)
    BY UtteranceStepMoves
  <1>2. /\ pc' \in [Utterances -> Steps \cup {"none", "done"}]
        /\ handling' \in {"idle", "start", "speechStarted", "speechEnded", "stop"} \cup Utterances
        /\ UNCHANGED quiet
    BY <1>1 DEF Move, GoTo, Inv, TypeOK
  <1>3. /\ rowState' \in {"none", "listening", "thinking", "stopped", "discarded", "interrupted"}
        /\ machine' \in {"listening", "thinking", "speaking"}
        /\ {rowSpeech', speech'} \subseteq Utterances \cup {NoSpeech}
        /\ machine' = "speaking" <=> speech' # NoSpeech
        /\ turns' \cup replies' \cup shown' \cup spoken' \subseteq Utterances
        /\ outputs' \in [Utterances -> SUBSET ({"text", "speak"} \X {"emitted", "canceled"})]
    <2>. USE ConstantsAssumption DEF Inv, TypeOK, quiet, rowVars, machineVars, content, Emit, Listen
    <2>1. CASE TurnCheck(u) \/ TurnInsert(u) \/ Think(u) \/ ThinkRow(u) \/ Research(u) \/ Ask(u)
      BY <2>1 DEF TurnCheck, TurnInsert, Think, ThinkRow, Research, Ask
    <2>2. CASE Heard(u) \/ Push(u)
      BY <2>2 DEF Heard, Push
    <2>3. CASE ReplyGate(u) \/ ReplyCheck(u) \/ ReplyInsert(u) \/ Show(u) \/ ListenRow(u)
      BY <2>3 DEF ReplyGate, ReplyCheck, ReplyInsert, Show, ListenRow
    <2>4. CASE OutInsert(u)
      BY <2>4 DEF OutInsert
    <2>5. CASE SpeakCheck(u) \/ SpeakOutCheck(u) \/ SpeakRow(u)
      BY <2>5 DEF SpeakCheck, SpeakOutCheck, SpeakRow
    <2>6. CASE SpeakOutInsert(u)
      BY <2>6 DEF SpeakOutInsert
    <2>7. CASE FailGate(u) \/ Fail(u)
      BY <2>7 DEF FailGate, Fail
    <2>. QED
      BY <2>1, <2>2, <2>3, <2>4, <2>5, <2>6, <2>7 DEF UtteranceStep
  <1>. QED
    BY <1>2, <1>3 DEF Inv, TypeOK, quiet, sessionVars

\* The types and FlowInv hold in every behaviour.
LEMMA InvCorrect == Spec => []Inv
  <1>1. Init => Inv
    <2>. SUFFICES ASSUME Init PROVE Inv
      OBVIOUS
    <2>1. FlowInv
      BY DEF Init, FlowInv, Ended
    <2>2. TypeOK
      <3>. USE ConstantsAssumption DEF Init
      <3>1. UNION {turns, replies, shown, spoken, silenced} \subseteq Utterances
        OBVIOUS
      <3>2. outputs \in [Utterances -> SUBSET ({"text", "speak"} \X {"emitted", "canceled"})]
        OBVIOUS
      <3>. QED
        BY <3>1, <3>2 DEF TypeOK, Ended
    <2>. QED
      BY <2>1, <2>2 DEF Inv
  <1>2. Inv /\ [Next]_vars => Inv'
    <2>. SUFFICES ASSUME Inv, [Next]_vars PROVE Inv'
      OBVIOUS
    <2>. USE ConstantsAssumption
         DEF Inv, TypeOK, FlowInv, Ended, sessionVars, rowVars, machineVars, content, sent
    <2>1. CASE Start
      BY <2>1 DEF Start
    <2>2. CASE Started
      <3>1. {discardOnStop, speaks, active, joined, open}' \subseteq BOOLEAN
        BY <2>2 DEF Started
      <3>2. FlowInv'
        BY <2>2 DEF Started
      <3>3. TypeOK'
        BY <2>2, <3>1 DEF Started
      <3>. QED
        BY <3>2, <3>3
    <2>3. CASE BargeIn
      BY <2>3 DEF BargeIn, Listen, still
    <2>4. CASE SilenceOutputs
      BY <2>4 DEF SilenceOutputs, still
    <2>5. CASE SilenceRow
      <3>1. {discardOnStop, speaks, active, joined, open}' \subseteq BOOLEAN
        BY <2>5 DEF SilenceRow, still, Emit
      <3>2. FlowInv'
        BY <2>5 DEF SilenceRow, still, Emit
      <3>3. TypeOK'
        BY <2>5, <3>1 DEF SilenceRow, still, Emit
      <3>. QED
        BY <3>2, <3>3
    <2>6. CASE SpeechEndedRow
      BY <2>6 DEF SpeechEndedRow, still
    <2>7. CASE Save
      BY <2>7 DEF Save, endOnly
    <2>8. CASE Discard
      BY <2>8 DEF Discard, endOnly
    <2>9. CASE StopRow
      BY <2>9 DEF StopRow, endOnly
    <2>10. CASE Interrupt
      BY <2>10 DEF Interrupt, endOnly
    <2>11. CASE InterruptRow
      BY <2>11 DEF InterruptRow, endOnly
    <2>12. CASE PurgeTurns
      BY <2>12 DEF PurgeTurns, endOnly
    <2>13. CASE PurgeOutputs
      BY <2>13 DEF PurgeOutputs, endOnly
    <2>14. CASE Clear
      <3>1. {discardOnStop, speaks, active, joined, open}' \subseteq BOOLEAN
        BY <2>14 DEF Clear, endOnly
      <3>2. FlowInv'
        BY <2>14 DEF Clear, endOnly
      <3>3. TypeOK'
        BY <2>14, <3>1 DEF Clear, endOnly
      <3>. QED
        BY <3>2, <3>3
    <2>15. CASE HandlerFault
      BY <2>15 DEF HandlerFault
    <2>16. CASE SpeechStarted
      BY <2>16 DEF SpeechStarted, still
    <2>17. CASE SpeechEnded
      BY <2>17 DEF SpeechEnded, still, Listen
    <2>18. CASE Close
      <3>1. {discardOnStop, speaks, active, joined, open}' \subseteq BOOLEAN
        BY <2>18 DEF Close, still
      <3>2. FlowInv'
        BY <2>18 DEF Close, still
      <3>3. TypeOK'
        BY <2>18, <3>1 DEF Close, still
      <3>. QED
        BY <3>2, <3>3
    <2>19. ASSUME NEW w \in {"save", "discard"}, Stop(w) PROVE Inv'
      BY <2>19 DEF Stop, still, Listen
    <2>20. ASSUME NEW u \in Utterances, Text(u) \/ Transcript(u) \/ Hear(u) PROVE Inv'
      BY <2>20 DEF Text, Transcript, Hear, Arrive, Steps, TextSteps, HeardSteps
    <2>21. ASSUME NEW u \in Utterances, UtteranceStep(u) PROVE Inv'
      BY <2>21, UtteranceStepMoves, MoveFlow, UtteranceStepType DEF Inv
    <2>22. ASSUME NEW u \in Utterances, Fault(u) PROVE Inv'
      BY <2>22 DEF Fault, GoTo, Steps, FailSteps
    <2>23. CASE UNCHANGED vars
      BY <2>23 DEF vars, queueVars
    <2>. QED
      BY <2>1, <2>2, <2>3, <2>4, <2>5, <2>6, <2>7, <2>8, <2>9, <2>10, <2>11, <2>12, <2>13, <2>14,
         <2>15, <2>16, <2>17, <2>18, <2>19, <2>20, <2>21, <2>22, <2>23
      DEF Next, HandlerStep, EndStep
  <1>. QED
    BY <1>1, <1>2, PTL DEF Spec

\* The state of the session and of its socket is well typed: no handler leaves
\* a speechId behind, and cancelSpeech has a speech to cancel.
THEOREM TypeCorrect == Spec => []TypeOK
  BY InvCorrect, PTL DEF Inv

-----------------------------------------------------------------------------
(* The end of the session. *)

\* A session ends once, however stop messages, failures and the close event of
\* the socket cross.
THEOREM SessionEndsOnce == Spec => EndedOnce
  <1>1. Inv /\ [Next]_vars => (status \in Ended => status' = status)
    <2>. SUFFICES ASSUME Inv, [Next]_vars, status \in Ended PROVE status' = status
      OBVIOUS
    <2>1. CASE Start \/ Save \/ Discard \/ Interrupt
      BY <2>1 DEF Start, Save, Discard, Interrupt, Inv, FlowInv, Ended
    <2>2. CASE \E u \in Utterances : UtteranceStep(u)
      BY <2>2, UtteranceStepMoves DEF Move, quiet, sessionVars
    <2>3. CASE HandlerStep
      BY <2>3 DEF HandlerStep, Started, BargeIn, SilenceOutputs, SilenceRow, SpeechEndedRow, sessionVars
    <2>4. CASE StopRow \/ InterruptRow \/ PurgeTurns \/ PurgeOutputs \/ Clear
      BY <2>4 DEF StopRow, InterruptRow, PurgeTurns, PurgeOutputs, Clear
    <2>5. CASE HandlerFault \/ SpeechStarted \/ SpeechEnded \/ Close
               \/ \E w \in {"save", "discard"} : Stop(w)
      BY <2>5 DEF HandlerFault, SpeechStarted, SpeechEnded, Close, Stop, sessionVars
    <2>6. CASE \E u \in Utterances : Text(u) \/ Transcript(u) \/ Hear(u) \/ Fault(u)
      BY <2>6 DEF Text, Transcript, Hear, Arrive, Fault, sessionVars
    <2>7. CASE UNCHANGED vars
      BY <2>7 DEF vars, sessionVars
    <2>. QED
      BY <2>1, <2>2, <2>3, <2>4, <2>5, <2>6, <2>7 DEF Next, EndStep
  <1>2. Inv /\ [Next]_vars => [(status \in Ended) => (status' = status)]_vars
    BY <1>1
  <1>. QED
    BY <1>2, InvCorrect, PTL DEF Spec, EndedOnce

-----------------------------------------------------------------------------
(* Thinking. *)

\* Neither a coroutine nor a state of the machine precedes a live session.
LEMMA FreshCorrect == Spec => []FreshInv
  <1>1. Init => FreshInv
    BY DEF Init, FreshInv
  <1>2. Inv /\ FreshInv /\ [Next]_vars => FreshInv'
    <2>. SUFFICES ASSUME Inv, FreshInv, [Next]_vars PROVE FreshInv'
      OBVIOUS
    <2>. USE DEF FreshInv, sessionVars, machineVars
    <2>1. CASE Start \/ Started \/ Close \/ SpeechStarted \/ SpeechEnded
      BY <2>1 DEF Start, Started, Close, SpeechStarted, SpeechEnded, still, Listen, Inv, FlowInv
    <2>2. CASE BargeIn \/ SilenceOutputs \/ SilenceRow \/ SpeechEndedRow
      BY <2>2 DEF BargeIn, SilenceOutputs, SilenceRow, SpeechEndedRow, still, Listen, Inv, FlowInv, TypeOK
    <2>3. CASE EndStep
      BY <2>3 DEF EndStep, Save, Discard, StopRow, Interrupt, InterruptRow, PurgeTurns,
                  PurgeOutputs, Clear, endOnly
    <2>4. ASSUME NEW w \in {"save", "discard"}, Stop(w) PROVE FreshInv'
      BY <2>4 DEF Stop, still, Listen
    <2>5. ASSUME NEW u \in Utterances, Text(u) \/ Transcript(u) \/ Hear(u) PROVE FreshInv'
      BY <2>5 DEF Text, Transcript, Hear, Arrive, Inv, FlowInv
    <2>6. ASSUME NEW u \in Utterances, UtteranceStep(u) PROVE FreshInv'
      <3>1. Move(u)
        BY <2>6, UtteranceStepMoves
      <3>. QED
        BY <3>1 DEF Move, quiet, Steps, TextSteps, HeardSteps, ReplySteps, FailSteps
    <2>7. ASSUME NEW u \in Utterances, Fault(u) PROVE FreshInv'
      BY <2>7 DEF Fault, Steps, TextSteps, HeardSteps, ReplySteps, FailSteps
    <2>8. CASE HandlerFault
      BY <2>8 DEF HandlerFault
    <2>9. CASE UNCHANGED vars
      BY <2>9 DEF vars
    <2>. QED
      BY <2>1, <2>2, <2>3, <2>4, <2>5, <2>6, <2>7, <2>8, <2>9 DEF Next, HandlerStep
  <1>. QED
    BY <1>1, <1>2, InvCorrect, PTL DEF Spec

\* Only the coroutine of a text makes the session think.
ThinkInv ==
    /\ \A u \in Utterances : pc[u] \in {"turnCheck", "turnInsert", "think"} => kind[u] = "text"
    /\ ThinkingIsOwned

\* A coroutine that moves keeps its text pending, makes the session speak or
\* listen, or finds it ended.
LEMMA MoveThinks ==
    ASSUME Inv, ThinkInv, NEW u \in Utterances, UtteranceStep(u)
    PROVE  ThinkInv'
  <1>1. Move(u)
    BY UtteranceStepMoves
  <1>2. /\ kind' = kind /\ active' = active /\ status' = status /\ faults' = faults
        /\ \A v \in Utterances \ {u} : pc'[v] = pc[v]
        /\ pc' \in [Utterances -> Steps \cup {"none", "done"}]
    BY <1>1 DEF Move, GoTo, quiet, sessionVars, Inv, TypeOK
  <1>3. \A v \in Utterances : pc'[v] \in {"turnCheck", "turnInsert", "think"} => kind'[v] = "text"
    <2>1. pc'[u] \in {"turnCheck", "turnInsert", "think"} =>
             pc[u] \in {"turnCheck", "turnInsert", "think"}
      BY DEF UtteranceStep, TurnCheck, TurnInsert, Think, ThinkRow, Research, Ask, Heard, Push,
             ReplyGate, ReplyCheck, ReplyInsert, OutInsert, Show, ListenRow, SpeakCheck,
             SpeakOutCheck, SpeakOutInsert, SpeakRow, FailGate, Fail, Gate, Persist, GoTo,
             Inv, TypeOK
    <2>. QED
      BY <1>2, <2>1 DEF ThinkInv
  <1>4. ASSUME machine' = "thinking", active PROVE
           \/ pc'[u] \in Pending /\ kind[u] = "text"
           \/ machine = "thinking" /\ pc[u] \notin Pending
           \/ machine = "thinking" /\ pc'[u] \in Pending
    <2>. USE <1>4 DEF Inv, TypeOK, FlowInv, Gate, Persist, GoTo, CanWrite, machineVars, Listen,
                      Pending, ReplySteps, ThinkInv
    <2>1. CASE TurnCheck(u) \/ TurnInsert(u) \/ Think(u)
      BY <2>1 DEF TurnCheck, TurnInsert, Think
    <2>2. CASE ThinkRow(u) \/ Research(u) \/ Ask(u) \/ Heard(u) \/ Push(u)
      BY <2>2 DEF ThinkRow, Research, Ask, Heard, Push
    <2>3. CASE ReplyGate(u) \/ ReplyCheck(u) \/ ReplyInsert(u) \/ OutInsert(u)
      BY <2>3 DEF ReplyGate, ReplyCheck, ReplyInsert, OutInsert
    <2>4. CASE Show(u) \/ ListenRow(u)
      BY <2>4 DEF Show, ListenRow
    <2>5. CASE SpeakCheck(u) \/ SpeakOutCheck(u) \/ SpeakOutInsert(u) \/ SpeakRow(u)
      BY <2>5 DEF SpeakCheck, SpeakOutCheck, SpeakOutInsert, SpeakRow
    <2>6. CASE FailGate(u) \/ Fail(u)
      BY <2>6 DEF FailGate, Fail
    <2>. QED
      BY <2>1, <2>2, <2>3, <2>4, <2>5, <2>6 DEF UtteranceStep
  <1>5. ThinkingIsOwned'
    <2>. SUFFICES ASSUME machine' = "thinking", active', faults' = 0
                  PROVE  \E v \in Utterances : kind'[v] = "text" /\ pc'[v] \in Pending
      BY DEF ThinkingIsOwned, Texts
    <2>1. CASE pc'[u] \in Pending /\ kind[u] = "text"
      BY <2>1, <1>2
    <2>2. CASE machine = "thinking" /\ (pc[u] \notin Pending \/ pc'[u] \in Pending)
      <3>1. PICK v \in Utterances : kind[v] = "text" /\ pc[v] \in Pending
        BY <2>2, <1>2 DEF ThinkInv, ThinkingIsOwned, Texts
      <3>2. kind'[v] = "text" /\ pc'[v] \in Pending
        BY <2>2, <3>1, <1>2
      <3>. QED
        BY <3>2
    <2>. QED
      BY <2>1, <2>2, <1>2, <1>4
  <1>. QED
    BY <1>3, <1>5 DEF ThinkInv

\* Every other step lets pending texts be, or ends the thinking or the session.
LEMMA ThinkCorrect == Spec => []ThinkInv
  <1>1. Init => ThinkInv
    BY DEF Init, ThinkInv, ThinkingIsOwned
  <1>2. Inv /\ FreshInv /\ ThinkInv /\ [Next]_vars => ThinkInv'
    <2>. SUFFICES ASSUME Inv, FreshInv, ThinkInv, [Next]_vars PROVE ThinkInv'
      OBVIOUS
    <2>1. ASSUME kind' = kind, pc' = pc, faults' = faults,
                 machine' = machine \/ machine' = "listening", active' => active
          PROVE  ThinkInv'
      BY <2>1 DEF ThinkInv, ThinkingIsOwned, Texts
    <2>2. CASE Start \/ Close \/ SpeechStarted \/ SpeechEnded
      BY <2>1, <2>2 DEF Start, Close, SpeechStarted, SpeechEnded, still, machineVars, sessionVars, Listen
    <2>3. CASE Started
      <3>1. ~active /\ machine # "thinking"
        BY <2>3 DEF Started, Inv, FlowInv, FreshInv
      <3>. QED
        BY <2>3, <3>1 DEF Started, machineVars, ThinkInv, ThinkingIsOwned
    <2>4. CASE BargeIn \/ SilenceOutputs \/ SilenceRow \/ SpeechEndedRow
      BY <2>1, <2>4 DEF BargeIn, SilenceOutputs, SilenceRow, SpeechEndedRow, still, machineVars,
                        sessionVars, Listen
    <2>5. CASE EndStep
      BY <2>1, <2>5 DEF EndStep, Save, Discard, StopRow, Interrupt, InterruptRow, PurgeTurns,
                        PurgeOutputs, Clear, endOnly, machineVars
    <2>6. ASSUME NEW w \in {"save", "discard"}, Stop(w) PROVE ThinkInv'
      BY <2>1, <2>6 DEF Stop, still, machineVars, Listen
    <2>7. ASSUME NEW u \in Utterances, Text(u) \/ Transcript(u) \/ Hear(u) PROVE ThinkInv'
      <3>. USE DEF Text, Transcript, Hear, Arrive, Inv, TypeOK, machineVars, sessionVars
      <3>1. \A v \in Utterances : pc'[v] \in {"turnCheck", "turnInsert", "think"} => kind'[v] = "text"
        BY <2>7 DEF ThinkInv
      <3>2. \A v \in Utterances : v # u => kind'[v] = kind[v] /\ pc'[v] = pc[v]
        BY <2>7
      <3>3. pc[u] \notin Pending
        BY <2>7 DEF Pending, ReplySteps
      <3>4. ThinkingIsOwned'
        BY <2>7, <3>2, <3>3 DEF ThinkInv, ThinkingIsOwned, Texts
      <3>. QED
        BY <3>1, <3>4 DEF ThinkInv
    <2>8. ASSUME NEW u \in Utterances, UtteranceStep(u) PROVE ThinkInv'
      BY <2>8, MoveThinks
    <2>9. CASE HandlerFault \/ \E u \in Utterances : Fault(u)
      <3>1. faults' # 0 /\ kind' = kind
        BY <2>9 DEF HandlerFault, Fault, Inv, TypeOK
      <3>2. \A v \in Utterances : pc'[v] \in {"turnCheck", "turnInsert", "think"} => pc'[v] = pc[v]
        BY <2>9 DEF HandlerFault, Fault, GoTo, Inv, TypeOK
      <3>. QED
        BY <3>1, <3>2 DEF ThinkInv, ThinkingIsOwned
    <2>10. CASE UNCHANGED vars
      BY <2>1, <2>10 DEF vars, machineVars, sessionVars
    <2>. QED
      BY <2>2, <2>3, <2>4, <2>5, <2>6, <2>7, <2>8, <2>9, <2>10 DEF Next, HandlerStep
  <1>. QED
    BY <1>1, <1>2, InvCorrect, FreshCorrect, PTL DEF Spec

\* Unless a statement failed, a session that thinks has a text whose reply is
\* under way, whatever was said, spoken or interrupted in between.
THEOREM ThinkingOwned == Spec => []ThinkingIsOwned
  BY ThinkCorrect, PTL DEF ThinkInv

-----------------------------------------------------------------------------
(* Canceled speech. *)

\* What is spoken or being canceled has left its coroutine, which stored every
\* row it ever stores before it asked for speech.
SpeechInv ==
    /\ \A u \in Utterances : u \in silenced \cup {speech, silencing} => pc[u] = "done"
    /\ step = "row" => \A r \in outputs[silencing] : r[2] = "canceled"
    /\ CanceledSpeechMarked

\* A coroutine that is not done adds no row of a speech that was canceled or is
\* being canceled.
LEMMA MoveSpeech ==
    ASSUME Inv, SpeechInv, NEW u \in Utterances, UtteranceStep(u)
    PROVE  SpeechInv'
  <1>1. Move(u)
    BY UtteranceStepMoves
  <1>2. pc[u] # "done" /\ u \notin silenced \cup {speech, silencing}
    BY <1>1 DEF Move, Steps, TextSteps, HeardSteps, ReplySteps, FailSteps, SpeechInv
  <1>3. /\ silenced' = silenced /\ silencing' = silencing /\ step' = step
        /\ \A v \in Utterances \ {u} : pc'[v] = pc[v]
    BY <1>1 DEF Move, GoTo, quiet, Inv, TypeOK
  <1>4. speech' \in {speech, NoSpeech} \/ (speech' = u /\ pc'[u] = "done")
    <2>1. CASE SpeakRow(u)
      BY <2>1 DEF SpeakRow, GoTo, Inv, TypeOK
    <2>2. CASE ~SpeakRow(u)
      BY <2>2 DEF UtteranceStep, TurnCheck, TurnInsert, Think, ThinkRow, Research, Ask, Heard, Push,
                  ReplyGate, ReplyCheck, ReplyInsert, OutInsert, Show, ListenRow, SpeakCheck,
                  SpeakOutCheck, SpeakOutInsert, FailGate, Fail, machineVars, Listen
    <2>. QED
      BY <2>1, <2>2
  <1>5. \A v \in Utterances \ {u} : outputs'[v] = outputs[v]
    BY DEF UtteranceStep, TurnCheck, TurnInsert, Think, ThinkRow, Research, Ask, Heard, Push,
           ReplyGate, ReplyCheck, ReplyInsert, OutInsert, Show, ListenRow, SpeakCheck,
           SpeakOutCheck, SpeakOutInsert, SpeakRow, FailGate, Fail, content, Inv, TypeOK
  <1>6. \A v \in Utterances : v \in silenced' \cup {speech', silencing'} => pc'[v] = "done"
    BY <1>2, <1>3, <1>4, ConstantsAssumption DEF SpeechInv
  <1>7. step' = "row" => \A r \in outputs'[silencing'] : r[2] = "canceled"
    BY <1>2, <1>3, <1>5 DEF SpeechInv, Inv, TypeOK
  <1>8. CanceledSpeechMarked'
    BY <1>2, <1>3, <1>5 DEF SpeechInv, CanceledSpeechMarked, Inv, TypeOK
  <1>. QED
    BY <1>6, <1>7, <1>8 DEF SpeechInv

\* Every other step starts no speech, and cancelSpeech marks the rows before it
\* tells the client.
LEMMA SpeechCorrect == Spec => []SpeechInv
  <1>1. Init => SpeechInv
    BY ConstantsAssumption DEF Init, SpeechInv, CanceledSpeechMarked
  <1>2. Inv /\ SpeechInv /\ [Next]_vars => SpeechInv'
    <2>. SUFFICES ASSUME Inv, SpeechInv, [Next]_vars PROVE SpeechInv'
      OBVIOUS
    <2>1. ASSUME silenced' = silenced, silencing' \in {silencing, NoSpeech},
                 speech' \in {speech, NoSpeech}, outputs' = outputs,
                 step' = "row" => step = "row" /\ silencing' = silencing,
                 \A u \in Utterances : pc[u] = "done" => pc'[u] = "done"
          PROVE  SpeechInv'
      BY <2>1, ConstantsAssumption DEF SpeechInv, CanceledSpeechMarked
    <2>2. CASE Start \/ Started \/ Close \/ SpeechStarted \/ SpeechEnded \/ SpeechEndedRow
      BY <2>1, <2>2 DEF Start, Started, Close, SpeechStarted, SpeechEnded, SpeechEndedRow, still,
                        machineVars, content, sent, Listen
    <2>3. CASE BargeIn \/ \E w \in {"save", "discard"} : Stop(w)
      BY <2>3, ConstantsAssumption
      DEF BargeIn, Stop, still, machineVars, Listen, SpeechInv, CanceledSpeechMarked
    <2>4. CASE SilenceOutputs
      <3>1. \A u \in Utterances : outputs'[u] = outputs[u] \/ \A r \in outputs'[u] : r[2] = "canceled"
        BY <2>4 DEF SilenceOutputs, Inv, TypeOK
      <3>2. \A r \in outputs'[silencing'] : r[2] = "canceled"
        BY <2>4 DEF SilenceOutputs, Inv, TypeOK
      <3>3. UNCHANGED <<silenced, silencing, speech, pc>>
        BY <2>4 DEF SilenceOutputs, still, machineVars
      <3>4. silenced \subseteq Utterances
        BY DEF Inv, TypeOK
      <3>. QED
        BY <3>1, <3>2, <3>3, <3>4 DEF SpeechInv, CanceledSpeechMarked
    <2>5. CASE SilenceRow
      BY <2>5, ConstantsAssumption
      DEF SilenceRow, still, machineVars, Emit, SpeechInv, CanceledSpeechMarked
    <2>6. CASE EndStep
      <3>1. /\ outputs' = outputs \/ outputs' = [u \in Utterances |-> {}]
            /\ UNCHANGED <<silenced, silencing, speech, pc, step>>
        BY <2>6 DEF EndStep, Save, Discard, StopRow, Interrupt, InterruptRow, PurgeTurns,
                    PurgeOutputs, Clear, endOnly, content, machineVars, sent
      <3>2. step = "row" => silencing \in Utterances
        BY DEF Inv, TypeOK
      <3>. QED
        BY <3>1, <3>2 DEF SpeechInv, CanceledSpeechMarked, Inv, TypeOK
    <2>7. ASSUME NEW u \in Utterances, Text(u) \/ Transcript(u) \/ Hear(u) PROVE SpeechInv'
      BY <2>1, <2>7 DEF Text, Transcript, Hear, Arrive, machineVars, content, sent, Inv, TypeOK
    <2>8. ASSUME NEW u \in Utterances, UtteranceStep(u) PROVE SpeechInv'
      BY <2>8, MoveSpeech
    <2>9. CASE HandlerFault
      BY <2>1, <2>9 DEF HandlerFault, machineVars, content, sent
    <2>10. ASSUME NEW u \in Utterances, Fault(u) PROVE SpeechInv'
      BY <2>1, <2>10 DEF Fault, GoTo, machineVars, content, sent, Inv, TypeOK, Steps, TextSteps,
                         HeardSteps, ReplySteps, FailSteps
    <2>11. CASE UNCHANGED vars
      BY <2>1, <2>11 DEF vars, machineVars, content, sent, queueVars
    <2>. QED
      BY <2>2, <2>3, <2>4, <2>5, <2>6, <2>7, <2>8, <2>9, <2>10, <2>11 DEF Next, HandlerStep
  <1>. QED
    BY <1>1, <1>2, InvCorrect, PTL DEF Spec

\* A speech the client was told is canceled is on record as canceled, whichever
\* replies and barge-ins cross.
THEOREM CanceledMarked == Spec => []CanceledSpeechMarked
  BY SpeechCorrect, PTL DEF SpeechInv

-----------------------------------------------------------------------------
(* The user's turns. *)

\* Which utterance a coroutine belongs to, and what the end of a session was
\* asked for.
KindInv ==
    /\ \A u \in Utterances : pc[u] = "none" => kind[u] = "none"
    /\ \A u \in Utterances : pc[u] \in HeardSteps => kind[u] # "text"
    /\ phase = "live" => active
    /\ phase \in {"save", "discard"} => handling = "stop" /\ wish = phase
    /\ phase = "stopRow" => status = IF wish = "save" THEN "saved" ELSE "discarded"
    /\ phase \in {"interruptRow", "purgeTurns"} => status \in {"discarded", "interrupted"}

StoresTurn(u) == kind[u] = "text" /\ pc[u] \in {"turnCheck", "turnInsert"}

\* The message queue waits for the turn of a text, so none is being stored once
\* a stop is handled; and no turn is skipped or deleted before a save.
TurnInv ==
    /\ \A u \in Utterances : StoresTurn(u) =>
          handling = u /\ phase \notin {"save", "discard"} /\ status \notin {"saved", "discarded"}
    /\ faults = 0 /\ (active \/ phase = "save" \/ status = "saved") =>
          \A u \in Texts : StoresTurn(u) \/ u \in turns
    /\ status = "discarded" => Texts \cap turns = {}

\* Coroutines keep to their kind, and each ending to what asked for it.
LEMMA KindCorrect == Spec => []KindInv
  <1>1. Init => KindInv
    BY DEF Init, KindInv, HeardSteps
  <1>2. Inv /\ FreshInv /\ KindInv /\ [Next]_vars => KindInv'
    <2>. SUFFICES ASSUME Inv, FreshInv, KindInv, [Next]_vars PROVE KindInv'
      OBVIOUS
    <2>. USE DEF KindInv, sessionVars
    <2>1. CASE Start \/ Started \/ SpeechStarted \/ SpeechEnded
      BY <2>1 DEF Start, Started, SpeechStarted, SpeechEnded, still, Inv, FlowInv
    <2>2. CASE Close
      BY <2>2 DEF Close, still, Inv, FlowInv
    <2>3. CASE BargeIn \/ SilenceOutputs \/ SpeechEndedRow
      BY <2>3 DEF BargeIn, SilenceOutputs, SpeechEndedRow, still, Inv, FlowInv
    <2>4. CASE SilenceRow
      BY <2>4 DEF SilenceRow, still, Inv, FlowInv, TypeOK
    <2>5. CASE EndStep
      BY <2>5 DEF EndStep, Save, Discard, StopRow, Interrupt, InterruptRow, PurgeTurns,
                  PurgeOutputs, Clear, endOnly
    <2>6. ASSUME NEW w \in {"save", "discard"}, Stop(w) PROVE KindInv'
      BY <2>6 DEF Stop, still, Inv, FlowInv
    <2>7. ASSUME NEW u \in Utterances, Text(u) \/ Transcript(u) \/ Hear(u) PROVE KindInv'
      <3>1. \A v \in Utterances : v # u => kind'[v] = kind[v] /\ pc'[v] = pc[v]
        BY <2>7 DEF Text, Transcript, Hear, Arrive, Inv, TypeOK
      <3>2. pc'[u] # "none" /\ (pc'[u] \in HeardSteps => kind'[u] # "text")
        BY <2>7 DEF Text, Transcript, Hear, Arrive, Inv, TypeOK, HeardSteps
      <3>3. UNCHANGED <<status, active, phase, wish>> /\ (phase \in {"save", "discard"} => handling' = handling)
        BY <2>7 DEF Text, Transcript, Hear, Arrive, Inv, FlowInv
      <3>. QED
        BY <3>1, <3>2, <3>3
    <2>8. ASSUME NEW u \in Utterances, UtteranceStep(u) PROVE KindInv'
      <3>1. Move(u)
        BY <2>8, UtteranceStepMoves
      <3>2. pc'[u] \in HeardSteps => pc[u] \in HeardSteps
        BY <2>8 DEF UtteranceStep, TurnCheck, TurnInsert, Think, ThinkRow, Research, Ask, Heard, Push,
               ReplyGate, ReplyCheck, ReplyInsert, OutInsert, Show, ListenRow, SpeakCheck,
               SpeakOutCheck, SpeakOutInsert, SpeakRow, FailGate, Fail, Gate, Persist, GoTo,
               Inv, TypeOK, HeardSteps
      <3>3. /\ \A v \in Utterances \ {u} : pc'[v] = pc[v]
            /\ pc'[u] # "none"
            /\ UNCHANGED <<kind, status, active, phase, wish>>
            /\ handling = "stop" => handling' = "stop"
        BY <3>1, ConstantsAssumption
        DEF Move, GoTo, quiet, Inv, TypeOK, Steps, TextSteps, HeardSteps, ReplySteps, FailSteps
      <3>. QED
        BY <3>2, <3>3
    <2>9. ASSUME NEW u \in Utterances, Fault(u) PROVE KindInv'
      <3>1. \A v \in Utterances : pc'[v] = pc[v] \/ pc'[v] \in {"failGate", "done"}
        BY <2>9 DEF Fault, GoTo, Inv, TypeOK
      <3>2. /\ UNCHANGED <<kind, status, active, phase, wish>>
            /\ handling = "stop" => handling' = "stop"
        BY <2>9, ConstantsAssumption DEF Fault, GoTo
      <3>. QED
        BY <3>1, <3>2 DEF HeardSteps
    <2>10. CASE HandlerFault
      BY <2>10 DEF HandlerFault
    <2>11. CASE UNCHANGED vars
      BY <2>11 DEF vars, queueVars
    <2>. QED
      BY <2>1, <2>2, <2>3, <2>4, <2>5, <2>6, <2>7, <2>8, <2>9, <2>10, <2>11 DEF Next, HandlerStep
  <1>. QED
    BY <1>1, <1>2, InvCorrect, FreshCorrect, PTL DEF Spec

\* A text stores its turn before it leaves the queue; the turns of transcripts
\* are not those of texts.
LEMMA MoveTurn ==
    ASSUME Inv, KindInv, TurnInv, NEW u \in Utterances, UtteranceStep(u)
    PROVE  TurnInv'
  <1>1. Move(u)
    BY UtteranceStepMoves
  <1>2. /\ \A v \in Utterances \ {u} : pc'[v] = pc[v]
        /\ UNCHANGED <<kind, status, active, phase, faults>>
        /\ handling' = handling \/ (handling = u /\ pc'[u] \in {"done", "ask"})
    BY <1>1 DEF Move, GoTo, quiet, sessionVars, Inv, TypeOK
  <1>3. pc'[u] \in {"turnCheck", "turnInsert"} => pc[u] \in {"turnCheck", "turnInsert"}
    BY DEF UtteranceStep, TurnCheck, TurnInsert, Think, ThinkRow, Research, Ask, Heard, Push,
           ReplyGate, ReplyCheck, ReplyInsert, OutInsert, Show, ListenRow, SpeakCheck,
           SpeakOutCheck, SpeakOutInsert, SpeakRow, FailGate, Fail, Gate, Persist, GoTo,
           Inv, TypeOK
  <1>4. turns' = turns \/ (turns' = turns \cup {u} /\ TurnInsert(u))
    BY DEF UtteranceStep, TurnCheck, TurnInsert, Think, ThinkRow, Research, Ask, Heard, Push,
           ReplyGate, ReplyCheck, ReplyInsert, OutInsert, Show, ListenRow, SpeakCheck,
           SpeakOutCheck, SpeakOutInsert, SpeakRow, FailGate, Fail, content
  <1>5. TurnInsert(u) /\ kind[u] = "text" => StoresTurn(u)
    BY DEF TurnInsert, StoresTurn, KindInv, HeardSteps
  <1>6. ASSUME StoresTurn(u), active PROVE pc'[u] \in {"turnCheck", "turnInsert"} \/ u \in turns'
    <2>1. TurnCheck(u) \/ TurnInsert(u)
      BY <1>6 DEF StoresTurn, UtteranceStep, TurnCheck, TurnInsert, Think, ThinkRow, Research, Ask,
             Heard, Push, ReplyGate, ReplyCheck, ReplyInsert, OutInsert, Show, ListenRow,
             SpeakCheck, SpeakOutCheck, SpeakOutInsert, SpeakRow, FailGate, Fail
    <2>2. CanWrite
      BY <1>6 DEF CanWrite, Inv, FlowInv
    <2>. QED
      BY <1>6, <2>1, <2>2 DEF StoresTurn, TurnCheck, TurnInsert, Persist, GoTo, Inv, TypeOK
  <1>7. \A v \in Utterances : StoresTurn(v)' => StoresTurn(v) /\ handling' = v
    BY <1>2, <1>3 DEF StoresTurn, TurnInv
  <1>8. faults = 0 /\ (active \/ phase = "save" \/ status = "saved") =>
           \A v \in Texts : StoresTurn(v)' \/ v \in turns'
    BY <1>2, <1>4, <1>6, <1>7 DEF TurnInv, StoresTurn, Texts
  <1>9. status = "discarded" => Texts \cap turns' = {}
    BY <1>4, <1>5 DEF TurnInv, Texts
  <1>. QED
    BY <1>2, <1>7, <1>8, <1>9 DEF TurnInv, Texts

\* The turns of texts are stored before a stop is handled, and no save skips one.
LEMMA TurnCorrect == Spec => []TurnInv
  <1>1. Init => TurnInv
    BY DEF Init, TurnInv, StoresTurn, Texts
  <1>2. Inv /\ FreshInv /\ KindInv /\ TurnInv /\ [Next]_vars => TurnInv'
    <2>. SUFFICES ASSUME Inv, FreshInv, KindInv, TurnInv, [Next]_vars PROVE TurnInv'
      OBVIOUS
    <2>. USE DEF Texts, StoresTurn, sessionVars
    <2>1. ASSUME UNCHANGED <<kind, pc, turns>>,
                 status' = status, phase' \notin {"save", "discard"} \/ phase' = phase,
                 active' => active,
                 handling' = handling \/ handling \notin Utterances,
                 faults' = faults
          PROVE  TurnInv'
      BY <2>1 DEF TurnInv
    <2>2. CASE Close \/ SpeechStarted \/ SpeechEnded
      BY <2>1, <2>2, ConstantsAssumption DEF Close, SpeechStarted, SpeechEnded, still
    <2>3. CASE BargeIn \/ SilenceOutputs \/ SpeechEndedRow
      BY <2>1, <2>3, ConstantsAssumption DEF BargeIn, SilenceOutputs, SpeechEndedRow, still, Inv, FlowInv
    <2>4. CASE Start \/ Started
      <3>1. \A u \in Utterances : pc[u] = "none" /\ kind[u] = "none"
        BY <2>4 DEF Start, Started, FreshInv, KindInv
      <3>. QED
        BY <2>4, <3>1 DEF Start, Started, content, TurnInv
    <2>5. CASE SilenceRow
      <3>1. CASE handling = "stop"
        <4>1. active /\ \A u \in Utterances : ~StoresTurn(u)
          BY <2>5, <3>1, ConstantsAssumption DEF SilenceRow, Inv, FlowInv, KindInv, TurnInv
        <4>. QED
          BY <2>5, <3>1, <4>1 DEF SilenceRow, still, TurnInv
      <3>2. CASE handling # "stop"
        BY <2>1, <2>5, <3>2, ConstantsAssumption DEF SilenceRow, still, Inv, FlowInv
      <3>. QED
        BY <3>1, <3>2
    <2>6. ASSUME NEW w \in {"save", "discard"}, Stop(w) PROVE TurnInv'
      <3>1. \A u \in Utterances : ~StoresTurn(u)
        BY <2>6, ConstantsAssumption DEF Stop, TurnInv
      <3>. QED
        BY <2>6, <3>1 DEF Stop, still, TurnInv, Inv, FlowInv
    <2>7. CASE Save \/ Discard
      BY <2>7, ConstantsAssumption DEF Save, Discard, endOnly, content, TurnInv, Inv, FlowInv
    <2>8. CASE Interrupt \/ StopRow \/ InterruptRow \/ PurgeOutputs
      BY <2>8, ConstantsAssumption
      DEF Interrupt, StopRow, InterruptRow, PurgeOutputs, endOnly, content, TurnInv
    <2>9. CASE PurgeTurns
      BY <2>9 DEF PurgeTurns, endOnly, TurnInv, KindInv, Inv, FlowInv
    <2>10. CASE Clear
      BY <2>1, <2>10, ConstantsAssumption DEF Clear, endOnly, content
    <2>11. ASSUME NEW u \in Utterances, Text(u) PROVE TurnInv'
      <3>1. active /\ phase = "live" /\ status = "active" /\ \A v \in Utterances : ~StoresTurn(v)
        BY <2>11, ConstantsAssumption DEF Text, TurnInv, Inv, FlowInv
      <3>. QED
        BY <2>11, <3>1 DEF Text, Arrive, content, TurnInv, Inv, TypeOK
    <2>12. ASSUME NEW u \in Utterances, Transcript(u) \/ Hear(u) PROVE TurnInv'
      <3>1. /\ \A v \in Utterances \ {u} : kind'[v] = kind[v] /\ pc'[v] = pc[v]
            /\ kind'[u] = "transcript"
            /\ UNCHANGED <<status, phase, active, turns, faults>>
            /\ handling' = handling \/ handling \notin Utterances
        BY <2>12, ConstantsAssumption DEF Transcript, Hear, Arrive, content, Inv, TypeOK
      <3>. QED
        BY <3>1 DEF TurnInv
    <2>13. ASSUME NEW u \in Utterances, UtteranceStep(u) PROVE TurnInv'
      BY <2>13, MoveTurn
    <2>14. ASSUME NEW u \in Utterances, Fault(u) PROVE TurnInv'
      <3>1. /\ \A v \in Utterances \ {u} : pc'[v] = pc[v]
            /\ pc'[u] \in {"failGate", "done"}
            /\ UNCHANGED <<kind, status, phase, turns>> /\ faults' # 0
            /\ handling' = handling \/ handling = u
        BY <2>14 DEF Fault, GoTo, content, Inv, TypeOK
      <3>. QED
        BY <3>1 DEF TurnInv
    <2>15. CASE HandlerFault
      <3>1. /\ UNCHANGED <<kind, pc, status, turns>> /\ faults' # 0
            /\ phase' \in {phase, "failed"}
            /\ handling' = handling \/ handling \notin Utterances
        BY <2>15, ConstantsAssumption DEF HandlerFault, content, Inv, TypeOK
      <3>. QED
        BY <3>1 DEF TurnInv
    <2>16. CASE UNCHANGED vars
      BY <2>1, <2>16 DEF vars, queueVars, content
    <2>. QED
      BY <2>2, <2>3, <2>4, <2>5, <2>6, <2>7, <2>8, <2>9, <2>10, <2>11, <2>12, <2>13, <2>14, <2>15, <2>16
      DEF Next, HandlerStep, EndStep
  <1>. QED
    BY <1>1, <1>2, InvCorrect, FreshCorrect, KindCorrect, PTL DEF Spec

\* A save keeps every text its user sent before the stop, unless a statement
\* failed.
THEOREM TurnsSaved == Spec => []SavedHasUserTurns
  <1>1. TurnInv => SavedHasUserTurns
    BY DEF TurnInv, SavedHasUserTurns, Texts
  <1>. QED
    BY <1>1, TurnCorrect, PTL

\* A discard leaves none of the texts its user sent.
THEOREM TurnsDiscarded == Spec => []UserTurnsDiscarded
  <1>1. TurnInv => UserTurnsDiscarded
    BY DEF TurnInv, UserTurnsDiscarded
  <1>. QED
    BY <1>1, TurnCorrect, PTL
=============================================================================
