--------------------------- MODULE LiveSessionProofs ---------------------------
(***************************************************************************)
(* Proofs about LiveSession for every set of sessions and segments and     *)
(* every bound on rejected statements:                                     *)
(*   TypeCorrect        the type invariant, with FlowInv;                  *)
(*   MemoryCorrect      MemoryMatchesSave, from SavedInv;                  *)
(*   SuggestionsKept    ShownSuggestionsKept, from SavedInv;               *)
(*   DiscardCorrect     DiscardIsComplete, from CueInv and TypedInv.       *)
(***************************************************************************)
EXTENDS LiveSession, TLAPS

\* Before its status changes for the last time.
Before == {"start", "live", "discard", "save", "deleteTranscript", "deleteSuggestions",
           "deleteCues", "interrupt"}

\* How the live map, the row and the coroutine that ends a session relate.
\* While the socket is open and no stop was ever sent, the handler's session is
\* active, so the close event ends no session twice; nothing is stored or sent
\* of a segment that was not ingested, and none is ingested into a session that
\* has not started.
FlowInv ==
    /\ \A s \in Sessions :
          /\ active[s] <=> phase[s] = "live"
          /\ active[s] => live[s]
          /\ status[s] = "none" <=> phase[s] = "none"
          /\ phase[s] \in Before => status[s] = "active"
          /\ phase[s] \in {"read", "extract"} => status[s] = "saved"
          /\ phase[s] = "clear" => status[s] \in {"saved", "discarded", "interrupted"}
          /\ phase[s] \in {"deleteTranscript", "deleteSuggestions", "deleteCues"} => discardOnStop[s]
          /\ audio[s] => status[s] # "none"
    /\ socketOpen /\ ~stopped /\ current # NoSession => active[current]
    /\ \A g \in Segments : ingest[g] = "none" =>
          /\ target[g] = NoSession /\ job[g] = "none"
          /\ g \notin UNION {transcript, cues, context, shown, shownSuggestions}
    /\ \A g \in Segments : ingest[g] # "none" => phase[target[g]] \notin {"none", "start"}

Inv == TypeOK /\ FlowInv

-----------------------------------------------------------------------------
(* Types and flow. *)

\* Types and flow hold in every behaviour.
LEMMA InvCorrect == Spec => []Inv
  <1>1. Init => Inv
    <2>. SUFFICES ASSUME Init PROVE Inv
      OBVIOUS
    <2>1. TypeOK
      BY ConstantsAssumption DEF Init, TypeOK, Ending
    <2>2. FlowInv
      BY DEF Init, FlowInv, Before
    <2>. QED
      BY <2>1, <2>2 DEF Inv
  <1>2. Inv /\ [Next]_vars => Inv'
    <2>. SUFFICES ASSUME Inv, [Next]_vars PROVE Inv'
      OBVIOUS
    <2>. USE ConstantsAssumption
         DEF Inv, TypeOK, FlowInv, Before, Ending, IngestSteps, JobSteps,
             sessionVars, handlerVars, segmentVars, rows, outputs
    <2>1. ASSUME NEW s \in Sessions, Start(s) PROVE Inv'
      BY <2>1 DEF Start
    <2>2. ASSUME NEW s \in Sessions, Started(s) PROVE Inv'
      BY <2>2 DEF Started
    <2>3. ASSUME NEW s \in Sessions, Discard(s) PROVE Inv'
      BY <2>3 DEF Discard, endOnly
    <2>4. ASSUME NEW s \in Sessions, Save(s) PROVE Inv'
      BY <2>4 DEF Save, endOnly
    <2>5. ASSUME NEW s \in Sessions, ReadTranscript(s) PROVE Inv'
      BY <2>5 DEF ReadTranscript, endOnly
    <2>6. ASSUME NEW s \in Sessions, Extract(s) PROVE Inv'
      BY <2>6 DEF Extract, endOnly
    <2>7. ASSUME NEW s \in Sessions, DeleteTranscript(s) PROVE Inv'
      BY <2>7 DEF DeleteTranscript, endOnly
    <2>8. ASSUME NEW s \in Sessions, DeleteSuggestions(s) PROVE Inv'
      BY <2>8 DEF DeleteSuggestions, endOnly
    <2>9. ASSUME NEW s \in Sessions, DeleteCues(s) PROVE Inv'
      BY <2>9 DEF DeleteCues, endOnly
    <2>10. ASSUME NEW s \in Sessions, Interrupt(s) PROVE Inv'
      BY <2>10 DEF Interrupt, endOnly
    <2>11. ASSUME NEW s \in Sessions, Clear(s) PROVE Inv'
      BY <2>11 DEF Clear
    <2>12. ASSUME NEW s \in Sessions, SessionFault(s) PROVE Inv'
      BY <2>12 DEF SessionFault
    <2>13. ASSUME NEW g \in Segments, Send(g) PROVE Inv'
      BY <2>13 DEF Send, Ingest
    <2>14. ASSUME NEW g \in Segments, NEW q \in Sessions, Hear(g, q) PROVE Inv'
      BY <2>14 DEF Hear, Ingest
    <2>15. ASSUME NEW g \in Segments, Insert(g) PROVE Inv'
      BY <2>15 DEF Insert, GoTo
    <2>16. ASSUME NEW g \in Segments, Push(g) PROVE Inv'
      BY <2>16 DEF Push, GoTo
    <2>17. ASSUME NEW g \in Segments, CueSlot(g) \/ CueSelect(g) \/ CueInsert(g) PROVE Inv'
      BY <2>17 DEF CueSlot, CueSelect, CueInsert, GoTo, ingestOnly
    <2>18. ASSUME NEW g \in Segments, CueRecheck(g) \/ CueDelete(g) \/ SuggestSlot(g) PROVE Inv'
      BY <2>18, SMTT(40) DEF CueRecheck, CueDelete, SuggestSlot, GoTo, ingestOnly
    <2>19. ASSUME NEW g \in Segments, Answered(g) \/ SuggestSelect(g) \/ SuggestInsert(g) PROVE Inv'
      BY <2>19, SMTT(40) DEF Answered, SuggestSelect, SuggestInsert, jobOnly
    <2>20. ASSUME NEW g \in Segments, SegmentFault(g) PROVE Inv'
      BY <2>20 DEF SegmentFault, GoTo
    <2>21. ASSUME NEW save \in BOOLEAN, Stop(save) PROVE Inv'
      BY <2>21 DEF Stop, End
    <2>22. ASSUME Close PROVE Inv'
      <3>1. CASE current # NoSession /\ ~stopped /\ live[current]
        <4>1. active[current] /\ current \in Sessions
          BY <2>22, <3>1 DEF Close
        <4>2. ASSUME NEW step \in {"deleteTranscript", "interrupt"}, End(current, step),
                     step = "deleteTranscript" => discardOnStop[current]
              PROVE  Inv'
          <5>1. /\ UNCHANGED <<status, discardOnStop, audio, live, current, stopped, handling,
                               segmentVars, rows, outputs, faults>>
                /\ socketOpen' = FALSE
                /\ active' = [active EXCEPT ![current] = FALSE]
                /\ phase' = [phase EXCEPT ![current] = step]
            BY <2>22, <4>2 DEF Close, End
          <5>2. FlowInv'
            BY <4>1, <4>2, <5>1
          <5>3. TypeOK
            OBVIOUS
          <5>. HIDE DEF Inv, FlowInv
          <5>4. TypeOK'
            <6>1. /\ {discardOnStop, audio, live, active}' \subseteq [Sessions -> BOOLEAN]
                  /\ phase' \in [Sessions -> Ending \cup {"none", "start", "live", "ended", "failed"}]
              BY <4>1, <5>1, <5>3
            <6>2. /\ UNION {transcript, cues, suggestions, context, shown, shownSuggestions}' \subseteq Segments
                  /\ {origin, target}' \subseteq [Segments -> Sessions \cup {NoSession}]
              BY <5>1, <5>3
            <6>. QED
              BY <5>1, <5>3, <6>1, <6>2
          <5>. QED
            BY <5>2, <5>4 DEF Inv
        <4>3. \/ End(current, "deleteTranscript") /\ discardOnStop[current]
              \/ End(current, "interrupt")
          BY <2>22, <3>1 DEF Close
        <4>. HIDE DEF Inv
        <4>. QED
          BY <4>2, <4>3
      <3>2. CASE ~(current # NoSession /\ ~stopped /\ live[current])
        <4>1. /\ UNCHANGED <<sessionVars, current, stopped, handling, segmentVars, rows, outputs, faults>>
              /\ socketOpen' = FALSE
          BY <2>22, <3>2 DEF Close
        <4>2. TypeOK'
          BY <4>1
        <4>3. FlowInv'
          BY <4>1
        <4>. QED
          BY <4>2, <4>3
      <3>. QED
        BY <3>1, <3>2
    <2>23. CASE UNCHANGED vars
      BY <2>23 DEF vars
    <2>. HIDE DEF Inv, TypeOK, FlowInv, Before, Ending, IngestSteps, JobSteps,
                  sessionVars, handlerVars, segmentVars, rows, outputs
    <2>24. ASSUME NEW s \in Sessions, SessionStep(s) PROVE Inv'
      BY <2>2, <2>3, <2>4, <2>5, <2>6, <2>7, <2>8, <2>9, <2>10, <2>11, <2>24 DEF SessionStep
    <2>25. ASSUME NEW g \in Segments, SegmentStep(g) PROVE Inv'
      BY <2>15, <2>16, <2>17, <2>18, <2>19, <2>25 DEF SegmentStep
    <2>. QED
      BY <2>1, <2>12, <2>13, <2>14, <2>20, <2>21, <2>22, <2>23, <2>24, <2>25 DEF Next
  <1>. QED
    BY <1>1, <1>2, PTL DEF Spec

\* TypeOK for every set of sessions and segments, with a part of the flow in
\* it: a segment whose ingest has begun belongs to two sessions of the socket.
THEOREM TypeCorrect == Spec => []TypeOK
  BY InvCorrect, PTL DEF Inv

-----------------------------------------------------------------------------
(* What a save keeps. *)

\* Until the save has read it, a session has the row of every segment that was
\* shown or is past its INSERT; until it is known not to be saved, it has the
\* row of every suggestion that was shown.
SavedInv ==
    /\ \A s \in Sessions :
          /\ phase[s] \in {"live", "save", "read"} =>
                \A g \in Of(s) :
                    g \in shown \/ ingest[g] \in IngestSteps \ {"insert"} => g \in transcript
          /\ phase[s] \in {"live", "save"} \/ status[s] = "saved" =>
                shownSuggestions \cap Of(s) \subseteq suggestions
    /\ MemoryMatchesSave

\* SavedInv holds in every behaviour: what deletes rows of a session does so
\* after its entry became inactive, and only in a session that is not saved.
LEMMA SavedCorrect == Spec => []SavedInv
  <1>1. Init => SavedInv
    BY DEF Init, SavedInv, MemoryMatchesSave, ShownSegmentsExtracted, OnlySavedRemembered, Of
  <1>2. Inv /\ Inv' /\ SavedInv /\ [Next]_vars => SavedInv'
    <2>. SUFFICES ASSUME Inv, Inv', SavedInv, [Next]_vars PROVE SavedInv'
      OBVIOUS
    <2>0. /\ \A s \in Sessions : active[s] => phase[s] = "live"
          /\ \A s \in Sessions : phase[s] \in Before => status[s] = "active"
          /\ \A s \in Sessions : phase[s] \in {"read", "extract"} => status[s] = "saved"
          /\ \A s \in Sessions : status[s] = "none" <=> phase[s] = "none"
          /\ socketOpen /\ ~stopped /\ current # NoSession => active[current]
          /\ \A g \in Segments : ingest[g] = "none" => g \notin shown \cup shownSuggestions
          /\ \A g \in Segments : ingest[g] = "none" => target[g] = NoSession
          /\ \A g \in Segments : ingest[g] # "none" =>
                target[g] \in Sessions /\ phase[target[g]] \notin {"none", "start"}
          /\ shown \subseteq Segments /\ suggestions \subseteq Segments /\ memories \subseteq Sessions
          /\ status \in [Sessions -> {"none", "active", "saved", "interrupted", "discarded"}]
          /\ phase \in [Sessions -> Ending \cup {"none", "start", "live", "ended", "failed"}]
          /\ active \in [Sessions -> BOOLEAN] /\ read \in [Sessions -> SUBSET Segments]
          /\ target \in [Segments -> Sessions \cup {NoSession}]
          /\ ingest \in [Segments -> IngestSteps \cup {"none", "done"}]
          /\ NoSession \notin Sessions
      BY ConstantsAssumption DEF Inv, TypeOK, FlowInv
    <2>. USE DEF SavedInv, MemoryMatchesSave, ShownSegmentsExtracted, OnlySavedRemembered, Of,
                 Before, sessionVars, handlerVars, segmentVars, rows, outputs
    <2>1. ASSUME NEW s \in Sessions, Start(s) PROVE SavedInv'
      BY <2>0, <2>1 DEF Start
    <2>2. ASSUME NEW s \in Sessions, Started(s) PROVE SavedInv'
      BY <2>0, <2>2 DEF Started
    <2>3. ASSUME NEW s \in Sessions, Discard(s) PROVE SavedInv'
      BY <2>0, <2>3 DEF Discard, endOnly
    <2>4. ASSUME NEW s \in Sessions, Save(s) PROVE SavedInv'
      BY <2>0, <2>4 DEF Save, endOnly
    <2>5. ASSUME NEW s \in Sessions, ReadTranscript(s) PROVE SavedInv'
      BY <2>0, <2>5 DEF ReadTranscript, endOnly
    <2>6. ASSUME NEW s \in Sessions, Extract(s) PROVE SavedInv'
      BY <2>0, <2>6 DEF Extract, endOnly
    <2>7. ASSUME NEW s \in Sessions, DeleteTranscript(s) PROVE SavedInv'
      BY <2>0, <2>7 DEF DeleteTranscript, endOnly
    <2>8. ASSUME NEW s \in Sessions, DeleteSuggestions(s) \/ DeleteCues(s) PROVE SavedInv'
      BY <2>0, <2>8 DEF DeleteSuggestions, DeleteCues, endOnly
    <2>9. ASSUME NEW s \in Sessions, Interrupt(s) PROVE SavedInv'
      BY <2>0, <2>9 DEF Interrupt, endOnly
    <2>10. ASSUME NEW s \in Sessions, Clear(s) PROVE SavedInv'
      BY <2>0, <2>10 DEF Clear
    <2>11. ASSUME NEW s \in Sessions, SessionFault(s) PROVE SavedInv'
      BY <2>0, <2>11 DEF SessionFault
    <2>12. ASSUME NEW g \in Segments, NEW q \in Sessions \cup {NoSession}, Ingest(g, q) PROVE SavedInv'
      BY <2>0, <2>12 DEF Ingest
    <2>13. ASSUME NEW g \in Segments, Insert(g) PROVE SavedInv'
      BY <2>0, <2>13 DEF Insert, GoTo
    <2>14. ASSUME NEW g \in Segments, Push(g) PROVE SavedInv'
      BY <2>0, <2>14 DEF Push, GoTo, IngestSteps
    <2>15. ASSUME NEW g \in Segments, CueSlot(g) \/ CueSelect(g) \/ CueInsert(g) PROVE SavedInv'
      BY <2>0, <2>15 DEF CueSlot, CueSelect, CueInsert, GoTo, ingestOnly, IngestSteps
    <2>16. ASSUME NEW g \in Segments, CueRecheck(g) \/ CueDelete(g) \/ SuggestSlot(g) PROVE SavedInv'
      BY <2>0, <2>16 DEF CueRecheck, CueDelete, SuggestSlot, GoTo, ingestOnly, IngestSteps
    <2>17. ASSUME NEW g \in Segments, Answered(g) \/ SuggestSelect(g) \/ SuggestInsert(g) PROVE SavedInv'
      BY <2>0, <2>17 DEF Answered, SuggestSelect, SuggestInsert, jobOnly
    <2>18. ASSUME NEW g \in Segments, SegmentFault(g) PROVE SavedInv'
      BY <2>0, <2>18 DEF SegmentFault, GoTo, IngestSteps
    <2>19. ASSUME NEW save \in BOOLEAN, Stop(save) PROVE SavedInv'
      BY <2>0, <2>19 DEF Stop, End
    <2>20. ASSUME Close PROVE SavedInv'
      <3>1. \/ UNCHANGED <<active, phase>>
            \/ /\ current \in Sessions /\ active[current]
               /\ \E step \in {"deleteTranscript", "interrupt"} : phase' = [phase EXCEPT ![current] = step]
        BY <2>0, <2>20 DEF Close, End, Inv, TypeOK
      <3>. QED
        BY <2>0, <2>20, <3>1 DEF Close
    <2>21. CASE UNCHANGED vars
      BY <2>21 DEF vars
    <2>. HIDE DEF SavedInv, MemoryMatchesSave, ShownSegmentsExtracted, OnlySavedRemembered, Of,
                 Before, sessionVars, handlerVars, segmentVars, rows, outputs
    <2>22. ASSUME NEW s \in Sessions, SessionStep(s) PROVE SavedInv'
      BY <2>2, <2>3, <2>4, <2>5, <2>6, <2>7, <2>8, <2>9, <2>10, <2>22 DEF SessionStep
    <2>23. ASSUME NEW g \in Segments, SegmentStep(g) PROVE SavedInv'
      BY <2>13, <2>14, <2>15, <2>16, <2>17, <2>23 DEF SegmentStep
    <2>24. ASSUME NEW g \in Segments, Send(g) \/ \E q \in Sessions : Hear(g, q) PROVE SavedInv'
      BY <2>0, <2>12, <2>24 DEF Send, Hear, Inv, TypeOK
    <2>. QED
      BY <2>1, <2>11, <2>18, <2>19, <2>20, <2>21, <2>22, <2>23, <2>24 DEF Next
  <1>. QED
    BY <1>1, <1>2, InvCorrect, PTL DEF Spec

\* MemoryMatchesSave for every number of sessions and segments: a saved session
\* is remembered from all it showed, and no other session is.
THEOREM MemoryCorrect == Spec => []MemoryMatchesSave
  BY SavedCorrect, PTL DEF SavedInv

\* ShownSuggestionsKept for every number of sessions and segments: the row of a
\* suggestion is stored before it is shown, and a save deletes none.
THEOREM SuggestionsKept == Spec => []ShownSuggestionsKept
  <1>1. SavedInv => ShownSuggestionsKept
    BY DEF SavedInv, ShownSuggestionsKept
  <1>. QED
    BY <1>1, SavedCorrect, PTL

-----------------------------------------------------------------------------
(* What a discard deletes. *)

\* The deletion of the cues of s is over: in one transaction or row by row.
CuesDeleted(s) ==
    \/ phase[s] = "interrupt" /\ discardOnStop[s]
    \/ /\ phase[s] \in {"clear", "ended"}
       /\ status[s] = "discarded" \/ (status[s] = "interrupted" /\ discardOnStop[s])

\* A cue inserted after it is about to be deleted by its own coroutine.
CueInv ==
    \A s \in Sessions : faults = 0 /\ CuesDeleted(s) =>
        cues \cap Of(s) = {} \/ \E g \in Of(s) : ingest[g] = "cueDelete"

\* No session of the socket streams audio.
Typed == \A q \in Sessions : ~audio[q]

\* Then the queue waits for every ingest; it waits for a start and a discarding
\* stop in any case, and nothing is ingested once the stop is handled.
TypedInv ==
    /\ Typed => \A g \in Segments : ingest[g] \in IngestSteps => handling = g
    /\ \A s \in Sessions :
          /\ phase[s] \in {"start", "discard"} => handling = s
          /\ phase[s] = "clear" /\ status[s] = "discarded" => handling = s
          /\ Typed /\ phase[s] = "clear" /\ status[s] = "discarded" => transcript \cap Of(s) = {}
          /\ Typed /\ phase[s] = "ended" /\ status[s] = "discarded" =>
                \A g \in Of(s) : g \notin transcript \cup context /\ ingest[g] \notin IngestSteps

\* CueInv holds in every behaviour: a coroutine looks at the live entry once
\* its INSERT is done, and the entry is inactive before anything is deleted.
LEMMA CueCorrect == Spec => []CueInv
  <1>1. Init => CueInv
    BY DEF Init, CueInv, CuesDeleted
  <1>2. Inv /\ CueInv /\ [Next]_vars => CueInv'
    <2>. SUFFICES ASSUME Inv, CueInv, [Next]_vars PROVE CueInv'
      OBVIOUS
    <2>0. /\ \A s \in Sessions : active[s] => phase[s] = "live"
          /\ \A s \in Sessions : phase[s] \in Before => status[s] = "active"
          /\ \A s \in Sessions : phase[s] \in {"read", "extract"} => status[s] = "saved"
          /\ socketOpen /\ ~stopped /\ current # NoSession => active[current]
          /\ \A g \in Segments : ingest[g] = "none" => g \notin cues /\ target[g] = NoSession
          /\ \A g \in Segments : ingest[g] # "none" => target[g] \in Sessions
          /\ cues \subseteq Segments /\ faults \in Nat
          /\ status \in [Sessions -> {"none", "active", "saved", "interrupted", "discarded"}]
          /\ phase \in [Sessions -> Ending \cup {"none", "start", "live", "ended", "failed"}]
          /\ active \in [Sessions -> BOOLEAN] /\ discardOnStop \in [Sessions -> BOOLEAN]
          /\ target \in [Segments -> Sessions \cup {NoSession}]
          /\ ingest \in [Segments -> IngestSteps \cup {"none", "done"}]
          /\ NoSession \notin Sessions
      BY ConstantsAssumption DEF Inv, TypeOK, FlowInv
    <2>. USE DEF CueInv, CuesDeleted, Of, Before, sessionVars, handlerVars, segmentVars, rows, outputs
    <2>1. ASSUME NEW s \in Sessions, Start(s) PROVE CueInv'
      BY <2>0, <2>1 DEF Start
    <2>2. ASSUME NEW s \in Sessions, Started(s) \/ Save(s) \/ ReadTranscript(s) \/ Extract(s)
          PROVE  CueInv'
      BY <2>0, <2>2 DEF Started, Save, ReadTranscript, Extract, endOnly
    <2>3. ASSUME NEW s \in Sessions, Discard(s) PROVE CueInv'
      BY <2>0, <2>3 DEF Discard, endOnly
    <2>4. ASSUME NEW s \in Sessions, DeleteTranscript(s) \/ DeleteSuggestions(s) PROVE CueInv'
      BY <2>0, <2>4 DEF DeleteTranscript, DeleteSuggestions, endOnly
    <2>5. ASSUME NEW s \in Sessions, DeleteCues(s) PROVE CueInv'
      BY <2>0, <2>5 DEF DeleteCues, endOnly
    <2>6. ASSUME NEW s \in Sessions, Interrupt(s) PROVE CueInv'
      BY <2>0, <2>6 DEF Interrupt, endOnly
    <2>7. ASSUME NEW s \in Sessions, Clear(s) PROVE CueInv'
      BY <2>0, <2>7 DEF Clear
    <2>8. ASSUME NEW s \in Sessions, SessionFault(s) PROVE CueInv'
      BY <2>0, <2>8 DEF SessionFault
    <2>9. ASSUME NEW g \in Segments, NEW q \in Sessions \cup {NoSession}, Ingest(g, q) PROVE CueInv'
      BY <2>0, <2>9 DEF Ingest
    <2>10. ASSUME NEW g \in Segments, Insert(g) \/ Push(g) PROVE CueInv'
      BY <2>0, <2>10 DEF Insert, Push, GoTo
    <2>11. ASSUME NEW g \in Segments, CueSlot(g) \/ CueSelect(g) \/ CueRecheck(g) \/ SuggestSlot(g)
           PROVE  CueInv'
      BY <2>0, <2>11 DEF CueSlot, CueSelect, CueRecheck, SuggestSlot, GoTo, ingestOnly
    <2>12. ASSUME NEW g \in Segments, CueInsert(g) PROVE CueInv'
      BY <2>0, <2>12 DEF CueInsert, GoTo, ingestOnly
    <2>13. ASSUME NEW g \in Segments, CueDelete(g) PROVE CueInv'
      BY <2>0, <2>13 DEF CueDelete, GoTo, ingestOnly
    <2>14. ASSUME NEW g \in Segments, Answered(g) \/ SuggestSelect(g) \/ SuggestInsert(g) PROVE CueInv'
      BY <2>0, <2>14 DEF Answered, SuggestSelect, SuggestInsert, jobOnly
    <2>15. ASSUME NEW g \in Segments, SegmentFault(g) PROVE CueInv'
      BY <2>0, <2>15 DEF SegmentFault, GoTo
    <2>16. ASSUME NEW save \in BOOLEAN, Stop(save) PROVE CueInv'
      BY <2>0, <2>16 DEF Stop, End
    <2>17. ASSUME Close PROVE CueInv'
      <3>1. \/ UNCHANGED <<active, phase>>
            \/ /\ current \in Sessions
               /\ \/ discardOnStop[current] /\ phase' = [phase EXCEPT ![current] = "deleteTranscript"]
                  \/ ~discardOnStop[current] /\ phase' = [phase EXCEPT ![current] = "interrupt"]
        BY <2>0, <2>17 DEF Close, End, Inv, TypeOK
      <3>. QED
        BY <2>0, <2>17, <3>1 DEF Close
    <2>18. CASE UNCHANGED vars
      BY <2>18 DEF vars
    <2>. HIDE DEF CueInv, CuesDeleted, Of, Before, sessionVars, handlerVars, segmentVars, rows, outputs
    <2>19. ASSUME NEW s \in Sessions, SessionStep(s) PROVE CueInv'
      BY <2>2, <2>3, <2>4, <2>5, <2>6, <2>7, <2>19 DEF SessionStep
    <2>20. ASSUME NEW g \in Segments, SegmentStep(g) PROVE CueInv'
      BY <2>10, <2>11, <2>12, <2>13, <2>14, <2>20 DEF SegmentStep
    <2>21. ASSUME NEW g \in Segments, Send(g) \/ \E q \in Sessions : Hear(g, q) PROVE CueInv'
      BY <2>0, <2>9, <2>21 DEF Send, Hear, Inv, TypeOK
    <2>. QED
      BY <2>1, <2>8, <2>15, <2>16, <2>17, <2>18, <2>19, <2>20, <2>21 DEF Next
  <1>. QED
    BY <1>1, <1>2, InvCorrect, PTL DEF Spec

\* TypedInv holds in every behaviour: only the callback of an audio stream
\* ingests past the message queue.
LEMMA TypedCorrect == Spec => []TypedInv
  <1>1. Init => TypedInv
    BY DEF Init, TypedInv, IngestSteps
  <1>2. Inv /\ TypedInv /\ [Next]_vars => TypedInv'
    <2>. SUFFICES ASSUME Inv, TypedInv, [Next]_vars PROVE TypedInv'
      OBVIOUS
    <2>0. /\ \A s \in Sessions : active[s] => phase[s] = "live"
          /\ \A s \in Sessions : phase[s] \in Before => status[s] = "active"
          /\ \A s \in Sessions : phase[s] \in {"read", "extract"} => status[s] = "saved"
          /\ \A s \in Sessions : audio[s] => status[s] # "none"
          /\ socketOpen /\ ~stopped /\ current # NoSession => active[current]
          /\ \A g \in Segments : ingest[g] = "none" => g \notin transcript \cup context /\ target[g] = NoSession
          /\ \A g \in Segments : ingest[g] # "none" => target[g] \in Sessions
          /\ handling \in {"idle"} \cup Sessions \cup Segments
          /\ transcript \subseteq Segments /\ context \subseteq Segments
          /\ status \in [Sessions -> {"none", "active", "saved", "interrupted", "discarded"}]
          /\ phase \in [Sessions -> Ending \cup {"none", "start", "live", "ended", "failed"}]
          /\ active \in [Sessions -> BOOLEAN] /\ audio \in [Sessions -> BOOLEAN]
          /\ target \in [Segments -> Sessions \cup {NoSession}]
          /\ ingest \in [Segments -> IngestSteps \cup {"none", "done"}]
          /\ NoSession \notin Sessions /\ "idle" \notin Sessions \cup Segments
          /\ Sessions \cap Segments = {}
      BY ConstantsAssumption DEF Inv, TypeOK, FlowInv
    <2>. USE DEF TypedInv, Typed, Of, Before, sessionVars, handlerVars, segmentVars, rows, outputs
    <2>1. ASSUME NEW s \in Sessions, Start(s) PROVE TypedInv'
      BY <2>0, <2>1 DEF Start
    <2>2. ASSUME NEW s \in Sessions, Started(s) PROVE TypedInv'
      BY <2>0, <2>2 DEF Started
    <2>3. ASSUME NEW s \in Sessions, Discard(s) PROVE TypedInv'
      BY <2>0, <2>3 DEF Discard, endOnly
    <2>4. ASSUME NEW s \in Sessions, Save(s) \/ ReadTranscript(s) \/ Extract(s) PROVE TypedInv'
      BY <2>0, <2>4 DEF Save, ReadTranscript, Extract, endOnly
    <2>5. ASSUME NEW s \in Sessions,
                 DeleteTranscript(s) \/ DeleteSuggestions(s) \/ DeleteCues(s) \/ Interrupt(s)
          PROVE  TypedInv'
      BY <2>0, <2>5 DEF DeleteTranscript, DeleteSuggestions, DeleteCues, Interrupt, endOnly
    <2>6. ASSUME NEW s \in Sessions, Clear(s) PROVE TypedInv'
      BY <2>0, <2>6 DEF Clear
    <2>7. ASSUME NEW s \in Sessions, SessionFault(s) PROVE TypedInv'
      BY <2>0, <2>7 DEF SessionFault
    <2>8. ASSUME NEW g \in Segments, Send(g) PROVE TypedInv'
      BY <2>0, <2>8 DEF Send, Ingest
    <2>9. ASSUME NEW g \in Segments, NEW q \in Sessions, Hear(g, q) PROVE TypedInv'
      BY <2>0, <2>9 DEF Hear, Ingest
    <2>10. ASSUME NEW g \in Segments, Insert(g) \/ Push(g) PROVE TypedInv'
      BY <2>0, <2>10 DEF Insert, Push, GoTo, IngestSteps
    <2>11. ASSUME NEW g \in Segments,
                  \/ CueSlot(g) \/ CueSelect(g) \/ CueInsert(g) \/ CueRecheck(g) \/ CueDelete(g)
                  \/ SuggestSlot(g)
           PROVE  TypedInv'
      <3>1. \E step \in IngestSteps \cup {"done"} : GoTo(g, step)
        BY <2>11 DEF CueSlot, CueSelect, CueInsert, CueRecheck, CueDelete, SuggestSlot, IngestSteps
      <3>2. ingest[g] \in IngestSteps /\ UNCHANGED ingestOnly
        BY <2>11 DEF CueSlot, CueSelect, CueInsert, CueRecheck, CueDelete, SuggestSlot, IngestSteps
      <3>. QED
        BY <2>0, <3>1, <3>2 DEF GoTo, ingestOnly, IngestSteps
    <2>12. ASSUME NEW g \in Segments, Answered(g) \/ SuggestSelect(g) \/ SuggestInsert(g) PROVE TypedInv'
      BY <2>0, <2>12 DEF Answered, SuggestSelect, SuggestInsert, jobOnly
    <2>13. ASSUME NEW g \in Segments, SegmentFault(g) PROVE TypedInv'
      BY <2>0, <2>13 DEF SegmentFault, GoTo, IngestSteps
    <2>14. ASSUME NEW save \in BOOLEAN, Stop(save) PROVE TypedInv'
      BY <2>0, <2>14 DEF Stop, End
    <2>15. ASSUME Close PROVE TypedInv'
      <3>1. \/ UNCHANGED <<active, phase>>
            \/ /\ current \in Sessions /\ active[current]
               /\ \E step \in {"deleteTranscript", "interrupt"} : phase' = [phase EXCEPT ![current] = step]
        BY <2>0, <2>15 DEF Close, End, Inv, TypeOK
      <3>. QED
        BY <2>0, <2>15, <3>1 DEF Close
    <2>16. CASE UNCHANGED vars
      BY <2>16 DEF vars
    <2>. HIDE DEF TypedInv, Typed, Of, Before, sessionVars, handlerVars, segmentVars, rows, outputs
    <2>17. ASSUME NEW s \in Sessions, SessionStep(s) PROVE TypedInv'
      BY <2>2, <2>3, <2>4, <2>5, <2>6, <2>17 DEF SessionStep
    <2>18. ASSUME NEW g \in Segments, SegmentStep(g) PROVE TypedInv'
      BY <2>10, <2>11, <2>12, <2>18 DEF SegmentStep
    <2>. QED
      BY <2>1, <2>7, <2>8, <2>9, <2>13, <2>14, <2>15, <2>16, <2>17, <2>18 DEF Next
  <1>. QED
    BY <1>1, <1>2, InvCorrect, PTL DEF Spec

\* DiscardIsComplete for every number of sessions and segments: whichever
\* results of the recogniser cross the deletion, no cue survives it, and without
\* audio neither does a segment.
THEOREM DiscardCorrect == Spec => []DiscardIsComplete
  <1>1. CueInv => DiscardLeavesNoCue
    BY DEF CueInv, CuesDeleted, DiscardLeavesNoCue, Purged, Quiet, IngestSteps
  <1>2. TypedInv => TypedDiscardComplete
    BY DEF TypedInv, Typed, TypedDiscardComplete
  <1>. QED
    BY <1>1, <1>2, CueCorrect, TypedCorrect, PTL DEF DiscardIsComplete
=============================================================================
