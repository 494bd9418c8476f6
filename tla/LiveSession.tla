---------------------------- MODULE LiveSession ----------------------------
(***************************************************************************)
(* One client socket of the live assist service (src/ws/handler.ts) and    *)
(* the sessions it starts one after another (src/session/manager.ts).      *)
(* Messages of the socket are handled one at a time; speech recognition    *)
(* results, suggestion jobs and the socket's close event are not in that   *)
(* queue and run between any two awaits.  One action is what a coroutine   *)
(* does from one await to the next.                                        *)
(***************************************************************************)
EXTENDS Naturals, FiniteSets, TLC

CONSTANTS
    Sessions, NoSession,
    Segments,       \* final transcript segments, typed or recognised
    MaxFaults       \* bound of the model: statements that fail

ASSUME ConstantsAssumption ==
    /\ NoSession \notin Sessions
    /\ Sessions \cap Segments = {}
    /\ "idle" \notin Sessions \cup Segments
    /\ MaxFaults \in Nat

VARIABLES
    \* sessions.status ("none": no row), whether retention_policy is
    \* discard_on_stop, and whether its source is a Deepgram stream
    status, discardOnStop, audio,
    \* the live map: whether it has an entry, entry.active, and what the
    \* coroutine that starts or ends the session does next
    live, active, phase,
    \* the handler's locals: sessionId, explicitlyStopped, what its message
    \* queue waits for; and the socket
    current, stopped, handling, socketOpen,
    \* of a segment: the session whose audio or text it is, the one it is
    \* ingested into, where its ingest and its suggestion job wait
    origin, target, ingest, job,
    \* rows of transcript_segments, cue_events and suggestions, and Redis,
    \* each by the segment that caused it
    transcript, cues, suggestions, context,
    shown, shownSuggestions,    \* events sent to the client
    read, memories,             \* the transcript a save read; sessions remembered
    faults

sessionVars == <<status, discardOnStop, audio, live, active, phase>>
handlerVars == <<current, stopped, handling, socketOpen>>
segmentVars == <<origin, target, ingest, job>>
rows == <<transcript, cues, suggestions, context>>
outputs == <<shown, shownSuggestions, read, memories>>
vars == <<sessionVars, handlerVars, segmentVars, rows, outputs, faults>>

Ending == {"discard", "save", "read", "extract", "deleteTranscript", "deleteSuggestions",
           "deleteCues", "interrupt", "clear"}
IngestSteps == {"insert", "push", "cueSlot", "cueSelect", "cueInsert", "cueRecheck",
                "cueDelete", "suggestSlot"}
JobSteps == {"ask", "select", "insert"}

Init ==
    /\ status = [s \in Sessions |-> "none"]
    /\ discardOnStop = [s \in Sessions |-> FALSE]
    /\ audio = [s \in Sessions |-> FALSE]
    /\ live = [s \in Sessions |-> FALSE]
    /\ active = [s \in Sessions |-> FALSE]
    /\ phase = [s \in Sessions |-> "none"]
    /\ current = NoSession /\ stopped = FALSE /\ handling = "idle" /\ socketOpen = TRUE
    /\ origin = [g \in Segments |-> NoSession]
    /\ target = [g \in Segments |-> NoSession]
    /\ ingest = [g \in Segments |-> "none"]
    /\ job = [g \in Segments |-> "none"]
    /\ transcript = {} /\ cues = {} /\ suggestions = {} /\ context = {}
    /\ shown = {} /\ shownSuggestions = {}
    /\ read = [s \in Sessions |-> {}] /\ memories = {}
    /\ faults = 0

Of(s) == {g \in Segments : target[g] = s}

-----------------------------------------------------------------------------
(* Starting a session.  Messages that arrived before the socket closed are  *)
(* still handled after it, so no action of the queue looks at socketOpen.   *)
(* A definition marked "mutant" is a faulty variant of the one after it; no *)
(* action uses it, and README.md says which property fails with it.         *)

\* A start message, up to the INSERT of the sessions row.
Start(s) ==
    /\ handling = "idle" /\ current = NoSession
    /\ status[s] = "none"
    /\ status' = [status EXCEPT ![s] = "active"]
    /\ phase' = [phase EXCEPT ![s] = "start"]
    /\ \E d, a \in BOOLEAN : /\ discardOnStop' = [discardOnStop EXCEPT ![s] = d]
                             /\ audio' = [audio EXCEPT ![s] = a]
    /\ handling' = s
    /\ UNCHANGED <<live, active, current, stopped, socketOpen, segmentVars, rows, outputs, faults>>

\* The consent event is stored: the session enters the live map.
Started(s) ==
    /\ phase[s] = "start"
    /\ live' = [live EXCEPT ![s] = TRUE]
    /\ active' = [active EXCEPT ![s] = TRUE]
    /\ phase' = [phase EXCEPT ![s] = "live"]
    /\ current' = s
    /\ handling' = "idle"
    /\ UNCHANGED <<status, discardOnStop, audio, stopped, socketOpen, segmentVars, rows, outputs,
                   faults>>

-----------------------------------------------------------------------------
(* Ingest of a final segment. *)

IngestUnchecked(g, q) ==                                                       \* mutant
    /\ ingest[g] = "none"
    /\ origin' = [origin EXCEPT ![g] = q]
    /\ target' = [target EXCEPT ![g] = current]
    /\ ingest' = [ingest EXCEPT ![g] = "insert"]
    /\ UNCHANGED <<sessionVars, current, stopped, socketOpen, job, rows, outputs, faults>>
Ingest(g, q) ==
    /\ current # NoSession /\ active[current]
    /\ ingest[g] = "none"
    /\ origin' = [origin EXCEPT ![g] = q]
    /\ target' = [target EXCEPT ![g] = current]
    /\ ingest' = [ingest EXCEPT ![g] = "insert"]
    /\ UNCHANGED <<sessionVars, current, stopped, socketOpen, job, rows, outputs, faults>>

\* A transcript message: the queue waits for the ingest.
Send(g) == handling = "idle" /\ Ingest(g, current) /\ handling' = g

\* A final result of the stream of session q.  A stream that was asked to
\* close still delivers what it has; the callback reads sessionId when called.
Hear(g, q) ==
    /\ audio[q] /\ phase[q] \notin {"none", "start"}
    /\ Ingest(g, q)
    /\ UNCHANGED handling

GoTo(g, step) ==
    /\ ingest' = [ingest EXCEPT ![g] = step]
    /\ handling' = IF step = "done" /\ handling = g THEN "idle" ELSE handling

Insert(g) ==
    /\ ingest[g] = "insert"
    /\ transcript' = transcript \cup {g}
    /\ GoTo(g, "push")
    /\ UNCHANGED <<sessionVars, current, stopped, socketOpen, origin, target, job, cues,
                   suggestions, context, outputs, faults>>

\* The segment is in Redis: the client gets it, and its triggers decide
\* whether a cue or a suggestion is due.
PushUnchecked(g) ==                                                            \* mutant
    /\ ingest[g] = "push"
    /\ context' = context \cup {g}
    /\ shown' = shown \cup {g}
    /\ \E step \in {"done", "cueSlot", "suggestSlot"} : GoTo(g, step)
    /\ UNCHANGED <<sessionVars, current, stopped, socketOpen, origin, target, job, transcript, cues,
                   suggestions, shownSuggestions, read, memories, faults>>
Push(g) ==
    /\ ingest[g] = "push"
    /\ context' = context \cup {g}
    /\ \/ /\ active[target[g]]
          /\ shown' = shown \cup {g}
          /\ \E step \in {"done", "cueSlot", "suggestSlot"} : GoTo(g, step)
       \/ /\ ~active[target[g]]
          /\ GoTo(g, "done")
          /\ UNCHANGED shown
    /\ UNCHANGED <<sessionVars, current, stopped, socketOpen, origin, target, job, transcript, cues,
                   suggestions, shownSuggestions, read, memories, faults>>

ingestOnly == <<sessionVars, current, stopped, socketOpen, origin, target, transcript, suggestions,
                context, outputs, faults>>

\* The cue's cooldown is free or not; a free one leads to canWriteSession,
\* which looks at the live entry first.
CueSlot(g) ==
    /\ ingest[g] = "cueSlot"
    /\ \/ \E step \in {"done", "suggestSlot"} : GoTo(g, step)
       \/ GoTo(g, IF active[target[g]] THEN "cueSelect" ELSE "done")
    /\ UNCHANGED <<ingestOnly, cues, job>>

CueSelect(g) ==
    /\ ingest[g] = "cueSelect"
    /\ GoTo(g, IF status[target[g]] = "active" THEN "cueInsert" ELSE "done")
    /\ UNCHANGED <<ingestOnly, cues, job>>

\* The INSERT, then the live entry is looked at again.
CueInsertNotRechecked(g) ==                                                    \* mutant
    /\ ingest[g] = "cueInsert"
    /\ cues' = cues \cup {g}
    /\ \E step \in {"done", "suggestSlot"} : GoTo(g, step)
    /\ UNCHANGED <<ingestOnly, job>>
CueInsert(g) ==
    /\ ingest[g] = "cueInsert"
    /\ cues' = cues \cup {g}
    /\ GoTo(g, IF active[target[g]] THEN "cueRecheck" ELSE "cueDelete")
    /\ UNCHANGED <<ingestOnly, job>>

CueRecheck(g) ==
    /\ ingest[g] = "cueRecheck"
    /\ \/ /\ status[target[g]] = "active"
          /\ \E step \in {"done", "suggestSlot"} : GoTo(g, step)
       \/ status[target[g]] # "active" /\ GoTo(g, "cueDelete")
    /\ UNCHANGED <<ingestOnly, cues, job>>

\* Every cue of the session goes.
CueDelete(g) ==
    /\ ingest[g] = "cueDelete"
    /\ cues' = cues \ Of(target[g])
    /\ GoTo(g, "done")
    /\ UNCHANGED <<ingestOnly, job>>

\* A free suggestion cooldown starts a job nobody waits for.
SuggestSlot(g) ==
    /\ ingest[g] = "suggestSlot"
    /\ GoTo(g, "done")
    /\ \E j \in {"none", "ask"} : job' = [job EXCEPT ![g] = j]
    /\ UNCHANGED <<ingestOnly, cues>>

-----------------------------------------------------------------------------
(* The suggestion job. *)

jobOnly == <<sessionVars, handlerVars, origin, target, ingest, transcript, cues, context,
             shown, read, memories, faults>>

\* The provider answers or rejects.
AnsweredShown(g) ==                                                            \* mutant
    /\ job[g] = "ask"
    /\ job' = [job EXCEPT ![g] = IF active[target[g]] THEN "select" ELSE "done"]
    /\ shownSuggestions' =
          IF active[target[g]] THEN shownSuggestions \cup {g} ELSE shownSuggestions
    /\ UNCHANGED <<jobOnly, suggestions>>
Answered(g) ==
    /\ job[g] = "ask"
    /\ \E j \in {"done"} \cup (IF active[target[g]] THEN {"select"} ELSE {}) :
          job' = [job EXCEPT ![g] = j]
    /\ UNCHANGED <<jobOnly, suggestions, shownSuggestions>>

SuggestSelect(g) ==
    /\ job[g] = "select"
    /\ job' = [job EXCEPT ![g] = IF status[target[g]] = "active" THEN "insert" ELSE "done"]
    /\ UNCHANGED <<jobOnly, suggestions, shownSuggestions>>

SuggestInsert(g) ==
    /\ job[g] = "insert"
    /\ suggestions' = suggestions \cup {g}
    /\ shownSuggestions' =
          IF active[target[g]] THEN shownSuggestions \cup {g} ELSE shownSuggestions
    /\ job' = [job EXCEPT ![g] = "done"]
    /\ UNCHANGED jobOnly

-----------------------------------------------------------------------------
(* The end of a session: a stop message or the socket's close event. *)

End(s, step) ==
    /\ active' = [active EXCEPT ![s] = FALSE]
    /\ phase' = [phase EXCEPT ![s] = step]

Stop(save) ==
    /\ handling = "idle" /\ current # NoSession /\ active[current]
    /\ End(current, IF save THEN "save" ELSE "discard")
    /\ stopped' = TRUE
    /\ handling' = current
    /\ UNCHANGED <<status, discardOnStop, audio, live, current, socketOpen, segmentVars, rows, outputs,
                   faults>>

Close ==
    /\ socketOpen
    /\ socketOpen' = FALSE
    /\ IF current # NoSession /\ ~stopped /\ live[current]
       THEN End(current, IF discardOnStop[current] THEN "deleteTranscript" ELSE "interrupt")
       ELSE UNCHANGED <<active, phase>>
    /\ UNCHANGED <<status, discardOnStop, audio, live, current, stopped, handling, segmentVars, rows,
                   outputs, faults>>

endOnly == <<discardOnStop, audio, live, active, handlerVars, segmentVars, context, shown,
             shownSuggestions, faults>>

\* The transaction of a discarding stop.
Discard(s) ==
    /\ phase[s] = "discard"
    /\ status' = [status EXCEPT ![s] = "discarded"]
    /\ transcript' = transcript \ Of(s)
    /\ suggestions' = suggestions \ Of(s)
    /\ cues' = cues \ Of(s)
    /\ phase' = [phase EXCEPT ![s] = "clear"]
    /\ UNCHANGED <<endOnly, read, memories>>

Save(s) ==
    /\ phase[s] = "save"
    /\ status' = [status EXCEPT ![s] = "saved"]
    /\ phase' = [phase EXCEPT ![s] = "read"]
    /\ UNCHANGED <<endOnly, transcript, suggestions, cues, read, memories>>

ReadTranscript(s) ==
    /\ phase[s] = "read"
    /\ read' = [read EXCEPT ![s] = transcript \cap Of(s)]
    /\ phase' = [phase EXCEPT ![s] = "extract"]
    /\ UNCHANGED <<endOnly, status, transcript, suggestions, cues, memories>>

\* Extraction succeeds or is reported to the client; reflection, daily life
\* and archive follow in the same way and the summary is sent.
Extract(s) ==
    /\ phase[s] = "extract"
    /\ \E stored \in {{}, {s}} : memories' = memories \cup stored
    /\ phase' = [phase EXCEPT ![s] = "clear"]
    /\ UNCHANGED <<endOnly, status, transcript, suggestions, cues, read>>

\* An interrupted session with discard_on_stop loses its rows one DELETE
\* after another, before its status changes.
DeleteTranscript(s) ==
    /\ phase[s] = "deleteTranscript"
    /\ transcript' = transcript \ Of(s)
    /\ phase' = [phase EXCEPT ![s] = "deleteSuggestions"]
    /\ UNCHANGED <<endOnly, status, suggestions, cues, read, memories>>

DeleteSuggestions(s) ==
    /\ phase[s] = "deleteSuggestions"
    /\ suggestions' = suggestions \ Of(s)
    /\ phase' = [phase EXCEPT ![s] = "deleteCues"]
    /\ UNCHANGED <<endOnly, status, transcript, cues, read, memories>>

DeleteCues(s) ==
    /\ phase[s] = "deleteCues"
    /\ cues' = cues \ Of(s)
    /\ phase' = [phase EXCEPT ![s] = "interrupt"]
    /\ UNCHANGED <<endOnly, status, transcript, suggestions, read, memories>>

Interrupt(s) ==
    /\ phase[s] = "interrupt"
    /\ status' = [status EXCEPT ![s] = "interrupted"]
    /\ phase' = [phase EXCEPT ![s] = "clear"]
    /\ UNCHANGED <<endOnly, transcript, suggestions, cues, read, memories>>

\* Redis is cleared and the live entry removed; a stop returns to the queue,
\* which forgets the session.
Clear(s) ==
    /\ phase[s] = "clear"
    /\ context' = context \ Of(s)
    /\ live' = [live EXCEPT ![s] = FALSE]
    /\ phase' = [phase EXCEPT ![s] = "ended"]
    /\ IF handling = s
       THEN handling' = "idle" /\ current' = NoSession
       ELSE UNCHANGED <<handling, current>>
    /\ UNCHANGED <<status, discardOnStop, audio, active, stopped, socketOpen, segmentVars, transcript,
                   suggestions, cues, outputs, faults>>

-----------------------------------------------------------------------------
(* Rejected statements. *)

\* A start or an end is abandoned where it is; the queue reports it and goes
\* on, with sessionId as it was.
SessionFault(s) ==
    /\ faults < MaxFaults
    /\ phase[s] \in (Ending \ {"extract"}) \cup {"start"}
    /\ faults' = faults + 1
    /\ phase' = [phase EXCEPT ![s] = "failed"]
    /\ handling' = IF handling = s THEN "idle" ELSE handling
    /\ UNCHANGED <<status, discardOnStop, audio, live, active, current, stopped, socketOpen,
                   segmentVars, rows, outputs>>

SegmentFault(g) ==
    /\ faults < MaxFaults
    /\ faults' = faults + 1
    /\ \/ /\ ingest[g] \in IngestSteps
          /\ GoTo(g, "done")
          /\ UNCHANGED job
       \/ /\ job[g] \in {"select", "insert"}
          /\ job' = [job EXCEPT ![g] = "done"]
          /\ UNCHANGED <<ingest, handling>>
    /\ UNCHANGED <<sessionVars, current, stopped, socketOpen, origin, target, rows, outputs>>

-----------------------------------------------------------------------------
SessionStep(s) ==
    \/ Started(s) \/ Discard(s) \/ Save(s) \/ ReadTranscript(s) \/ Extract(s)
    \/ DeleteTranscript(s) \/ DeleteSuggestions(s) \/ DeleteCues(s) \/ Interrupt(s) \/ Clear(s)
SegmentStep(g) ==
    \/ Insert(g) \/ Push(g) \/ CueSlot(g) \/ CueSelect(g) \/ CueInsert(g) \/ CueRecheck(g)
    \/ CueDelete(g) \/ SuggestSlot(g) \/ Answered(g) \/ SuggestSelect(g) \/ SuggestInsert(g)

Next ==
    \/ \E s \in Sessions : Start(s) \/ SessionStep(s) \/ SessionFault(s)
    \/ \E g \in Segments : Send(g) \/ SegmentStep(g) \/ SegmentFault(g)
    \/ \E g \in Segments, q \in Sessions : Hear(g, q)
    \/ \E save \in BOOLEAN : Stop(save)
    \/ Close

Spec == Init /\ [][Next]_vars

\* Every awaited statement and provider call of a session and of a segment
\* returns.
FairSpec ==
    /\ Spec
    /\ \A s \in Sessions : WF_vars(SessionStep(s))
    /\ \A g \in Segments : WF_vars(SegmentStep(g))

-----------------------------------------------------------------------------
(* Properties. *)

TypeOK ==
    /\ status \in [Sessions -> {"none", "active", "saved", "interrupted", "discarded"}]
    /\ {discardOnStop, audio, live, active} \subseteq [Sessions -> BOOLEAN]
    /\ phase \in [Sessions -> Ending \cup {"none", "start", "live", "ended", "failed"}]
    /\ current \in Sessions \cup {NoSession}
    /\ stopped \in BOOLEAN /\ socketOpen \in BOOLEAN
    /\ handling \in {"idle"} \cup Sessions \cup Segments
    /\ {origin, target} \subseteq [Segments -> Sessions \cup {NoSession}]
    /\ \A g \in Segments : ingest[g] # "none" => {origin[g], target[g]} \subseteq Sessions
    /\ ingest \in [Segments -> IngestSteps \cup {"none", "done"}]
    /\ job \in [Segments -> JobSteps \cup {"none", "done"}]
    /\ UNION {transcript, cues, suggestions, context, shown, shownSuggestions} \subseteq Segments
    /\ read \in [Sessions -> SUBSET Segments]
    /\ memories \subseteq Sessions
    /\ faults \in Nat

\* The deletion of s has run to its end, and no ingest into s is under way.
Purged(s) ==
    /\ phase[s] = "ended"
    /\ \/ status[s] = "discarded"
       \/ status[s] = "interrupted" /\ discardOnStop[s]
Quiet(s) == \A g \in Of(s) : ingest[g] \notin IngestSteps

\* A cue stored while its session is being discarded does not survive,
\* whether the session is discarded in one transaction or row by row before
\* its status changes, unless a statement fails.
DiscardLeavesNoCue ==
    \A s \in Sessions : faults = 0 /\ Purged(s) /\ Quiet(s) => cues \cap Of(s) = {}

\* A discarding stop of a session without audio leaves no transcript row and
\* no Redis context: the message queue keeps the stop behind every ingest.
TypedDiscardComplete ==
    \A s \in Sessions :
        phase[s] = "ended" /\ status[s] = "discarded" /\ (\A q \in Sessions : ~audio[q])
            => (transcript \cup context) \cap Of(s) = {}

\* Both: what a discard deletes is gone once the session is over.
DiscardIsComplete == DiscardLeavesNoCue /\ TypedDiscardComplete

\* What the client was shown as final is what memory is extracted from: no
\* segment is shown and then missed by the save.
ShownSegmentsExtracted ==
    \A s \in Sessions : phase[s] = "extract" => shown \cap Of(s) \subseteq read[s]

\* Only a saved session is remembered, though the socket may close at any
\* point of the save.
OnlySavedRemembered ==
    \A s \in memories : status[s] = "saved"

\* Both: the memory of a session is made of all it showed, and only when saved.
MemoryMatchesSave == ShownSegmentsExtracted /\ OnlySavedRemembered

\* A saved session has the row of every suggestion its user was shown.
ShownSuggestionsKept ==
    \A s \in Sessions : status[s] = "saved" => shownSuggestions \cap Of(s) \subseteq suggestions

\* README.md: "disconnect with `ask_on_stop`: status `interrupted`", and the
\* same for the other retention policies; docs/live-audio-test-checklist.md,
\* Test J: "Verify backend session status is `interrupted`."
DisconnectEndsSession ==
    \A s \in Sessions : (~socketOpen /\ status[s] = "active") ~> status[s] # "active"

\* README.md: "Late provider results after discard/interruption are ignored."
\* A final result of the stream of an ended session is not ingested.
LateResultsIgnored ==
    [][\A g \in Segments :
          ingest[g] = "none" /\ ingest'[g] # "none"
              => status[origin'[g]] \notin {"discarded", "interrupted"}]_vars

\* Sessions and segments are interchangeable.
Symmetric == Permutations(Sessions) \cup Permutations(Segments)
=============================================================================
