# TLA+ models of the NearMind backend

This directory holds TLA+ models of the program in `src/` (a Fastify and
Postgres server, a worker process, `services/voice-gateway` and the phone
client in `apps/ios`), the TLC configurations that check them on small
instances, and TLAPS proofs of the theorems that hold for every instance.

Tools: `tlc -config X.cfg M` for the runs (`PROJECT.json` names the module of
each cfg), `tlapm X.tla` for the proofs of each module `XProofs`;
`AssistantServicesProofs` takes about ten minutes on four cores and
`AssistantRecordsProofs` fifteen.

Paths below are relative to the repository root. In `PROJECT.json` they carry
one more `src/`, so `src/src/subagents/worker.ts` there is the repository's
`src/subagents/worker.ts`.

## 1. The system

A phone or browser talks to one API process (`src/server.ts`) over HTTP and
over two WebSocket endpoints. The API process keeps the live sessions of its
sockets in process memory, everything durable in Postgres (Drizzle, a pool, no
explicit isolation level), and the recent transcript window and cooldowns in
Redis. Long jobs are rows of `subagent_tasks`; any number of worker processes
claim them, and so does the API process when the queue runs in process. The
voice gateway is a third process: it takes browser or phone audio, runs speech
recognition, and speaks the backend's voice protocol as a client.

Every process is single-threaded JavaScript (on the phone, the main actor): a
handler runs without interruption to its next `await`, and everything else may
run there. Nearly every handler reads rows, awaits, and then writes rows by id,
outside a transaction. That is the main source of what is hard to test here,
and the grain of the models: one action is what a coroutine does from one
`await` to the next, normally one SQL statement and the code after it.

### Inventory

| component | state | operations | what makes it correct | modules |
|---|---|---|---|---|
| Subagent queue and workers (`src/subagents/queue.ts`, `leases.ts`, `worker.ts`, `lifecycle.ts`, `scheduler.ts`, `cancellation.ts`, `retry.ts`) | `subagent_tasks` rows (status, lease, attempt_count, next_run_at), `subagent_attempts`, `subagent_reports`; in memory the `controllers` map and the timers of each attempt | enqueue, claim a batch, heartbeat, execute, report, finish, retry, expire, suppress, cancel, reclaim, end of a session | one execution at a time until a lease is taken back, a running row has an owner, attempts bounded, a settled task has its report and stays settled, a queued task is settled in the end | `SubagentQueue`, `TaskLease` |
| Subagent reports (`registry.ts`, `reporter.ts`, `policy.ts`, `orchestrator.ts`, `notifications.ts`) | reports, in-process listeners, `subagent_notifications` | persist, notify, stream | a report that is stored is shown to who asked for it | `ReportDelivery`, `NotificationStream` |
| Live assist session manager (`src/session/manager.ts`) | `sessions`, `transcript_segments`, `cue_events`, `suggestions`, …; the `live` map | start, ingest a final segment, store a cue, run a suggestion job, save, discard, interrupt | what is discarded is gone, what the user saw is kept and remembered, nothing is written for an ended session | `LiveSession` |
| Live assist socket (`src/ws/handler.ts`, `src/asr/deepgram.ts`) | `sessionId`, `explicitlyStopped`, the message queue, the recognition stream | start, transcript, audio, stop, close | messages in order; a socket that is gone ends its session | `LiveSession`, `SpeechSegments` |
| Voice session socket (`src/voice/ws.ts`, `state.ts`, `tts.ts`) | `voice_sessions`, `agent_turns`, `voice_outputs`; `VoiceStateMachine`, generation, the emitted-reports set | start, user text, transcript, barge-in, research report, stop, interrupt | a user text is answered once, barge-in cancels what is being spoken, nothing is written or emitted after the end | `VoiceSession`, `ReportDelivery` |
| Voice agent (`src/voice/agent.ts`, `policy.ts`, `latency.ts`) | rows of other services | route a text to an answer | an answer claims only what was done, nothing is set up in a live conversation | `VoiceAnswer` |
| Voice gateway (`services/voice-gateway/src/session.ts`, `backend-client.ts`, `transport/`) | gateway session state, the backend socket, timers | start, text, interrupt, stop, disconnect, backend events | one backend session per gateway session, ended as the client decided; nothing is held by a session that is over | `VoiceGateway`, `CallOutcome` |
| Gateway speech providers (`asr/`, `tts/`) | provider streams | recognise, speak | every word reaches one segment of its speaker | `SpeechSegments` |
| Gateway pages (`public/`, `src/room-client/`) | one socket, stream, audio context or room in globals | connect, start, stop, join, leave | a microphone is open only for a session, one room at most, a panel shows its user's rows | `LivePage`, `RoomPage`, `ConsolePage` |
| Relay (`src/relay/*`) | `agent_requests`, approvals, `trusted_contacts`, `agent_blocks` | draft, approve send, cancel, decide on an incoming request, block | nothing is decided or shared without an approved send; a block holds for sends; who is notified has been sent something | `RelayRequests` |
| Action proposals (`src/actions/*`) | `action_proposals`, executions | propose, approve, reject, execute | an effect only of what was approved, and once unless executions overlap | `ActionProposals` |
| Storage (`src/storage/*`) | bucket objects, `user_storage_objects` | put, delete, archive a session, clean up | every object has a row; a discarded session keeps no transcript but for a failure | `ObjectStore` |
| Mobile sync (`src/mobile/notifications.ts`, `src/storage/mobile-sync.ts`) | the client's cursor | list since a cursor | the cursor passes no item that was not delivered | `MobileFeed` |
| Rooms (`src/rooms/*`) | rooms, participants, consents, transcript | create, invite, consent, join, append, end | a withdrawal or a new guest stops the transcript, but for calls past their check | `RoomConsent` |
| Accounts (`src/auth/*`) | users, accounts, plans, auth sessions | sign in, sign out, ask for deletion | a session is of the user its identity is linked to, or of one of two first sign-ins at once | `SignIn` |
| Connectors (`src/connectors/*`) | connector accounts, token vault, items | connect, sync, disconnect | no token of an account that is not connected | `CalendarConnector` |
| Governor (`src/governor/*`) | usage rows | check a budget, record | the overshoot is bounded by the calls that overlap | `RequestBudget` |
| Daily life (`src/daily/*`) | tasks, commitments, briefs, reviews | extract, dedupe, close, build a digest | a commitment has its open task until the user or a session ends it; a period shows its newest digest | `DailyTasks`, `DayDigest` |
| Human profile, personalization (`src/human/*`, `src/personalization/*`) | facts, the profile row | propose, confirm, reject, apply | the profile has what was confirmed and nothing else | `HumanProfile` |
| Skills (`src/skills/*`) | skills, stress events and facts | learn, import, approve, enable, opt in | only approved skills are in use; stress is confirmed only by agreement | `LearnedSkills`, `ActionProposals` |
| Brain (`src/brain/*`) | rows of other services, audit rows | query, reflect, export, import | see research, skills and profile | `ResearchQueries`, `LearnedSkills` |
| Research (`src/research/*`) | queries, sources, answers | search, compose, validate, pack | citations are sources of the same query | `ResearchQueries` |
| Outreach (`src/outreach/*`) | campaigns, leads, sources, drafts, compliance events | research, dedupe, merge, draft, review, propose, decide | an address has its source; a merged lead stays silent; reviews and decisions of a draft stand | `InvestorLeads`, `OutreachDrafts` |
| Redis context (`src/redis.ts`) | segment lists, cooldown keys | push, clear, acquire | the list is of the latest segments and expires | `RedisContext` |
| HTTP server and schema (`src/server.ts`, `src/db/*`) | the tables | routes, the notification stream | declared and migrated tables agree | `DeclaredSchema`, the services |
| Operator scripts (`src/scripts/*`) | none | run a worker, reclaim leases, migrate | a migration reaches the declared tables from any earlier one | `SchemaMigration`, `SubagentQueue` |
| Memory and suggestion engines, triggers and cues (`src/memory/*`, `src/suggest/*`, `src/trigger/*`, `src/cue/*`) | `memories` | extract, suggest, classify | outcomes are inputs of the sessions | `LiveSession`, `VoiceSession` |
| iOS app (`apps/ios`) | view models, the gateway socket, keychain | start and stop a session, chat, speak, sign in, Relay screens | overlapping tasks do not undo one another | `PhoneSession`, `PhoneChat`, `PhoneSpeech`, `PhoneAccount`, `PhoneRelay` |
| Web site (`apps/web`) | none | – | – | not modelled |

How they interact: the sockets call the session manager; ending a session
signals and suppresses its subagent tasks, deletes their reports, its daily
artifacts, its facts and its archived files; the voice socket starts research
subagents and polls their reports; the voice agent proposes actions, tasks and
campaigns; the gateway is a client of the voice socket, and the phone and the
pages are clients of the gateway; relay approvals, action proposals and storage
events feed mobile sync; the governor is called around every provider call.

`PROJECT.json` lists under `hazards` each place where an order, a failure or a
limit bites, with the property that covers it or the reason none does.

### Status

Every component of the table but the public web site is modelled in part: the
operations that change state and can interleave or fail half-way are actions of
the modules named, and what is left of each component is in section 7 and in
its note in `PROJECT.json`.

## 2. Modules

| module | what it is |
|---|---|
| `TaskLease` | abstract specification: what the lease columns promise |
| `SubagentQueue`, `SubagentQueueProofs` | the queue, the workers, reclaim, cancel and session end; theorems |
| `LiveSession`, `LiveSessionProofs` | the live assist socket and its sessions; theorems |
| `VoiceSession`, `VoiceSessionProofs` | one voice session of a socket: utterances, answers, cues, speech and the end; theorems |
| `CallOutcome` | abstract specification: what a voice call promises about its session |
| `VoiceGateway`, `VoiceGatewayProofs` | one voice call: client, gateway session, both sockets, and the backend's end; theorems |
| `AssistantServices` | composition of the twenty services below |
| `AssistantServicesProofs`, `AssistantRecordsProofs` | theorems: what the services ask, grant and own; what they record and deliver |
| `RelayRequests`, `ActionProposals`, `ObjectStore`, `MobileFeed`, `DailyTasks`, `DayDigest`, `RequestBudget`, `RoomConsent`, `CalendarConnector`, `HumanProfile`, `InvestorLeads`, `OutreachDrafts`, `LearnedSkills`, `ResearchQueries`, `ReportDelivery`, `NotificationStream`, `SignIn`, `VoiceAnswer`, `RedisContext`, `SchemaMigration` | the services, one module each |
| `DeclaredSchema` | the tables `src/db/schema.ts` declares, for `SchemaMigration` |
| `AssistantClients`, `AssistantClientsProofs` | composition of the nine clients below; theorems |
| `PhoneSession`, `PhoneChat`, `PhoneSpeech`, `PhoneAccount`, `PhoneRelay`, `LivePage`, `RoomPage`, `ConsolePage`, `SpeechSegments` | the clients and the recogniser's adapter, one module each |
| `SpeechSegmentsProofs` | theorem: what the recogniser's adapter makes of any transcript |

### SubagentQueue

The row of a task is `status`, `lease` (lease_token), `held` (locked_until is
in the future), `due` (next_run_at is not) and `attempts` (attempt_count). A
claim draws a random token and increments attempt_count in the same UPDATE, so
the token of the n-th claim is written as the number `n`, and 0 stands for
NULL. That makes the refinement of `TaskLease` direct: `holder` is `lease` and
`granted` is `attempts`.

`pc[t][n]` is where `executeClaimedTask` of attempt n of task t waits:

| action | code |
|---|---|
| `Enqueue`, `Claim`, `BackoffElapses` | `enqueueSubagentTask`, one row of `claimDueSubagentTasks`, the clock |
| `Begin`, `Return`, `Throw` | up to the policy verdict; the worker function returns or throws |
| `CanWriteTask`, `CanWriteSession` | the two SELECTs of `canSubagentWrite` |
| `LeaseCheck`, `PersistReport`, `Finish` | `leaseCanComplete`, the report INSERT, the final UPDATE |
| `Retry`, `ExpireRead`, `ExpireWrite`, `Suppress` | the other ends of an attempt |
| `Close` | what is awaited after the last write to the row, and the `finally` block |
| `Fault` | the awaited statement is rejected: the catch block runs, or the attempt is abandoned |
| `Timeout`, `Heartbeat` | the two timers of an attempt |
| `LeaseExpires`, `Reclaim`, `Crash` | the clock, `reclaimExpiredSubagentLeases`, the death of a process |
| `CancelSignal`, `CancelWrite` | `cancelSubagentTask`: abort in memory, then the UPDATE |
| `SaveSession`, `SuppressTasks`, `PurgeReports`, `CommitDiscard`, `CommitInterrupt` | what the end of a session does to its tasks and reports |

A retry leaves its attempt at `requeued`: the row is queued, and may be claimed
again, while the event, the record of the attempt and the `finally` block of
the old attempt are still to come. `controller` is the map of each process by
task, so `Close` removes whatever is registered there then.

The outcome of a worker function, whether an error is retryable, and the
policy verdict are nondeterministic. `reclaims` and `strays` are history
variables: they count, per task, the leases taken back and the writes to the
row by an attempt that does not hold the lease, or while its holder is between
its lease check and its final UPDATE.

### LiveSession

One socket and the sessions it starts one after another. `handling` is what
the message queue is waiting for; recognition results (`Hear`), suggestion jobs
and the socket's `Close` are not in that queue and interleave at every await.
`ingest[g]` and `job[g]` are where the ingest and the suggestion job of segment
g wait, `phase[s]` where the start or the end of session s does. A segment
stands for all it causes: `transcript`, `cues`, `suggestions` and `context` are
the segments whose row (or Redis entry) exists, and `shown`,
`shownSuggestions` those whose event was sent to the client. Whether a segment
triggers a cue or a suggestion and what the provider answers is
nondeterministic. `origin` (whose audio it is) differs from `target` (the
session it was ingested into) because the recognition callback reads the
handler's `sessionId` when it runs.

### VoiceSession

One session of a voice socket. An utterance is a typed text, a typed transcript
or a recognised one, together with all it leads to: the user's turn, the answer
or cue, and the speech of that answer, whose speechId is the utterance itself.
`pc[u]` is where its coroutine waits. `handling` is what the message queue
waits for; it waits for a text up to the moment the agent is asked and not for
the answer, and never for a recognised transcript. `machine` and `speech` are
the `VoiceStateMachine` in memory, `rowState` and `rowSpeech` the
`voice_sessions` row, which is written by separate statements. `phase` is how
far the session has started or ended; `step` and `silencing` are the await
`cancelSpeech` is at and the speech it cancels.

| actions | code |
|---|---|
| `Start`, `Started` | the start message, split at the `sessions` row |
| `Text`, `Transcript`, `Hear` | `user_text`, `transcript`, the recognition callback |
| `TurnCheck`, `TurnInsert` | `persistTurn` of the user's words |
| `Think`, `ThinkRow`, `Research`, `Ask` | `transition("thinking")`, the research handoff, the agent |
| `Heard`, `Push` | `ingestVoiceTranscript` around its turn |
| `ReplyGate` … `Show`, `ListenRow` | `produceAgentAnswer`, the holding answer, a cue |
| `SpeakCheck` … `SpeakRow` | `maybeSpeak` |
| `FailGate`, `Fail` | the error path of an answer |
| `SpeechStarted`, `BargeIn`, `SilenceOutputs`, `SilenceRow` | barge-in |
| `SpeechEnded`, `SpeechEndedRow` | `speech_ended` |
| `Stop`, `Save`, `Discard`, `StopRow` | `stopVoiceSession` with `stopSession` |
| `Close`, `Interrupt`, `InterruptRow` | the close event, `interruptVoiceSession` |
| `PurgeTurns`, `PurgeOutputs`, `Clear` | `deleteVoiceContent`, `clearSession` |
| `Fault`, `HandlerFault` | a rejected statement of an utterance, of anything else |

`canWrite` reads the live entry and then awaits the row; since both only ever
turn false, reading them in one action has the same outcomes. A cue and an
answer run through the same reply steps because the code does the same things
for both, in the same order. What the agent answers, whether a text needs
research and whether a transcript gets a cue is nondeterministic.

### VoiceGateway

One call from the client's socket to the backend's. `task` is the await the
handler of the current client message is suspended in (`open` and `ack` of a
start, the one second `delay` of a stop); timers, both close events and
recognition results run in between. `link`, `wire` and `answer` are the backend
connection, `inbox`, `bpc` and `outcome` the other end of it: the backend's
session reduced to whether and how it ended, which is what `VoiceSession`
details.

| actions | code |
|---|---|
| `ClientMessage`, `ClientCloses`, `IdleTimeout` | `GatewaySession.handle`, `disconnect`, the idle timer |
| `GatewayStep` | the handler's await returns, times out or is rejected; a recognition result; the backend's close event |
| `BackendOpens`, `Deliver`, `Drop` | the network: connection, delivery in order, a broken connection |
| `BackendStep` | the backend's queue and close event, as the gateway sees them |

`CallOutcome` says in five actions what the client may rely on: its session
begins once and ends once, saved or discarded only as it decided. The gateway
implements it (`OutcomeSpec`), with no refinement mapping beyond the two
variables both have.

### The services

What these modules model lives in the database (or Redis, the bucket, the
provider) and is served by HTTP calls, workers and the sockets. Each module has
the same form: a variable for the rows, one (`…Calls`) for what each of two
overlapping calls does and has read, one action per awaited statement, one for a
statement that fails or a process that dies between two, and history variables
for what a property says of the past or excepts.

| module | code | state and steps | property |
|---|---|---|---|
| `RelayRequests` | `src/relay/service.ts` | contacts, requests, blocks; messages, notifications; draft (rate, recipient, insert), send (contact, blocks, update, notify), decision (update, approval, block), message (insert, notify), cancel | `RelayIsAgreed`: an answer only to an approved send, no send past an earlier block, a notification only of a send or a message |
| `ActionProposals` | `src/actions/*`, `src/skills/registry.ts` | proposals, logs, the task and the skill they act on; decide, execute, log, mark | `ActionsAreApproved`: mark ⇒ log ⇒ effect ⇒ approval, although statuses overwrite each other; a second effect only of the overlaps it names (`EffectNotRepeated`) |
| `ObjectStore` | `src/storage/lifecycle.ts` | bucket and rows, the session's row and live entry; put, delete, archive, discard, interruption, and the cleanup's list and per file SELECT, removal and mark, each of which may fail | `BucketIsAccounted`: bucket and rows agree but for calls cut short; a discarded session keeps only files a failure left |
| `MobileFeed` | `src/mobile/notifications.ts` | rows with stamps in half milliseconds, the cursor; ten reads as four kinds of source | `CursorPassesNothing` (an action property) |
| `DailyTasks` | `src/daily/task-inbox.ts`, `session-daily.ts` | commitments, open and closed tasks by owner; insert, search, insert, close, reopen, the deletions of a session's end | `CommitmentHasTask`: by an open task, or by what the user or a session did to it |
| `DayDigest` | `daily-brief.ts`, `weekly-review.ts` | digests; read, mark stale, insert | `DigestIsCurrent`: a period shows its newest digest; each makes those there when it began stale, and read no earlier tasks |
| `RequestBudget` | `src/governor/budget.ts` | records of the day; count, ask, record; midnight | `OvershootBounded` |
| `RoomConsent` | `src/rooms/*` | room, consents, joins; create, invite, answer, join, append | `SegmentsHaveConsent`: no segment by a call that checked after the withdrawal or invitation |
| `CalendarConnector` | `src/connectors/google-calendar/*` | accounts, vault, items; connect, refresh, fetch, replace, disconnect | `TokensAreOwned` |
| `HumanProfile` | `src/human/*` | facts, the list of projects cut to its last ones, the goal that is overwritten; propose, confirm, apply by SELECT and UPDATE, the session's end | `ProfileFollowsFacts`: the row has what was confirmed and nothing else; a discard forgets the facts, and the row keeps of them what it or a call had then |
| `InvestorLeads` | `src/outreach/*` | leads and sources; detect, insert, source, contact, merge in three statements, dismiss | `LeadsAreSound`: an address has its source, one unique lead, merged leads silent |
| `OutreachDrafts` | `src/outreach/outreach-draft.ts`, `quality.ts`, `compliance.ts` | sources, drafts, events, proposals; read sources, insert, check, review, propose, link, decide; merges meanwhile | `DraftsAreReviewable`: reviews say the same whenever they are made, a decision stands, a proposal is of its draft |
| `LearnedSkills` | `src/skills/*`, `src/brain/memory-skills-portability.ts` | skills, private facts, stress events and facts, the opt-in; draft, insert, import, approve, enable, tell, confirm | `SkillsAreApproved`: in use only if approved, imported or confirmed only if agreed to |
| `ResearchQueries` | `src/research/*`, `src/brain/orchestrator.ts`, the research worker | query, sources, answer; each writer's statements, failure, death, ageing | `AnswersAreSourceBacked` |
| `ReportDelivery` | `src/voice/ws.ts`, `src/subagents/notifications.ts` | watcher, handlers, the emitted set; their awaits, each of which may be rejected | `ReportsAreShown`: a report marked as emitted is shown; the watcher leaves without it only past its deadline or by a failure of its own |
| `NotificationStream` | the stream route of `src/server.ts` | rows stamped and then committed, cursor, overlapping ticks | `StreamPassesNothing`: but rows overtaken by a later stamp |
| `SignIn` | `src/auth/*` | users, link, plans, sessions; read, upsert, link, plan, session | `SessionsFollowAccount`: of the linked user, or of a rival first sign-in |
| `VoiceAnswer` | `src/voice/agent.ts` | the intents of a text, the rows an answer made, or found, and those it names | `AnswersKeepPolicy` |
| `RedisContext` | `src/redis.ts` | list, expiry, cooldown; push, trim, expire; list keys, delete | `ContextIsRecent` |
| `SchemaMigration` | `src/scripts/migrate.ts` | the columns of each table, what each migrator has run | `SchemaIsReached`: from any earlier database, at any death, the declared tables |

`AssistantServices` composes them. In what is modelled no service writes a
table of another, so their steps commute and a behaviour of all of them is an
interleaving of behaviours of each; a behaviour of the composition is that of
one service with the others at rest, and its properties are read as those of
each. Where the program does let one service act on another (an executed
proposal that enables a skill or accepts a task, a session's end that deletes
facts, tasks and files), the step is in the module whose rows it writes:
`ActionProposals` has the skill and the task, `HumanProfile`, `DailyTasks` and
`ObjectStore` the session.

`SchemaMigration` holds the statements of the migration in their order, grouped
as the queries that send them (each one transaction). It starts from any
database that some first n groups made, with the columns that were added later
there or not, and two migrators may run at once. `DeclaredSchema` is the other
side, table by table.

### The clients

| module | code | state and steps | property |
|---|---|---|---|
| `PhoneSession` | `LiveAssistViewModel.swift`, `GatewayWebSocketClient.swift`, `PCM16AudioStreamer.swift` | the socket, the waiters of an answer, the operation and what it waits for; start, pong and its timer, answer and its timer, break, stop, background | `ResumedOnce`, `StartEnds`, `MicrophoneFollowsSession` |
| `PhoneChat` | `ChatViewModel.swift` | texts with one loading flag and one pending approval | `ChatRepliesOnce`, `TextsAreDone` |
| `PhoneSpeech` | `SpeechOutputManager.swift` | native queue, natural player, audio awaited | `CanceledIsSilent` |
| `PhoneAccount` | `AppState.swift`, `AuthViewModel.swift` | keychain, status, account shown; calls that wait while the user signs out | `AccountIsOwn` |
| `PhoneRelay` | `RelayViewModel.swift` | list, open request, messages, spinner; tasks that wait | `RelayShowsItsOwn` |
| `LivePage` | `public/live-client.js` | sockets, stream, audio context; connect, start, stop, each await of the microphone | `PageMicFollowsSession` |
| `RoomPage` | `src/room-client/*` | joins and rooms; token, connect, camera, microphone, leave | `OneRoomAtMost` |
| `ConsolePage` | `public/brain-console.js` | token, panels, the field of an id, the calls awaited; typing a token, each button, each answer | `ConsoleIsConsistent`: panels show what the backend keeps of the token's user, a decision is of the row's owner |
| `SpeechSegments` | both `asr/deepgram.ts` | one transcript and its segments | `SegmentsAreHeard`: the loop against a definition by maximal runs |

`AssistantClients` composes them in the same way: each client is a process or a
view of its own, and none touches what another keeps.

## 3. Runs

Passing runs:

| run | properties | instance |
|---|---|---|
| `subagent_queue` (`SubagentQueue.cfg`) | `RunningIsLeased`, `OneExecutionUntilReclaim`, `AttemptsBounded`, `ReportsFit`, `LeaseSpec`, `DeadLeaseNotProlonged`, `QueuedSettles` | a task without session, two processes, maxAttempts 2, up to 3 claims, one mishap of four kinds, under `OperatedSpec` |
| `subagent_session_end` (`SubagentQueueSession.cfg`) | `TypeOK`, `SettledStaysSettled` | the same task in or out of a session, one mishap of four kinds, 2 claims |
| `live_session` (`LiveSession.cfg`) | `TypeOK`, `DiscardIsComplete`, `MemoryMatchesSave`, `ShownSuggestionsKept` | two sessions, two segments, one failed statement, symmetric in both |
| `voice_session` (`VoiceSession.cfg`) | `TypeOK`, `CanceledSpeechMarked`, `SavedHasUserTurns`, `UserTurnsDiscarded`, `ThinkingIsOwned`, `EndedOnce` | one session, two utterances of any kind, one failed statement |
| `voice_call` (`VoiceGateway.cfg`) | `TypeOK`, `OverIsReleased`, `OutcomeSpec`, `GatewayLiveness` | three inputs, one break of the connection, under `FairSpec` |
| `assistant_services` (`AssistantServices.cfg`) | `ServicesTypeOK`, `RelayIsAgreed`, `NothingActsUnasked`, `StoresAreAccounted`, `DailyIsCurrent`, `OvershootBounded`, `KeptByAgreement`, `CredentialsAreOwned`, `ProfileFollowsFacts`, `FindingsAreBacked`, `ReportsReachClients`, `SchemaIsReached`, `CursorPassesNothing` | two overlapping calls of each service, symmetric in calls and users |
| `assistant_clients` (`AssistantClients.cfg`) | `ClientsTypeOK`, `OverlapsAreHandled`, `SegmentsAreHeard`, `AskedIsAnswered` | two starts, joins, sockets, texts and calls of each client, under `ClientsFairSpec` |

A property that names several services or clients is the conjunction of theirs:

| property | conjuncts |
|---|---|
| `DiscardIsComplete` | `DiscardLeavesNoCue`, `TypedDiscardComplete` |
| `MemoryMatchesSave` | `ShownSegmentsExtracted`, `OnlySavedRemembered` |
| `GatewayLiveness` | `HandlersEnd`, `GoneEndsSession` |
| `RelayIsAgreed` | `ShareFollowsSend`, `BlockedNeverSends`, `NoticesHaveReason` |
| `NothingActsUnasked` | `ActionsAreApproved`, `AnswersKeepPolicy` |
| `StoresAreAccounted` | `BucketIsAccounted`, `ContextIsRecent` |
| `DailyIsCurrent` | `CommitmentHasTask`, `DigestIsCurrent` |
| `KeptByAgreement` | `SegmentsHaveConsent`, `SkillsAreApproved` |
| `CredentialsAreOwned` | `TokensAreOwned`, `SessionsFollowAccount` |
| `FindingsAreBacked` | `LeadsAreSound`, `AnswersAreSourceBacked`, `DraftsAreReviewable` |
| `ReportsReachClients` | `ReportsAreShown`, `StreamPassesNothing` |
| `OverlapsAreHandled` | `ResumedOnce`, `ChatRepliesOnce`, `CanceledIsSilent`, `AccountIsOwn`, `RelayShowsItsOwn`, `PageMicFollowsSession`, `OneRoomAtMost`, `ConsoleIsConsistent` |
| `AskedIsAnswered` | `StartEnds`, `TextsAreDone`, `MicrophoneFollowsSession` |
| `SegmentsAreHeard` | `SegmentsAreRuns`, `OthersAreWhole` |

`ServicesTypeOK` and `ClientsTypeOK` ask the type of the service or client that
runs; the variables of the others never change.

Runs that end in a violation, each the evidence for a finding:

| run | property | what it shows |
|---|---|---|
| `subagent_cancel_retry` | `CanceledNotRetried` | the runbook says a canceled task is not retried; the retry UPDATE matches the id alone, and a cancel handled by another process than the one that executes the task is undone by it |
| `live_disconnect` | `DisconnectEndsSession` | `README.md` says a disconnect interrupts the session; a socket closing while the session starts, or during its second session, leaves it active |
| `live_late_result` | `LateResultsIgnored` | `README.md` says late provider results of an ended session are ignored; one that arrives once the next session has started is ingested into that one |
| `voice_discard` | `DiscardDeletesAll` | `README.md` says a stop without saving deletes turns and outputs; a recognised text or an answer that passed its check before the stop inserts its row after the deletion |
| `voice_call_stop` | `StopIsHonoured` | `README.md` says a stop saves or discards; the gateway closes the backend socket one second after the stop, and a backend still storing an earlier input then interrupts the session instead |

### Bounds

Tasks do not interact with each other except through the batch of a reclaim
and the end of a session, both of which write each row as if it were alone;
one task with several attempts in two processes shows every interaction of
attempts. In `subagent_queue` three claims allow the two attempts of the budget
and one more for the mishap (a lease that expires under a live worker, a crash, a
failed statement or a cancel), so the bound `MaxClaims` never stops a claim the
code would make: a retry whose old attempt still closes while the next one runs,
a reclaim before or after it, a holder that dies beside an older attempt that still
beats. `subagent_session_end` has two claims beside the end of the session, and so
the retry or the reclaim of an attempt, not one after the other. The safety
theorems bound neither claims nor mishaps. Two sessions of a
socket are needed for what is carried over from the first to the second; two
segments for a cue deleted with another one and for a segment in flight beside
one being saved. In `VoiceSession` two utterances give every crossing the code
has: two answers, an answer and a cue, one speech started over another, and one
reply in flight while another text is handled; a third would only repeat them.
One failed statement is enough to leave any one coroutine half done.

In `VoiceGateway` three inputs let one be stored by the backend, one be on the
wire and one be handled when a stop or a break comes; the code opens one
connection per session, so one break is all there can be.

In the services, one session and what belongs to none share a key of tasks, one
skill stands for all, since no step relates two, and a list of two projects is
full with one told fact beside the earlier one. Two calls at a time are where every check-then-write window
of the code opens; a third call at the same statements adds one more of the
same. Two users are the sender and the recipient of a request, two accounts or
guests the one a property is about and one beside it, two leads a pair that can
be merged, two facts or tasks one lost to the other. Each list has room for one
row more than the property relates (two digests of one period or one of each
period, two files, three notifications with a `StreamLimit` of two, four pushes
with a window of two, five ticks for two rows and a page between them). Drafts
of requests and texts that tell facts do not begin once all rows of the bound
are used (`MaxDrafts`, `Facts`), and one draft is made at a time (`MaxDrafting`),
beside any other call. A text matches at most three patterns
(`MaxIntents`), which is a pattern before, at and behind the one that decides.
Two migrators meet in every statement. Outreach has one draft and two proposals:
no step relates two drafts, two calls review, propose and decide the one, and two
proposals of it are the lost link the property is about; two investors are the
one it is written to and the one it is merged into.

In the clients, two of what overlaps: starts, joins, sockets, texts, account
calls; three tasks of the Relay screens, for a decision that crosses two loads;
four speeches, for one playing, one queued, one synthesized and one new; four
tokens; transcripts of up to three words, where a run can begin, be in the
middle and end. On the console two users, one fact of each rendered with one
decided before (so each button has two listeners, and a click is two calls),
one call awaited when the operator clicks again, and three clicks: one to load
a panel, one to change the user, one on what the panel shows.

`CHECK_DEADLOCK FALSE` is set everywhere because the bounded systems do stop:
when every task is settled and every mishap used, when the socket is closed and
the sessions ended, when all rows of the bounds are used.

### Fairness

`WorkerSpec`: worker loops poll for ever (`startSubagentWorkerLoop` in
`src/subagents/worker.ts` and the loop of `src/scripts/subagents-worker.ts`),
every awaited statement and every worker function returns (the attempt's
timeout aborts the signal the function is given, and whether it fires is left
open), clocks advance, and an accepted cancel request is finished. All of it is
weak fairness; neither heartbeats nor timeouts are assumed to happen. Reclaiming
is not part of it, since nothing in the repository runs the script on a timer.
`OperatedSpec` adds that an operator runs it again and again. `FairSpec` of
`LiveSession` says that every awaited statement and provider call returns; what
the client sends and when it closes is not assumed.

`FairSpec` of `VoiceGateway`: the timers of the gateway fire, a connection that fails is noticed, messages sent on an open one arrive,
its close is seen at both ends, and the backend's statements return. That the backend answers a start is not
assumed; the timeout is what ends the wait. `PhoneFairness` and `ChatFairness`:
a captured frame is delivered to the sender, a resumed task runs on, the timers
of the answer and the pong fire, a socket that is closed calls the ping's handler
with an error, and a request of `URLSession` returns or times out. That the
gateway pongs, or that the user answers the question for the microphone, is not
assumed, and no timer ends these two waits: `StartEnds` excepts a start that stays
in one of them for good. They are weak
fairness of single actions, each disabled while another client runs. The
services state no liveness: nothing in them waits for another.

### Mutants

Each property is broken by a plausible bug in the code; the faulty definitions
stand beside the ones they replace, marked "mutant".

| definition | mutant | the bug | broken |
|---|---|---|---|
| `FreshToken` | `TokenPerTask` | one token per task instead of one per claim | `RunningIsLeased` |
| `Claimable` | `ClaimableRunning` | running rows with an expired lease are claimed directly | `OneExecutionUntilReclaim`, `LeaseSpec` |
| `RetryAllowed` | `RetryAllowedInclusive` | `<=` for `<` | `AttemptsBounded` |
| `LeaseCanComplete` | `LeaseCanCompleteAnyToken` | the token is not compared | `ReportsFit` |
| `FinalStatus` | `FinalStatusVerbatim` | the report's status is stored as it is | `TypeOK` |
| `LeaseOver` | `LeaseOverAnyStatus` | reclaim does not look at the status | `SettledStaysSettled` |
| `Heartbeats` | `HeartbeatsAnyToken` | the token is not compared | `DeadLeaseNotProlonged` |
| `Claimable` | `ClaimableUnexhausted` | rows with no attempt left are not claimed | `QueuedSettles` |
| `Ingest` | `IngestUnchecked` | the live entry is not looked at | `TypeOK` |
| `CueInsert` | `CueInsertNotRechecked` | no second look after the INSERT | `DiscardIsComplete` |
| `Push` | `PushUnchecked` | the segment is shown without looking at the live entry | `MemoryMatchesSave` |
| `Answered` | `AnsweredShown` | the suggestion is sent before its row is stored | `ShownSuggestionsKept` |
| `Listen` | `ListenKeepsSpeech` | leaving speech keeps the speechId | `TypeOK` |
| `SpeakCheck` | `SpeakCheckStarts` | speech starts before its output row is stored | `CanceledSpeechMarked` |
| `Text` | `TextNotAwaited` | the queue does not wait for a text | `SavedHasUserTurns`, `UserTurnsDiscarded` |
| `Ask` | `AskUnreported` | the rejection of the agent is dropped | `ThinkingIsOwned` |
| `Close` | `CloseAlways` | a close interrupts a session being stopped | `EndedOnce` |
| `Handle` | `HandleByName` | the backend handles a message whatever the state of its session | `TypeOK` |
| `AckArrives` | `AckArrivesUnchecked` | the session is not looked at after the await | `OverIsReleased` |
| `Closed` | `ClosedDespiteStop` | the backend's close handler does not look at a stop under way | `OutcomeSpec` |
| `StartTimesOut` | `ConnectTimesOutOnly` | no timer for the answer to start | `GatewayLiveness` |
| `ResolveAddress` | `ResolveAddressOnly` | no contact is made for an address | `ServicesTypeOK` |
| `StartDecision` | `StartDecisionAnyStatus` | a request is decided on before it is sent | `RelayIsAgreed` |
| `StartExecute` | `StartExecuteAgain` | a proposal already executed may be executed | `NothingActsUnasked` |
| `Put` | `PutFirstInserts` | the row is inserted before the file is put | `StoresAreAccounted` |
| `DeleteTasks` | `DeleteTasksOfKey` | tasks are deleted by their key | `DailyIsCurrent` |
| `BudgetExceeded` | `BudgetExceededPastLimit` | `>` for `>=` | `OvershootBounded` |
| `CanTranscript` | `CanTranscriptJoined` | only joined participants are asked | `KeptByAgreement` |
| `UpdateToken` | `UpdateTokenInserts` | a refresh inserts its token when the row is gone | `CredentialsAreOwned` |
| `NextCursor` | `NextCursorOfRead` | the cursor is that of the last row read, not of the page | `CursorPassesNothing` |
| `UpdateProfile` | `UpdateProfileReplaces` | the list is replaced, not extended | `ProfileFollowsFacts` |
| `MergedStatus` | `MergedStatusOfTarget` | a merge takes over the email but not its status | `FindingsAreBacked` |
| `CheckWrite` | `CheckWriteMarks` | a report is marked before the session is looked at | `ReportsReachClients` |
| `MigrationFails` | `MigrationGoesOn` | a query that is rejected is left out and the next one sent | `SchemaIsReached` |
| `disconnectClient` | `disconnectKeepsActive`, `disconnectForgetful` | a disconnect leaves the session active, or its waiters unresumed | `ClientsTypeOK`, `AskedIsAnswered` |
| `AnswerTimeout` | `AnswerTimeoutUnchecked` | the timer resumes whatever is there | `OverlapsAreHandled` |
| `Flush` | `FlushKeepsConfidence` | the confidence of a run is kept for the next one | `SegmentsAreHeard` |

A property that names several modules is broken in each of them, by one mutant
more: `ImportKeepsStatus` (`LearnedSkills`), `LinkAccountAgain` (`SignIn`),
`ComposedUnchecked` (`ResearchQueries`), `SendRowsSinceNow`
(`NotificationStream`), `TrimToOldest` (`RedisContext`), `MarkStaleAll`
(`DayDigest`), `PatternsOutreachFirst` (`VoiceAnswer`), `RequestReturnsLoading`
(`PhoneChat`), `CancelKeepsNatural` (`PhoneSpeech`), `RefreshKeepsAccount`
(`PhoneAccount`), `MutateReturnsAtOnce` and `MessagesFailKept` (`PhoneRelay`),
`ReleaseKeepsTracks` (`LivePage`) and `ConnectKeepsRoom` (`RoomPage`), each in
the place of the definition after it.

## 4. Proofs

Each theorem is of the module's `Spec` for every value of the constants that
meets the named assumptions, so for any number of tasks, calls, rows and users
where a run has two. No fairness is used. Every invariant below was first
checked by TLC on the instance of its run.

### The queue

`SubagentQueueProofs`, from `ConstantsAssumption`:

| theorem | property | argument |
|---|---|---|
| `TypeCorrect` | `TypeOK` | inductive as it stands |
| `LeaseCorrect` | `RunningIsLeased` | `LeaseInv` |
| `LeaseImplemented` | `LeaseSpec` | initial states map to initial states; with `LeaseInv` a claim is a `Grant`, every other write a `Release` or a stutter |
| `OneExecution` | `OneExecutionUntilReclaim` | `ExecInv` with `LeaseInv` |
| `AttemptsCorrect` | `AttemptsBounded` | `BudgetInv` with `ExecInv` and `LeaseInv` |
| `ReportsCorrect` | `ReportsFit` | `ReportInv` with the three above |
| `SettledForGood` | `SettledStaysSettled` | what one step does to a settled row, with `LeaseInv` and `ExecInv` |
| `DeadLeaseExpires` | `DeadLeaseNotProlonged` | a heartbeat names its token, and the holder of that token is the attempt that beats |

None of the safety properties is inductive. `LeaseInv` adds that a queued row
has no lease (else a claim would be no grant) and that an absent one has no
attempts. `ExecInv` adds that no attempt exists with a number beyond
attempt_count (a claim would otherwise meet an old attempt under its own
number), that an attempt that is about to re-queue its row, or has, is below
maxAttempts and in its catch block, which nothing leads back from, and that until
a reclaim only the newest attempt executes, and none while the row waits. An
attempt that has re-queued its row executes no more, but lives on beside its
successor until its `finally` block.
`BudgetInv` counts entries into the queue: the first one, one per reclaim, and
one per attempt with a number below maxAttempts that is over or has re-queued
the row, of which there are at most maxAttempts - 1.
`ReportInv` counts the other way: stored reports, attempts past their lease
check and a row that may still be checked are together at most one more than
what went wrong, and outside a session a row past its report has it.

Three lemmas keep the case analysis short. `StepRowEffect` reduces a step to its
effect on the rows, `StepQuiet` on the attempts (apart from a claim, a retry
and a reclaim, a step starts no attempt and queues no row), `StepReportEffect`
on the reports.

### The sockets

`LiveSessionProofs`, from `ConstantsAssumption`:

| theorem | property | argument |
|---|---|---|
| `TypeCorrect` | `TypeOK` | `FlowInv` |
| `MemoryCorrect` | `MemoryMatchesSave` | `SavedInv` |
| `SuggestionsKept` | `ShownSuggestionsKept` | `SavedInv` |
| `DiscardCorrect` | `DiscardIsComplete` | `CueInv`, `TypedInv` |

`FlowInv` relates the live map, the row and the coroutine that ends a session,
so that the close event and a stop end none twice. `SavedInv` says what a
session has until it is known how it ends: deletions come after the live entry
is inactive, and an INSERT looks at the entry again before anything is shown.
`CueInv` says a cue that outlives the deletion is about to be deleted by its
own coroutine, the second look that suggestions and voice turns lack.
`TypedInv` rests on the message queue, which waits for each typed ingest.

`VoiceSessionProofs`, from `ConstantsAssumption`:

| theorem | property | argument |
|---|---|---|
| `TypeCorrect` | `TypeOK` | `FlowInv` |
| `SessionEndsOnce` | `EndedOnce` | `FlowInv` |
| `ThinkingOwned` | `ThinkingIsOwned` | `ThinkInv` with `FlowInv` and `FreshInv` |
| `CanceledMarked` | `CanceledSpeechMarked` | `SpeechInv` with `FlowInv` |
| `TurnsSaved`, `TurnsDiscarded` | `SavedHasUserTurns`, `UserTurnsDiscarded` | `TurnInv` with `KindInv`, `FreshInv` and `FlowInv` |

`FlowInv` says what no single line of `ws.ts` does: an active session is live,
a stop that waits in `cancelSpeech` still finds it live, and a session that is
joined on an open socket without a stop is live, so the close event and a stop
never both end it. `SpeechInv` rests on order: what is spoken or being canceled
has left its coroutine, so no row of it can be stored after the mark. `TurnInv`
rests on the message queue: a text whose turn is being stored is what the queue
waits for, so no stop is handled meanwhile. `UtteranceStepMoves` reduces the
twenty steps of an utterance to what they share.

`VoiceGatewayProofs`, which needs no assumption on its bounds:

| theorem | property | argument |
|---|---|---|
| `TypeCorrect` | `TypeOK` | with `OverIsReleased` |
| `ReleaseCorrect` | `OverIsReleased` | inductive with the types |
| `OutcomeCorrect` | `OutcomeSpec` | `CallInv`: every step of the call is one of `CallOutcome` or a stutter |

`CallInv` is about the messages under way: nothing was sent before the socket
opened, the start is the first message and there is one, and a decision on the
wire, in the inbox or being handled is the one the client asked for. Without it
a second start, or a discard after a save, could still arrive.

### The services

`AssistantServicesProofs` (down to `CursorSafe` in the table) and
`AssistantRecordsProofs` (the rest, which extends it) have one section per service. A section states what
the rows and calls are (`…Shape`), what a call may still write after what it has
read (`…Inv`), that a step of the service keeps both, and the lemma
`Service => []Property`. `Lift` then says that a step of `ServicesNext` is a step of
each service or leaves its variables alone, which carries the lemmas to
`ServicesSpec`:

| theorem | property | what the invariant adds to it |
|---|---|---|
| `RelayAgreed` | `RelayIsAgreed` | `RelayInv`: a call that has passed its check names a request that is stored, was sent if it is to be decided, and was not barred when it is to be sent; one about to notify has sent it or written a message; rows, blocks, sends and messages only grow (`RelayGrows`) |
| `NothingUnasked` | `NothingActsUnasked` | `ActionInv`: a call at its effect has the approval, one at its log the effect, one at its mark the log, whatever others have written over the status, and (`ActionOnce`) a proposal nothing has disturbed has one execution at a time and cannot be approved again once its effect took place; `AnswerInv`: what an answer has made or found at each step |
| `OvershootLimited` | `OvershootBounded` | `BudgetInv`: what is recorded and the calls that have passed the check are at most the limit less one and the number of calls; a sum of cardinalities |
| `KeptAgreed` | `KeptByAgreement` | `RoomInv`: who lacks consent is known to be too late for each call past its check; `SkillsInv`: a call that enables has a skill once approved, one that read an opt-in has its user's agreement |
| `CredentialsOwned` | `CredentialsAreOwned` | `ConnectInv`: a connect is alone with its account until its token is stored; `SignInInv`: a link found stays; `SignInStray`: who goes on as a user the identity is not linked to had found no account when the link was made |
| `ProfileFollows` | `ProfileFollowsFacts` | `ProfileInv`: a list a call has read has every settled project but those a full list dropped; two calls that read one list are marked as racing before either writes; what the row has of deleted facts was there, or in hand, at the discard |
| `CursorSafe` | `CursorPassesNothing` | `FeedInv`: until a source is read its rows are all known to the sync, after that they are on its list or the list is full of older ones; the page is a least part of the union |
| `FindingsBacked` | `FindingsAreBacked` | `LeadInv` (an email is that of a stored source, whatever a merge and a research overwrite), `ResearchInv` (one call writes a row, and what it composed cites what it stored), `OutreachInv` (events say what the text is, links are of their draft) |
| `DailyCurrent` | `DailyIsCurrent` | `DailyInv`: a commitment is being worked on, was cut, met a closed task, or has one that is open, closed by the user since, or of a session that ended; `DigestInv`: a call read no older tasks than the digests there when it began, and makes them stale before it inserts |
| `ReportsReach` | `ReportsReachClients` | `DeliveryInv`: who is about to mark a report has it, who is about to show it has marked it; `StreamInv`: stamps grow with the rows; the session's rows before one that a tick read are among them, were sent or were overtaken |
| `StoresAccounted` | `StoresAreAccounted` | `StoreInv`: one put per file, no row names a file that is not there, a transcript of a discarded session is one that a cleanup under way has still to list or take, unless it was cut; `RedisInv`: a list longer than the window is so by pushes that have not trimmed it yet |
| `SchemaReached` | `SchemaIsReached` | `MigrationInv`: the database is at a stage no migrator is past |
| `ServicesTyped` | `ServicesTypeOK` | the invariants above, and the parts of the types they do not need (`…More`) |

`SchemaReached` divides the work. What one query does to one database has no
parameter but the statements themselves, so it is a matter of evaluation:
`QueriesAssumption` says that the databases after the first k queries
(`Stages[k]`) execute the next query and, again, each one before it, and that
the last of them are as declared; TLC evaluates it in every run of the services, and finds it
false when two queries are exchanged. What is left, and proved, is what
migrators that overlap, die and start again make of it, for any number of them:
a query already run leaves the database in its stage, the next one takes it to
the following stage, so none is ever sent to a database that refuses it.

`ServicesTyped` is more than bookkeeping where a row names another: the contact a
relay call is to block is stored when it does so, a sign-in works for a user
who is there, and plans and sessions are of such users, what a file call was
cut at is a file there is, a list in Redis with an expiry is not empty, and a
sync's clock stays below its bound whatever cursor the phone sent.

### The clients

`AssistantClientsProofs`, with a section per client as for the services:
`OverlapsHandled` is `ClientsSpec => []OverlapsAreHandled`, `ClientsTyped` and
`SegmentsHeard` the same of `ClientsTypeOK` and `SegmentsAreHeard`.

| invariant | what it adds to the client's part of the property |
|---|---|
| `PhoneInv` | the starts up to some n are resumed once and those after it not at all, and a continuation that waits is the next one (`ResumedTo`) |
| `ChatInv` | a text waits without a spinner only behind an answer |
| `SpeechInv` | what was canceled is neither synthesized nor sounding |
| `AccountInv` | an answer under way is of the stored token or of one known to be outdated |
| `RelayScreensInv` | a version that a task brought is at most the backend's; unless two tasks loaded at once, a load has read what its own decision and those done before it made |
| `PageInv` | a stream that captures is the page's or was replaced; a session is accepted only between its ack and the next stop |
| `RoomPageInv` | a join under way had its consent; one that a leave overtook has no room afterwards |
| `DecisionsInv` | a row that shows a decision nobody else made has one of its owner behind it; one still proposed after a decision of its owner has that call under way |
| `PanelsInv` | unless the console was disturbed, every answer under way for its user is what the rows say, and a panel that shows something older has a read of what is there, or a call that will reload it, under way |

`DecisionsInv` and `PanelsInv` are the two the property could not do without:
`ConsoleIsConsistent` speaks of a console at rest, and every step of a call on
the way there must keep what the panel will be when the last call has returned.

`SpeechSegmentsProofs` has no interleaving; its theorem `Segmented`, which
`SegmentsHeard` carries over, is about a loop, for transcripts of any length.
The loop is a recursive function of the number of words read. To use its
equation one needs a function that satisfies it, which is shown to exist for
each length from one for the length before; the same lemma (`UpTo`, that a set
with 0 and closed under successors has every number up to n, proved from the
absence of a least counterexample) then carries the invariant of the loop: the
runs behind it and the open one are the maximal runs of the words read so far.
The filter at the end keeps those with text, each once and in order. A
transcript that is not final is one segment of its most frequent speaker, for
which `Least` gives the minimum the choice is made by.

### Assumptions

Each is in the module that declares its constants: bounds are
naturals; the sets of calls of `RequestBudget` and `RedisContext` are finite
(their properties count calls, and a process has finitely many); `Window` and
`MaxPage` are positive, as the code's limits are; the host is no guest
(`RoomAssumption`, the host's participant row is made with another role); the
value that stands for no row is no id (`LeadAssumption`, `DraftAssumption`), nor is
the console's "no token" an account (`ConsoleAssumption`); the tasks of the Relay
screens are numbers (`PhoneRelayAssumption`), the order in which they start.

The clock of `MobileFeed` reaches at least the time of the plan row
(`FeedAssumption`), and `QueriesAssumption` is explained above.

Some definitions were rewritten for the proofs, with the same meaning: the arms
of `Handle`'s `CASE` in `VoiceGateway` were made disjoint, `CleanupSelects`
of `ObjectStore` uses no nested `@`, the loop and the filter of
`SpeechSegments` are recursive functions instead of folds, the versions of
`PhoneRelay` are natural numbers without a bound taken from the rows, and
`RunQuery` of `SchemaMigration` names what it asks (`Executes`) and what it
leaves (`Migrated`).

### Only model-checked

- `QueuedSettles`, `GatewayLiveness` and `AskedIsAnswered`, and the formulas of the
  violations `DisconnectEndsSession` and `StopIsHonoured`: liveness under
  fairness, beyond the prover, and so is `ENABLED`.
- What each query of the migration does to each earlier database
  (`QueriesAssumption`): an evaluation with no parameter to generalise over.
- That the definitions are those of the code: TLC and the provers take them as
  they are.

Every invariant and every action property of the passing runs, and both
refinements, are theorems. No module has a `RECURSIVE` operator.

## 5. Plan

The model is complete as planned, and so are the proofs of its safety
properties. What would come next is code that section 7 leaves out, where a
change of the program gives it state: a second voice session on one socket, and
exports that anything reads back.

## 6. Observations without a run

Met while modelling; no finding is made of them, because no text of the
repository promises otherwise, because a run already shows the same window, or
because the part is not modelled. Those a property excepts are named in its
comment.

Sessions and sockets:

- A suggestion whose row is inserted after a discard has deleted the session's
  suggestions stays in the database (`src/session/manager.ts`, the second check
  that cues have is missing for suggestions): the window `voice_discard` shows
  for turns.
- A transition's UPDATE of the `voice_sessions` row looks at nothing, so one in
  flight writes `listening` over `interrupted` or `discarded`.
- Speech that starts over other speech replaces its speechId, and no barge-in
  cancels the first one.
- A text that arrives while the session speaks is stored and never answered:
  `speaking` to `thinking` is no transition and throws.
- An answer may be shown, or its speech requested, after a stop although its row
  was skipped, as each of the checks is made on its own.
- Watching a research report and reporting its progress are started with `void`
  and no `catch` (`src/voice/ws.ts:422`): a read that is rejected ends the watcher,
  or by Node's default the process, and the report is not shown unless a
  notification comes too. Two of them past the check both emit the report, and a
  listener is never removed.
- Deleting one late cue deletes every cue of the session, also of a session
  that is being saved.
- A discard transaction that is rejected leaves the socket unable to stop,
  start or be interrupted.
- A voice interrupt leaves the daily artifacts that a live interrupt deletes;
  commitment calls under way insert theirs after a discard. The voice agent's
  effects happen before the session is looked at, so those of a discarded turn
  survive it; a campaign without its research task and a commitment without its
  task are left when the second statement fails. An answer says how many tasks it
  proposed where `createTaskFromCommitment` found earlier ones
  (`src/voice/agent.ts:281`), also done or dismissed ones.
- A profile patch survives the discard of the session whose fact it applied, where
  `docs/mobile/mobile-privacy-contract.md:9` says that discarded or interrupted
  sessions never mutate the profile; so does the notification's copy of a report
  the report's deletion.
- Gateway: a start that times out leaves the session in `starting`; a connect
  timeout followed by a stop leaves the socket; recognition results during the
  stop's delay are still sent; `sessionsByGatewayId` never shrinks.

Queue and workers:

- No worker calls `reclaimExpiredSubagentLeases`: the row of a dead worker stays
  running until the script is run, where
  `docs/brain/subagent-worker-runbook.md:16` lets another worker reclaim it.
- The `finally` block of an attempt removes the controller of the task from the
  map, whichever attempt registered it: that of an attempt which re-queued the row
  and is still closing when the next one runs in the same process removes the
  next one's, and a cancel no longer aborts it.
- Two requests with one idempotency key can both insert a task.

Services:

- `sessions.situation_brief_id` has no delete action in `src/db/schema.ts` and
  `SET NULL` in the migration; the other references, all columns and all unique
  constraints of the 77 tables agree.
- Mobile sync: the plan is on every page, a page of the plan alone moves the
  cursor back, and a limit of one never advances
  (`docs/mobile/mobile-sync-contract-v1.md`); `hasMore` counts rows already cut;
  sources cut to their newest rows are skipped over; rows of the cursor's
  millisecond are skipped or repeated; relay messages are cut before those of
  other users are filtered out.
- The notification stream sends the last notification again each second, and
  overlapping ticks repeat more; a hundred rows of other sessions hold back the
  session's own until the cursor moves; a row whose insert commits after one stamped
  later was read is passed by the cursor (`src/server.ts:2252`).
- Research: a brain query with no results throws at an INSERT of nothing; a
  final UPDATE that fails marks a query with an answer as failed; a death leaves
  it pending; a retry of a worker makes a second query; a list of sources is not
  validated, so its pack may be refused, and any pack when its sources age.
- Skills: an enable that overlaps a disable enables again; an approval overwrites
  any status; opting out of stress support between the read and the INSERT still
  stores content. Stress a text tells of is stored as a proposed fact without any
  opt-in (`src/human/profile-extractor.ts:71`), where
  `docs/brain/human-model-policy.md:27` and `docs/mobile/mobile-privacy-contract.md:8`
  ask for opt-in and confirmation.
- Sign-in: two first sign-ins with different emails make two users, the session of the
  call that links second being of an unlinked one (`src/auth/apple.ts:36`); the race for the plan answers 401; signing
  out does not stop the JWT; a request for deletion is only recorded.
- Storage: the list of a discarded session's files, the SELECT or the deletion of
  one fails, or the process dies after the discard's transaction, and the files
  stay with nobody to delete them (`src/session/manager.ts:287`), where
  `docs/storage/hybrid-long-term-storage-v0.md:13` says they are deleted; a save
  queued behind a closed socket archives a session its interruption has cleaned
  up. A failed INSERT leaves the file, overlapping recomputations leave a stale total, and an export
  reads its tables one by one.
- Redis: a push that dies before `EXPIRE` leaves a list without expiry, one after
  the `KEYS` of a clear outlives the session.
- Daily: a task found by its key may be of another session and go with it, or be
  done or dismissed, so that the inbox never shows the new commitment
  (`src/daily/task-inbox.ts:29`); overlapping calls make two tasks or two current
  digests, and the newest may be of earlier tasks.
- Connectors: overlapping syncs store two copies, a sync may insert after a
  disconnect, and a vault deletion or a connect that fails leaves the token.
- Rooms: a consent withdrawn, or a guest invited, between check and INSERT is
  not noticed; a room may be left without host; guests can be invited to a room
  that ended, and tokens issued for it.
- Governor: overlapping calls overshoot a budget; an investor search is never
  counted under the budget it is checked against.
- Outreach: merges in both directions leave no unmerged lead; research may
  overwrite a merged email; a merged lead told apart has no sources. A blocked
  draft may be approved; two calls that propose one draft leave a proposal
  nothing shows.
- Profile: a query may tell facts of a session that has ended; rejecting a
  confirmed fact leaves it in the profile; two overlapping confirmations lose
  one project; a project told when the list has twelve takes the first one out, and
  an occupation, goal or preference overwrites the last.
- Relay: a send or decision overwrites a cancel that came after its check. A draft
  names its recipient (`src/relay/service.ts:127`), whose inbox shows it before it is
  approved, and a message on it notifies whatever its status and blocks (`:246`),
  where `docs/relay/nearmind-relay-v0.md:12-13` has the sender approve first. A draft
  for a new address leaves its contact when the INSERT fails.
- Actions: an approval that overlaps an execution, two executions, or one that dies
  before its mark have the effect take place twice; enabling a skill that is not
  approved is logged as completed.

Clients:

- Phone session: the timer of the pong ends no wait, since the group of
  `withTimeout` (`GatewayWebSocketClient.swift:341`) also waits for the ping's
  continuation: with a gateway that accepts and never pongs, a start hangs until
  the socket fails. Going to the background while a start waits is ignored
  (`apps/ios/NearMind/Docs/IOS_ARCHITECTURE.md:188`); a view closed during the permission wait
  still connects; the end of an old receive loop disconnects the new connection;
  a stop that returns late clears the next session's flag.
- Phone chat and speech: the spinner goes at the first of two answers; natural
  speech whose audio came after a cancel or mute plays; `isSpeaking` stays set
  when natural speech ends by itself.
- Phone account: the backend's 401 for `/account/me` names no code, so
  `refreshAccount` never marks a token invalid; an answer after a sign-out shows
  the account again; a pasted token keeps the old account on the screen; a
  sign-out that returns after a new sign-in removes the new token.
- Phone Relay: the messages of the last request are shown under the next until
  its own arrive; the answer to an older load may replace a newer list.
- Live page: a stop during the wait for permission leaves the microphone on; a
  second ack loses the first stream; an old socket's close stops the new
  session's microphone. Room page: a leave while a join waits for its token does
  not stop it, nor does a guest's denial after joining.
- Console: the listeners of every Confirm and Reject button are added once per
  fact rendered, so a click is sent as often
  (`services/voice-gateway/public/brain-console.js:424`); `return createX()`
  without `await` inside the `try` of `handleAction` lets its rejections go
  unlogged; panels keep the last user's answers until they are loaded again;
  one id field serves several panels.
- Recognition: a backend transcript without words is the user's own when
  `selfSpeakerIndex` is 0, and nobody's at the gateway.

## 7. Not modelled

- Functions of text: triggers, cues, the patterns of the voice agent, of
  profile facts, commitments and skills, relay wording, research and outreach
  scores, routing. The modules take their verdict as an input.
- Providers and media: Deepgram, speech synthesis, language models, calendars,
  LiveKit, the bucket. They are inputs, with the failures the code handles.
- Cryptography: tokens, the vault's encryption, Apple's keys.
- Operations of one statement, which nothing can come between: notification
  reads and acknowledgements, campaign and contact edits, deletion requests,
  audit, consent and usage rows. In the queue: idempotency keys, claim order by
  priority, the attempts table, and two suppression helpers nothing calls.
- In the live session: turns and voice outputs, deleted by the same statements
  as the rows that are modelled; partial recognition results. In the voice
  session: a second session on the socket (`LiveSession` has what that brings).
- Exports, usage totals, room summaries, meeting packs and follow-ups: read
  several tables and insert one row that nothing reads back.
- Replay, smoke and verification scripts, tests, layouts of the phone and the
  pages, and the public web site (`apps/web`), which keeps no state.
- Time: whether a deadline has passed is a nondeterministic choice wherever the
  code compares clocks; only `MobileFeed` and `NotificationStream` count ticks,
  where the order of stamps is the question.
