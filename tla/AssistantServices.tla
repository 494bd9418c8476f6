------------------------- MODULE AssistantServices -------------------------
(***************************************************************************)
(* The services around the assistant that keep their state in the database   *)
(* and serve HTTP calls, and the migration that makes their tables. In what     *)
(* is modelled here none of them writes a table of another, so what one of      *)
(* them does is the same whatever the others do meanwhile: a behaviour here is   *)
(* a behaviour of one service, with the others at rest.                        *)
(***************************************************************************)
EXTENDS
    RelayRequests, ActionProposals, ObjectStore, MobileFeed, DailyTasks, RequestBudget,
    RoomConsent, CalendarConnector, HumanProfile, InvestorLeads, SchemaMigration,
    LearnedSkills, ResearchQueries, ReportDelivery, NotificationStream, SignIn,
    VoiceAnswer, RedisContext, DayDigest, OutreachDrafts, TLC

VARIABLE service    \* the service that runs

Services == {
    "relay", "actions", "store", "feed", "daily", "budget", "rooms", "calendar",
    "profile", "outreach", "migration", "skills", "research", "reports", "stream",
    "identity", "answers", "redis", "digest", "drafts"}

servicesVars == <<service,
    relayVars, actionVars, storeVars, feedVars, dailyVars, budgetVars, roomVars,
    connectorVars, profileVars, leadVars, migrationVars, skillVars, researchVars,
    deliveryVars, streamVars, signInVars, voiceAnswerVars, redisVars, digestVars, outreachVars>>

ServicesInit ==
    /\ service \in Services
    /\ RelayInit /\ ActionInit /\ StoreInit /\ FeedInit
    /\ DailyInit /\ BudgetInit /\ RoomInit /\ ConnectorInit
    /\ ProfileInit /\ LeadInit /\ MigrationInit /\ SkillsInit
    /\ ResearchInit /\ DeliveryInit /\ StreamInit /\ SignInInit
    /\ VoiceAnswerInit /\ RedisInit /\ DigestInit /\ OutreachInit
    /\ service # "migration" => database = Earlier(0, {})

Relay == service = "relay" /\ RelayNext /\ UNCHANGED <<
    actionVars, storeVars, feedVars, dailyVars, budgetVars, roomVars, connectorVars,
    profileVars, leadVars, migrationVars, skillVars, researchVars, deliveryVars,
    streamVars, signInVars, voiceAnswerVars, redisVars, digestVars, outreachVars>>
Actions == service = "actions" /\ ActionNext /\ UNCHANGED <<
    relayVars, storeVars, feedVars, dailyVars, budgetVars, roomVars, connectorVars,
    profileVars, leadVars, migrationVars, skillVars, researchVars, deliveryVars,
    streamVars, signInVars, voiceAnswerVars, redisVars, digestVars, outreachVars>>
Storage == service = "store" /\ StoreNext /\ UNCHANGED <<
    relayVars, actionVars, feedVars, dailyVars, budgetVars, roomVars, connectorVars,
    profileVars, leadVars, migrationVars, skillVars, researchVars, deliveryVars,
    streamVars, signInVars, voiceAnswerVars, redisVars, digestVars, outreachVars>>
Feed == service = "feed" /\ FeedNext /\ UNCHANGED <<
    relayVars, actionVars, storeVars, dailyVars, budgetVars, roomVars, connectorVars,
    profileVars, leadVars, migrationVars, skillVars, researchVars, deliveryVars,
    streamVars, signInVars, voiceAnswerVars, redisVars, digestVars, outreachVars>>
Daily == service = "daily" /\ DailyNext /\ UNCHANGED <<
    relayVars, actionVars, storeVars, feedVars, budgetVars, roomVars, connectorVars,
    profileVars, leadVars, migrationVars, skillVars, researchVars, deliveryVars,
    streamVars, signInVars, voiceAnswerVars, redisVars, digestVars, outreachVars>>
Budget == service = "budget" /\ BudgetNext /\ UNCHANGED <<
    relayVars, actionVars, storeVars, feedVars, dailyVars, roomVars, connectorVars,
    profileVars, leadVars, migrationVars, skillVars, researchVars, deliveryVars,
    streamVars, signInVars, voiceAnswerVars, redisVars, digestVars, outreachVars>>
Rooms == service = "rooms" /\ RoomNext /\ UNCHANGED <<
    relayVars, actionVars, storeVars, feedVars, dailyVars, budgetVars, connectorVars,
    profileVars, leadVars, migrationVars, skillVars, researchVars, deliveryVars,
    streamVars, signInVars, voiceAnswerVars, redisVars, digestVars, outreachVars>>
Calendar == service = "calendar" /\ ConnectorNext /\ UNCHANGED <<
    relayVars, actionVars, storeVars, feedVars, dailyVars, budgetVars, roomVars,
    profileVars, leadVars, migrationVars, skillVars, researchVars, deliveryVars,
    streamVars, signInVars, voiceAnswerVars, redisVars, digestVars, outreachVars>>
Profile == service = "profile" /\ ProfileNext /\ UNCHANGED <<
    relayVars, actionVars, storeVars, feedVars, dailyVars, budgetVars, roomVars,
    connectorVars, leadVars, migrationVars, skillVars, researchVars, deliveryVars,
    streamVars, signInVars, voiceAnswerVars, redisVars, digestVars, outreachVars>>
Outreach == service = "outreach" /\ LeadNext /\ UNCHANGED <<
    relayVars, actionVars, storeVars, feedVars, dailyVars, budgetVars, roomVars,
    connectorVars, profileVars, migrationVars, skillVars, researchVars, deliveryVars,
    streamVars, signInVars, voiceAnswerVars, redisVars, digestVars, outreachVars>>
Migration == service = "migration" /\ MigrationNext /\ UNCHANGED <<
    relayVars, actionVars, storeVars, feedVars, dailyVars, budgetVars, roomVars,
    connectorVars, profileVars, leadVars, skillVars, researchVars, deliveryVars,
    streamVars, signInVars, voiceAnswerVars, redisVars, digestVars, outreachVars>>
Skills == service = "skills" /\ SkillsNext /\ UNCHANGED <<
    relayVars, actionVars, storeVars, feedVars, dailyVars, budgetVars, roomVars,
    connectorVars, profileVars, leadVars, migrationVars, researchVars, deliveryVars,
    streamVars, signInVars, voiceAnswerVars, redisVars, digestVars, outreachVars>>
Research == service = "research" /\ ResearchNext /\ UNCHANGED <<
    relayVars, actionVars, storeVars, feedVars, dailyVars, budgetVars, roomVars,
    connectorVars, profileVars, leadVars, migrationVars, skillVars, deliveryVars,
    streamVars, signInVars, voiceAnswerVars, redisVars, digestVars, outreachVars>>
Reports == service = "reports" /\ DeliveryNext /\ UNCHANGED <<
    relayVars, actionVars, storeVars, feedVars, dailyVars, budgetVars, roomVars,
    connectorVars, profileVars, leadVars, migrationVars, skillVars, researchVars,
    streamVars, signInVars, voiceAnswerVars, redisVars, digestVars, outreachVars>>
Stream == service = "stream" /\ StreamNext /\ UNCHANGED <<
    relayVars, actionVars, storeVars, feedVars, dailyVars, budgetVars, roomVars,
    connectorVars, profileVars, leadVars, migrationVars, skillVars, researchVars,
    deliveryVars, signInVars, voiceAnswerVars, redisVars, digestVars, outreachVars>>
Identity == service = "identity" /\ SignInNext /\ UNCHANGED <<
    relayVars, actionVars, storeVars, feedVars, dailyVars, budgetVars, roomVars,
    connectorVars, profileVars, leadVars, migrationVars, skillVars, researchVars,
    deliveryVars, streamVars, voiceAnswerVars, redisVars, digestVars, outreachVars>>
Answers == service = "answers" /\ VoiceAnswerNext /\ UNCHANGED <<
    relayVars, actionVars, storeVars, feedVars, dailyVars, budgetVars, roomVars,
    connectorVars, profileVars, leadVars, migrationVars, skillVars, researchVars,
    deliveryVars, streamVars, signInVars, redisVars, digestVars, outreachVars>>
Redis == service = "redis" /\ RedisNext /\ UNCHANGED <<
    relayVars, actionVars, storeVars, feedVars, dailyVars, budgetVars, roomVars,
    connectorVars, profileVars, leadVars, migrationVars, skillVars, researchVars,
    deliveryVars, streamVars, signInVars, voiceAnswerVars, digestVars, outreachVars>>
Digests == service = "digest" /\ DigestNext /\ UNCHANGED <<
    relayVars, actionVars, storeVars, feedVars, dailyVars, budgetVars, roomVars,
    connectorVars, profileVars, leadVars, migrationVars, skillVars, researchVars,
    deliveryVars, streamVars, signInVars, voiceAnswerVars, redisVars, outreachVars>>
Drafts == service = "drafts" /\ OutreachNext /\ UNCHANGED <<
    relayVars, actionVars, storeVars, feedVars, dailyVars, budgetVars, roomVars,
    connectorVars, profileVars, leadVars, migrationVars, skillVars, researchVars,
    deliveryVars, streamVars, signInVars, voiceAnswerVars, redisVars, digestVars>>

ServicesNext == UNCHANGED service /\
    (\/ Relay \/ Actions \/ Storage \/ Feed \/ Daily \/ Budget
     \/ Rooms \/ Calendar \/ Profile \/ Outreach \/ Migration \/ Skills
     \/ Research \/ Reports \/ Stream \/ Identity \/ Answers \/ Redis
     \/ Digests \/ Drafts)

ServicesSpec == ServicesInit /\ [][ServicesNext]_servicesVars

-----------------------------------------------------------------------------
(* Properties; those of several services say the same of each. *)

\* Every variable of the service has its type, and a row refers only to rows there
\* are: no relay request is made for an address before the contact for it.
ServicesTypeOK ==
    /\ service = "relay" => RelayTypeOK
    /\ service = "actions" => ActionTypeOK
    /\ service = "store" => StoreTypeOK
    /\ service = "feed" => FeedTypeOK
    /\ service = "daily" => DailyTypeOK
    /\ service = "budget" => BudgetTypeOK
    /\ service = "rooms" => RoomTypeOK
    /\ service = "calendar" => ConnectorTypeOK
    /\ service = "profile" => ProfileTypeOK
    /\ service = "outreach" => LeadTypeOK
    /\ service = "migration" => MigrationTypeOK
    /\ service = "skills" => SkillsTypeOK
    /\ service = "research" => ResearchTypeOK
    /\ service = "reports" => DeliveryTypeOK
    /\ service = "stream" => StreamTypeOK
    /\ service = "identity" => SignInTypeOK
    /\ service = "answers" => VoiceAnswerTypeOK
    /\ service = "redis" => RedisTypeOK
    /\ service = "digest" => DigestTypeOK
    /\ service = "drafts" => OutreachTypeOK

\* What gives access belongs to its user: the token vault keeps no token of an
\* account that is not connected but for the failures named, and a session is of the
\* user its identity is linked to, or of one whose first sign-in was under way when
\* another made the link.
CredentialsAreOwned == TokensAreOwned /\ SessionsFollowAccount

\* What is kept of a person, and what may act for one, was agreed to: a segment of a room
\* is stored without a consent only behind a check that had met every one; no skill is in
\* use without an approval, and no private fact imported or confirmed without the user's.
KeptByAgreement == SegmentsHaveConsent /\ SkillsAreApproved

\* Nothing acts unasked: no effect without an approval, none twice but in the races named,
\* and nothing proposed or set up by the voice agent while the user is in a live
\* conversation.
NothingActsUnasked == ActionsAreApproved /\ AnswersKeepPolicy

\* What a store holds is accounted for: an object by a row, none of a discarded session but
\* what a failure left, and a session's list in Redis by its latest pushes.
StoresAreAccounted == BucketIsAccounted /\ ContextIsRecent

\* The day is kept current: a commitment is in the inbox by a task, unless the one it was
\* found to have was closed; and a day and a week show their newest digest, calls that
\* overlap apart of the latest tasks read.
DailyIsCurrent == CommitmentHasTask /\ DigestIsCurrent

\* What research leaves is backed by its sources: a lead's addresses and an answer's
\* citations have theirs, merged leads stay silent, and what is recorded of a draft is
\* what it says and what the user decided.
FindingsAreBacked == LeadsAreSound /\ AnswersAreSourceBacked /\ DraftsAreReviewable

\* A report and a notification reach whoever waits for them: neither is marked as sent, or
\* passed by a cursor, and then not sent, but a report whose watcher failed and a row
\* whose insert was overtaken.
ReportsReachClients == ReportsAreShown /\ StreamPassesNothing

-----------------------------------------------------------------------------
(* Small instances share their model values: two calls of any service, two users, *)
(* sessions, guests or accounts. They are interchangeable.                    *)

Symmetric == Permutations(StoreCalls) \cup Permutations(Users)
=============================================================================
