--------------------------- MODULE SchemaMigration ---------------------------
(***************************************************************************)
(* The migration (src/scripts/migrate.ts), statement by statement. It brings a  *)
(* new database, or one that an earlier version of it made, to the tables of    *)
(* DeclaredSchema. Nobody declares an order: a table must be created before a   *)
(* reference to it, a column added before an index of it, and a column that is   *)
(* only in CREATE TABLE IF NOT EXISTS is never added to a table there is.        *)
(*                                                                         *)
(* Each query of several statements is one transaction of PostgreSQL. A         *)
(* migration that dies in it, or loses the race to create a table, leaves what  *)
(* the queries before did; it is run again.                                  *)
(***************************************************************************)
EXTENDS DeclaredSchema, Integers, SequencesExt

CONSTANT Migrators      \* processes that migrate at the same time

VARIABLES
    database,           \* the columns of each table there is
    migrators           \* queries each migrator has done, or NotMigrating or Refused

migrationVars == <<database, migrators>>

Add(table, columns) == [kind |-> "add", table |-> table, columns |-> columns]
Index(table, columns) == [kind |-> "index", table |-> table, columns |-> columns]

AccountAndSessionTables == <<
    Table("users", {"email", "display_name", "created_at"}, {}, {{"email"}}),
    Table("auth_accounts", {"provider", "provider_subject", "email", "email_verified",
        "display_name", "created_at", "updated_at"}, {OfUser}, {{"provider", "provider_subject"}}),
    Table("auth_sessions", {"token_id", "device_label", "platform", "created_at", "expires_at",
        "revoked_at"}, {OfUser}, {{"token_id"}}),
    Table("account_deletion_requests", {"status", "reason", "requested_at", "completed_at"},
        {OfUser}, {}),
    Table("user_plans", {"plan_code", "status", "source", "billing_enabled", "current_period_end",
        "created_at", "updated_at"}, {OfUser}, {{"user_id"}}),
    Table("account_audit_events", {"event_type", "payload", "created_at"}, {OfUser}, {}),
    Table("situation_briefs", {"description", "inferred_type", "user_goal", "participants",
        "scheduled_at", "playbook_ids", "risk_level", "created_at"}, {OfUser}, {}),
    Table("sessions", {"internal_type", "status", "title", "consent_granted", "retention_policy",
        "started_at", "ended_at"}, {OfUser,
        <<"situation_brief_id", "situation_briefs", "set null">>}, {}),
    Table("consent_events", {"granted", "method", "notice_text", "participant_count",
        "jurisdiction", "created_at"}, {OfSession, OfUser}, {}),
    Table("transcript_segments", {"speaker", "text", "is_final", "offset_ms", "confidence",
        "created_at"}, {OfSession}, {}),
    Table("suggestions", {"trigger_type", "card", "created_at"}, {OfSession}, {}),
    Table("cue_events", {"trigger_type", "cue", "created_at"}, {OfSession}, {}),
    Table("memories", {"kind", "subject", "content", "due_date", "embedding", "created_at"},
        {OfUser, FromSession}, {}) >>

VoiceAndProfileTables == <<
    Table("voice_sessions", {"policy", "input_kind", "output_kind", "state", "tts_provider",
        "current_speech_id", "created_at", "updated_at"}, {OfSession, OfUser}, {}),
    Table("agent_turns", {"role", "channel", "content", "metadata", "created_at"}, {OfSession,
        OfUser}, {}),
    Table("voice_outputs", {"output_type", "speech_id", "text", "status", "metadata",
        "created_at"}, {OfSession, OfUser}, {}),
    Table("human_profiles", {"display_label", "primary_occupation", "occupation_confidence",
        "active_domains", "active_projects", "communication_style", "assistant_preferences",
        "stress_support_opt_in", "created_at", "updated_at"}, {OfUser}, {{"user_id"}}),
    Table("human_profile_facts", {"kind", "content", "source", "confidence", "sensitivity",
        "status", "expires_at", "created_at", "updated_at"}, {OfUser,
        <<"profile_id", "human_profiles", "cascade">>,
        <<"source_session_id", "sessions", "set null">>}, {}),
    Table("context_entities", {"entity_type", "name", "aliases", "description", "sensitivity",
        "confidence", "created_at", "updated_at"}, {OfUser}, {}),
    Table("context_relationships", {"relationship_type", "confidence", "created_at"}, {OfUser,
        <<"from_entity_id", "context_entities", "cascade">>,
        <<"to_entity_id", "context_entities", "cascade">>}, {}),
    Table("user_feedback_events", {"target_type", "target_id", "rating", "feedback", "outcome",
        "created_at"}, {OfUser, FromSession}, {}),
    Table("brain_reflections", {"reflection_type", "input_summary", "output", "status",
        "created_at"}, {OfUser, FromSession}, {}),
    Table("stress_events", {"detected_signal", "support_type", "confidence", "user_opted_in",
        "content", "status", "created_at"}, {OfUser, FromSession}, {}),
    Table("research_queries", {"query", "normalized_query", "intent", "provider", "status",
        "requires_freshness", "created_at", "completed_at"}, {OfUser, FromSession,
        <<"situation_brief_id", "situation_briefs", "set null">>}, {}) >>

ResearchAndSkillTables == <<
    Table("research_sources", {"url", "title", "source_type", "published_at", "fetched_at",
        "snippet", "extracted_text", "credibility_score", "created_at"},
        {<<"query_id", "research_queries", "cascade">>}, {}),
    Table("research_answers", {"answer", "citations", "confidence", "limitations", "created_at"},
        {<<"query_id", "research_queries", "cascade">>}, {}),
    Table("tool_manifests", {"name", "version", "description", "category", "risk_level",
        "input_schema", "output_schema", "permissions", "enabled", "created_at", "updated_at"},
        {}, {{"name"}}),
    Table("tool_invocations", {"tool_name", "input", "output", "status", "permission_decision",
        "error", "created_at", "completed_at"}, {OfUser, FromSession}, {}),
    Table("skills", {"name", "description", "trigger_pattern", "steps", "status", "source",
        "risk_level", "created_at", "updated_at"}, {OfUser}, {}),
    Table("skill_versions", {"version", "manifest", "created_at"},
        {<<"skill_id", "skills", "cascade">>, OfUser}, {}),
    Table("brain_audit_events", {"event_type", "payload", "created_at"}, {OfUser, FromSession},
        {}),
    Table("subagent_tasks", {"parent_turn_id", "kind", "trigger", "priority", "status", "input",
        "policy", "timeout_ms", "error", "created_at", "started_at", "completed_at",
        "canceled_at"}, {OfUser, FromSession,
        <<"situation_brief_id", "situation_briefs", "set null">>}, {}) >>

ReportTable == <<
    Table("subagent_reports", {"kind", "status", "title", "summary", "findings",
        "recommended_main_agent_message", "safety_notes", "provider_status", "source_ids",
        "citation_quality_score", "provider", "query", "generated_at", "created_at"},
        {<<"task_id", "subagent_tasks", "cascade">>, OfUser, FromSession,
        <<"research_query_id", "research_queries", "set null">>,
        <<"research_answer_id", "research_answers", "set null">>}, {}) >>

EventAndTaskTables == <<
    Table("subagent_events", {"event_type", "payload", "created_at"},
        {<<"task_id", "subagent_tasks", "cascade">>, OfUser, FromSession}, {}),
    Table("subagent_task_attempts", {"worker_id", "attempt_number", "status", "error_code",
        "error_class", "error_message", "started_at", "completed_at", "duration_ms"},
        {<<"task_id", "subagent_tasks", "cascade">>, OfUser}, {}),
    Table("subagent_notifications", {"event_type", "payload", "delivered", "created_at"},
        {<<"task_id", "subagent_tasks", "cascade">>, OfUser, FromSession}, {}),
    Table("commitments", {"source_type", "source_id", "owner", "counterparty", "title", "detail",
        "due_at", "status", "confidence", "sensitivity", "dedupe_key", "why_suggested",
        "source_quote", "extraction_confidence", "duplicate_of_id", "review_reason", "created_at",
        "updated_at"}, {OfUser, FromSession}, {}),
    Table("task_items", {"title", "detail", "priority", "status", "source_type", "source_id",
        "due_at", "effort_estimate", "context", "blocked_by", "next_step", "dedupe_key",
        "why_suggested", "source_quote", "extraction_confidence", "duplicate_of_id",
        "review_reason", "suggested_at", "accepted_at", "completed_at", "created_at",
        "updated_at"}, {OfUser, FromSession, <<"commitment_id", "commitments", "set null">>}, {}),
    Table("daily_briefs", {"brief_date", "status", "summary", "sections", "action_items",
        "generated_at"}, {OfUser}, {}),
    Table("daily_brief_feedback", {"section_key", "rating", "feedback", "action", "created_at"},
        {OfUser, <<"brief_id", "daily_briefs", "cascade">>}, {}) >>

DailyAndOutreachTables == <<
    Table("followup_suggestions", {"person_name", "organization_name", "reason",
        "suggested_message", "due_at", "channel", "status", "created_at", "updated_at"}, {OfUser,
        FromSession}, {}),
    Table("weekly_reviews", {"week_start_date", "status", "summary", "sections", "quality",
        "generated_at"}, {OfUser}, {}),
    Table("meeting_packs", {"title", "pack_type", "sections", "risks", "suggested_questions",
        "followups", "created_at"}, {OfUser,
        <<"situation_brief_id", "situation_briefs", "set null">>, FromSession}, {}),
    Table("action_proposals", {"source_type", "action_type", "title", "description", "payload",
        "risk_level", "status", "requires_approval", "created_at", "expires_at", "updated_at"},
        {OfUser, FromSession}, {}),
    Table("action_approvals", {"decision", "reason", "created_at"},
        {<<"proposal_id", "action_proposals", "cascade">>, OfUser}, {}),
    Table("action_execution_logs", {"status", "result", "error", "created_at"},
        {<<"proposal_id", "action_proposals", "cascade">>, OfUser}, {}),
    Table("outreach_campaigns", {"name", "startup_summary", "raise_target", "target_stage",
        "target_geography", "sectors", "status", "compliance_basis", "created_at", "updated_at"},
        {OfUser}, {}),
    Table("investor_profiles", {"firm_name", "canonical_firm_name", "partner_name", "role_title",
        "website_url", "website_domain", "contact_url", "linkedin_url", "email",
        "email_source_id", "email_confidence", "email_status", "location", "check_size", "stages",
        "sectors", "geographies", "thesis_summary", "source_confidence", "fit_score",
        "fit_reasons", "risk_flags", "status", "duplicate_group_id", "duplicate_status",
        "merged_into_investor_id", "contact_confidence", "last_quality_review_at", "created_at",
        "updated_at"}, {OfUser, <<"campaign_id", "outreach_campaigns", "set null">>}, {}),
    Table("investor_quality_reviews", {"score", "findings", "warnings", "created_at"},
        {<<"investor_id", "investor_profiles", "cascade">>, OfUser}, {}),
    Table("investor_sources", {"source_type", "title", "url", "snippet", "credibility_score",
        "fetched_at", "created_at"}, {<<"investor_id", "investor_profiles", "cascade">>, OfUser},
        {}) >>

ConnectorAndRoomTables == <<
    Table("outreach_drafts", {"subject", "body", "personalization_notes", "source_ids",
        "compliance_notes", "status", "created_at", "updated_at"}, {OfUser,
        <<"campaign_id", "outreach_campaigns", "cascade">>,
        <<"investor_id", "investor_profiles", "cascade">>,
        <<"action_proposal_id", "action_proposals", "set null">>}, {}),
    Table("outreach_compliance_events", {"event_type", "payload", "created_at"}, {OfUser,
        <<"campaign_id", "outreach_campaigns", "set null">>,
        <<"draft_id", "outreach_drafts", "set null">>}, {}),
    Table("connector_accounts", {"provider", "account_email", "status", "scopes", "token_ref",
        "created_at", "updated_at"}, {OfUser}, {}),
    Table("connector_token_vault", {"provider", "key_id", "encrypted_payload", "created_at",
        "updated_at"}, {OfUser}, {}),
    Table("connector_consent_events", {"provider", "scopes", "consent_text", "status",
        "created_at"}, {OfUser, <<"connector_account_id", "connector_accounts", "set null">>}, {}),
    Table("connector_sync_runs", {"provider", "sync_type", "status", "started_at", "completed_at",
        "error", "item_counts"}, {OfUser,
        <<"connector_account_id", "connector_accounts", "cascade">>}, {}),
    Table("connector_items", {"provider", "item_type", "external_id", "title", "summary",
        "starts_at", "ends_at", "metadata", "sensitivity", "created_at", "updated_at"}, {OfUser,
        <<"connector_account_id", "connector_accounts", "cascade">>}, {}),
    Table("rooms", {"title", "provider", "provider_room_name", "status", "ai_agent_enabled",
        "transcription_enabled", "recording_enabled", "consent_required", "created_at",
        "updated_at"}, {OfUser, <<"outreach_campaign_id", "outreach_campaigns", "set null">>,
        <<"investor_id", "investor_profiles", "set null">>}, {}),
    Table("room_participants", {"role", "display_name", "email", "token_hash",
        "invite_token_hash", "joined_at", "left_at", "consent_status", "created_at",
        "updated_at"}, {<<"room_id", "rooms", "cascade">>, <<"user_id", "users", "set null">>},
        {}),
    Table("room_transcript_segments", {"speaker_label", "text", "offset_ms", "is_final",
        "created_at"}, {<<"room_id", "rooms", "cascade">>}, {}),
    Table("room_summaries", {"summary", "decisions", "commitments", "followups", "draft_followup",
        "created_at"}, {<<"room_id", "rooms", "cascade">>,
        <<"action_proposal_id", "action_proposals", "set null">>}, {}) >>

EventAndRelayTables == <<
    Table("room_audit_events", {"event_type", "payload", "created_at"},
        {<<"room_id", "rooms", "cascade">>, <<"user_id", "users", "set null">>}, {}),
    Table("evaluation_events", {"target_type", "target_id", "evaluator", "score", "status",
        "metrics", "findings", "created_at"}, {OfUser, FromSession}, {}),
    Table("provider_usage_events", {"provider", "model", "operation", "input_tokens",
        "output_tokens", "cached_input_tokens", "latency_ms", "estimated_cost_usd", "status",
        "created_at"}, {OfUser, FromSession}, {}),
    Table("mobile_notifications", {"type", "title", "body", "payload", "priority", "read_at",
        "acknowledged_at", "created_at"}, {OfUser, FromSession}, {}),
    Table("voice_latency_events", {"event_type", "speech_id", "timestamp", "metadata",
        "created_at"}, {OfUser, OfSession}, {}),
    Table("agent_identities", {"display_name", "headline", "professional_role", "company_name",
        "profile_visibility", "relay_enabled", "created_at", "updated_at"}, {OfUser},
        {{"user_id"}}),
    Table("trusted_contacts", {"display_name", "email", "company_name", "relationship", "status",
        "trust_level", "created_at", "updated_at"}, {OfUser,
        <<"contact_user_id", "users", "cascade">>}, {}),
    Table("agent_requests", {"request_type", "title", "summary", "context", "requested_share",
        "risk_level", "status", "expires_at", "created_at", "updated_at"},
        {<<"from_user_id", "users", "cascade">>, <<"to_user_id", "users", "cascade">>,
        <<"to_contact_id", "trusted_contacts", "set null">>}, {}),
    Table("agent_request_messages", {"role", "body", "safe_for_recipient", "created_at"},
        {<<"request_id", "agent_requests", "cascade">>, OfUser}, {}),
    Table("agent_request_approvals", {"decision", "approved_payload", "reason", "created_at"},
        {<<"request_id", "agent_requests", "cascade">>, OfUser}, {}),
    Table("agent_blocks", {"blocked_email", "reason", "created_at"}, {OfUser,
        <<"blocked_user_id", "users", "cascade">>}, {}),
    Table("agent_relay_audit_events", {"event_type", "payload", "created_at"}, {OfUser,
        <<"request_id", "agent_requests", "set null">>}, {}) >>

StorageTables == <<
    Table("storage_objects", {"owner_type", "owner_id", "object_type", "provider", "bucket",
        "object_key", "content_type", "size_bytes", "checksum", "encryption_key_ref",
        "sensitivity", "retention_policy", "status", "created_at", "archived_at", "deleted_at"},
        {OfUser}, {}),
    Table("storage_usage", {"total_bytes", "transcript_bytes", "audio_bytes", "document_bytes",
        "export_bytes", "report_bytes", "updated_at"}, {OfUser}, {{"user_id"}}),
    Table("storage_events", {"event_type", "payload", "created_at"}, {OfUser,
        <<"object_id", "storage_objects", "set null">>}, {}),
    Table("memory_summaries", {"period", "period_start", "period_end", "summary",
        "source_object_ids", "status", "created_at"}, {OfUser}, {}) >>

LeaseColumns == <<
    Add("subagent_tasks", {"attempt_count", "max_attempts", "next_run_at", "locked_at",
        "locked_until", "locked_by", "lease_token", "last_heartbeat_at", "idempotency_key",
        "dedupe_key", "error_code", "error_class", "last_error", "completed_by"}) >>

SourceColumns == <<
    Add("subagent_reports", {"research_query_id", "research_answer_id", "source_ids",
        "citation_quality_score", "provider", "query", "generated_at"}) >>

ReviewColumns == <<
    Add("task_items", {"effort_estimate", "context", "blocked_by", "next_step", "remind_at",
        "reminder_channel", "reminder_status", "dedupe_key", "why_suggested", "source_quote",
        "extraction_confidence", "duplicate_of_id", "review_reason"}),
    Add("commitments", {"dedupe_key", "why_suggested", "source_quote", "extraction_confidence",
        "duplicate_of_id", "review_reason"}),
    Add("followup_suggestions", {"due_at", "channel"}),
    Add("investor_profiles", {"canonical_firm_name", "website_domain", "contact_url",
        "email_source_id", "email_confidence", "email_status", "duplicate_group_id",
        "duplicate_status", "merged_into_investor_id", "contact_confidence",
        "last_quality_review_at"}) >>

Indexes == <<
    Index("transcript_segments", {"session_id"}), Index("auth_accounts", {"user_id"}),
    Index("auth_sessions", {"token_id", "user_id"}),
    Index("account_deletion_requests", {"status", "user_id"}), Index("user_plans", {"user_id"}),
    Index("account_audit_events", {"created_at", "user_id"}), Index("sessions", {"user_id"}),
    Index("situation_briefs", {"user_id"}), Index("memories", {"user_id"}),
    Index("suggestions", {"session_id"}), Index("cue_events", {"session_id"}),
    Index("voice_sessions", {"session_id", "user_id"}), Index("agent_turns", {"session_id"}),
    Index("voice_outputs", {"session_id", "user_id"}), Index("human_profiles", {"user_id"}),
    Index("human_profile_facts", {"profile_id", "user_id"}),
    Index("context_entities", {"user_id"}), Index("context_relationships", {"user_id"}),
    Index("user_feedback_events", {"user_id"}),
    Index("brain_reflections", {"session_id", "user_id"}), Index("stress_events", {"user_id"}),
    Index("research_queries", {"user_id"}), Index("research_sources", {"query_id"}),
    Index("research_answers", {"query_id"}), Index("tool_invocations", {"user_id"}),
    Index("skills", {"user_id"}), Index("skill_versions", {"skill_id", "user_id"}),
    Index("brain_audit_events", {"user_id"}),
    Index("subagent_tasks", {"session_id", "status", "user_id"}),
    Index("subagent_reports", {"task_id", "user_id"}), Index("subagent_events", {"task_id"}),
    Index("subagent_task_attempts", {"task_id"}),
    Index("subagent_notifications", {"created_at", "task_id", "user_id"}),
    Index("commitments", {"due_at", "status", "user_id"}),
    Index("task_items", {"due_at", "status", "user_id"}),
    Index("daily_briefs", {"brief_date", "user_id"}),
    Index("daily_brief_feedback", {"brief_id", "user_id"}),
    Index("followup_suggestions", {"status", "user_id"}),
    Index("weekly_reviews", {"user_id", "week_start_date"}),
    Index("meeting_packs", {"session_id", "user_id"}),
    Index("action_proposals", {"session_id", "status", "user_id"}),
    Index("action_approvals", {"proposal_id", "user_id"}),
    Index("action_execution_logs", {"proposal_id", "user_id"}),
    Index("outreach_campaigns", {"status", "user_id"}),
    Index("investor_profiles", {"campaign_id", "status", "user_id"}),
    Index("investor_sources", {"investor_id", "user_id"}),
    Index("outreach_drafts", {"campaign_id", "investor_id", "user_id"}),
    Index("outreach_compliance_events", {"campaign_id", "draft_id", "user_id"}),
    Index("connector_accounts", {"provider", "user_id"}),
    Index("connector_token_vault", {"provider", "user_id"}),
    Index("connector_consent_events", {"connector_account_id", "user_id"}),
    Index("connector_sync_runs", {"connector_account_id", "user_id"}),
    Index("connector_items", {"connector_account_id", "item_type", "user_id"}),
    Index("rooms", {"investor_id", "status", "user_id"}),
    Index("room_participants", {"invite_token_hash", "room_id"}),
    Index("room_transcript_segments", {"room_id"}), Index("room_summaries", {"room_id"}),
    Index("room_audit_events", {"room_id"}),
    Index("evaluation_events", {"target_id", "target_type", "user_id"}),
    Index("provider_usage_events", {"provider", "user_id"}),
    Index("mobile_notifications", {"created_at", "session_id", "user_id"}),
    Index("voice_latency_events", {"session_id", "user_id"}),
    Index("agent_identities", {"user_id"}), Index("trusted_contacts", {"status", "user_id"}),
    Index("agent_requests", {"from_user_id", "status", "to_contact_id", "to_user_id"}),
    Index("agent_request_messages", {"request_id"}),
    Index("agent_request_approvals", {"request_id"}), Index("agent_blocks", {"user_id"}),
    Index("agent_relay_audit_events", {"created_at", "user_id"}),
    Index("storage_objects", {"object_type", "owner_id", "owner_type", "status", "user_id"}),
    Index("storage_usage", {"user_id"}), Index("storage_events", {"created_at", "user_id"}),
    Index("memory_summaries", {"created_at", "period", "user_id"}) >>

ReviewIndexes == <<
    Index("investor_profiles", {"duplicate_group_id"}),
    Index("investor_quality_reviews", {"investor_id", "user_id"}) >>

EmbeddingIndex == <<Index("memories", {"embedding"})>>

-----------------------------------------------------------------------------
(* A definition marked "mutant" is a faulty variant of the one after it; no    *)
(* formula uses it.                                                          *)

CreateTables ==
    AccountAndSessionTables \o VoiceAndProfileTables \o ResearchAndSkillTables \o LeaseColumns
    \o ReportTable \o SourceColumns \o EventAndTaskTables \o DailyAndOutreachTables
    \o ConnectorAndRoomTables \o EventAndRelayTables \o StorageTables \o Indexes

Queries == <<CreateTables, ReviewColumns, ReviewIndexes, EmbeddingIndex>>

\* What a migrator does, if not so many of its queries.
NotMigrating == -1
Refused == -2

There(db, table) == table \in DOMAIN db

\* Where query q creates a table, and where it adds columns.
Creation == [q \in DOMAIN Queries |-> [table \in TableNames |->
    LET at == {i \in DOMAIN Queries[q] :
                 Queries[q][i].kind = "create" /\ Queries[q][i].table = table}
    IN IF at = {} THEN Len(Queries[q]) + 1 ELSE CHOOSE i \in at : TRUE]]
Additions == [q \in DOMAIN Queries |->
    {i \in DOMAIN Queries[q] : Queries[q][i].kind = "add"}]

\* The columns of a table of db when query q has executed its first n statements:
\* IF NOT EXISTS leaves a table there is, and its columns, alone.
ColumnsAfter(db, q, n, table) ==
    (IF There(db, table) THEN db[table]
     ELSE IF Creation[q][table] <= n THEN Queries[q][Creation[q][table]].columns ELSE {})
    \cup UNION {Queries[q][i].columns : i \in
                  {k \in Additions[q] : k <= n /\ Queries[q][k].table = table}}

TablesAfter(db, q) ==
    {table \in TableNames : There(db, table) \/ Creation[q][table] <= Len(Queries[q])}

Executable(db, q, i) ==
    LET statement == Queries[q][i]  Columns(table) == ColumnsAfter(db, q, i - 1, table) IN
    \/ /\ statement.kind = "create"
       /\ \/ Columns(statement.table) # {}   \* IF NOT EXISTS
          \/ \A r \in statement.references : Columns(r[2]) # {}
    \/ statement.kind = "add" /\ Columns(statement.table) # {}
    \/ statement.kind = "index" /\ statement.columns \subseteq Columns(statement.table)

Executes(db, q) == \A i \in DOMAIN Queries[q] : Executable(db, q, i)
Migrated(db, q) ==
    [table \in TablesAfter(db, q) |-> ColumnsAfter(db, q, Len(Queries[q]), table)]

\* The databases of earlier versions: the tables up to some group of them, a
\* table that columns were added to with all or with none of them.
Groups == <<AccountAndSessionTables, VoiceAndProfileTables, ResearchAndSkillTables, ReportTable,
    EventAndTaskTables, DailyAndOutreachTables, ConnectorAndRoomTables, EventAndRelayTables,
    StorageTables>>
Added == LeaseColumns \o SourceColumns \o ReviewColumns
AddedTo == {Added[i].table : i \in DOMAIN Added}
AddedColumns(table) ==
    UNION {Added[i].columns : i \in {j \in DOMAIN Added : Added[j].table = table}}

Earlier(n, old) ==
    LET tables == UNION {ToSet(Groups[i]) : i \in 1..n} IN
    [table \in {t.table : t \in tables} |->
        LET columns == (CHOOSE t \in tables : t.table = table).columns IN
        IF table \in old THEN columns \ AddedColumns(table) ELSE columns \cup AddedColumns(table)]

EarlierDatabases == {Earlier(n, old) : n \in 0..Len(Groups), old \in SUBSET AddedTo}

MigrationInit ==
    /\ database \in EarlierDatabases
    /\ migrators = [m \in Migrators |-> NotMigrating]

MigrationTypeOK ==
    /\ DOMAIN database \subseteq TableNames
    /\ migrators \in [Migrators -> {NotMigrating, Refused} \cup 0..Len(Queries)]

\* runMigration: by hand, before a deploy, or by a smoke test; done or not, again.
StartMigration(m) ==
    /\ migrators[m] \notin 0..Len(Queries) - 1 /\ migrators[m] # Refused
    /\ migrators' = [migrators EXCEPT ![m] = 0]
    /\ UNCHANGED database

RunQuery(m) ==
    /\ migrators[m] \in 0..Len(Queries) - 1
    /\ LET q == migrators[m] + 1 IN
         IF Executes(database, q)
         THEN database' = Migrated(database, q) /\ migrators' = [migrators EXCEPT ![m] = q]
         ELSE migrators' = [migrators EXCEPT ![m] = Refused] /\ UNCHANGED database

MigrationGoesOn(m) ==                                            \* mutant
    /\ migrators[m] \in 0..Len(Queries) - 1
    /\ migrators' = [migrators EXCEPT ![m] = migrators[m] + 1]
    /\ UNCHANGED database

\* The process dies, or another migrator created the same row of the catalog
\* first: the query is rolled back.
MigrationFails(m) ==
    /\ migrators[m] \in 0..Len(Queries) - 1
    /\ migrators' = [migrators EXCEPT ![m] = NotMigrating]
    /\ UNCHANGED database

MigrationNext ==
    \E m \in Migrators : StartMigration(m) \/ RunQuery(m) \/ MigrationFails(m)

MigrationSpec == MigrationInit /\ [][MigrationNext]_migrationVars

-----------------------------------------------------------------------------
(* Properties *)

Statements == UNION {ToSet(Groups[i]) : i \in DOMAIN Groups}
Created == [table \in TableNames |-> CHOOSE t \in Statements : t.table = table]

\* The one difference: schema.ts says nothing of a deleted brief, migrate.ts sets
\* the reference of its sessions to null.
Undeclared(t) == IF t.table = "sessions"
    THEN {<<"situation_brief_id", "situation_briefs", "no action">>} ELSE {}

AsDeclared(db) == \A t \in Declared :
    /\ There(db, t.table) /\ db[t.table] = t.columns
    /\ Created[t.table].unique = t.unique
    /\ t.references \ Created[t.table].references \subseteq Undeclared(t)
    /\ {r[1] : r \in t.references} = {r[1] : r \in Created[t.table].references}

\* Whatever the age of the database, and whenever a migration before died, no
\* statement of a migration is refused, and after a whole one each table has the
\* columns, references and unique columns the program declares (docs/relay/
\* relay-local-validation.md:63: the relay migrations apply idempotently).
SchemaIsReached ==
    /\ \A m \in Migrators : migrators[m] # Refused
    /\ (\E m \in Migrators : migrators[m] = Len(Queries)) => AsDeclared(database)

-----------------------------------------------------------------------------
(* What each query does to each database, of which TLC's evaluation is all there  *)
(* is to show: these formulas have neither parameter nor variable. That it holds   *)
(* of migrators that overlap and die is SchemaIsReached.                       *)

\* The databases after the first k queries, whichever version there was.
Stages[k \in 0..Len(Queries)] ==
    IF k = 0 THEN EarlierDatabases ELSE {Migrated(db, k) : db \in Stages[k - 1]}

\* The next query, and each one before, is executed on every database of a stage; one
\* before leaves it in its stage. The last stage is as declared.
ASSUME QueriesAssumption ==
    /\ Stages[0] = EarlierDatabases /\ \A db \in Stages[0] : DOMAIN db \subseteq TableNames
    /\ \A k \in 0..Len(Queries) : \A db \in Stages[k], q \in DOMAIN Queries :
         /\ q <= k + 1 => Executes(db, q)
         /\ q = k + 1 => Migrated(db, q) \in Stages[q]
         /\ q <= k => Migrated(db, q) \in Stages[k]
    /\ \A db \in Stages[Len(Queries)] : AsDeclared(db)
=============================================================================
