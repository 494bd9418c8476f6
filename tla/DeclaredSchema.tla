--------------------------- MODULE DeclaredSchema ---------------------------
(***************************************************************************)
(* The tables as the program declares them (src/db/schema.ts): every query    *)
(* names its columns by this declaration and inserts every column of it. Per    *)
(* table its columns, the rows its keys refer to and what becomes of it when    *)
(* they are deleted, and the columns that are unique together. Types, defaults,  *)
(* NOT NULL and indexes are left out.                                        *)
(***************************************************************************)
EXTENDS Naturals, Sequences

\* Every table has an id, and a column for each of its references.
Table(table, columns, references, unique) ==
    [kind |-> "create", table |-> table, references |-> references, unique |-> unique,
     columns |-> {"id"} \cup columns \cup {r[1] : r \in references}]

OfUser == <<"user_id", "users", "cascade">>
OfSession == <<"session_id", "sessions", "cascade">>
FromSession == <<"session_id", "sessions", "set null">>

DeclaredAccounts == {
    Table("users", {"email", "display_name", "created_at"}, {}, {{"email"}}),
    Table("auth_accounts", {"provider", "provider_subject", "email", "email_verified",
        "display_name", "created_at", "updated_at"}, {OfUser}, {{"provider", "provider_subject"}}),
    Table("auth_sessions", {"token_id", "device_label", "platform", "created_at", "expires_at",
        "revoked_at"}, {OfUser}, {{"token_id"}}),
    Table("account_deletion_requests", {"status", "reason", "requested_at", "completed_at"},
        {OfUser}, {}),
    Table("user_plans", {"plan_code", "status", "source", "billing_enabled", "current_period_end",
        "created_at", "updated_at"}, {OfUser}, {{"user_id"}}),
    Table("account_audit_events", {"event_type", "payload", "created_at"}, {OfUser}, {}),
    Table("situation_briefs", {"description", "inferred_type", "user_goal", "participants",
        "scheduled_at", "playbook_ids", "risk_level", "created_at"}, {OfUser}, {}),
    Table("sessions", {"internal_type", "status", "title", "consent_granted", "retention_policy",
        "started_at", "ended_at"}, {OfUser,
        <<"situation_brief_id", "situation_briefs", "no action">>}, {}) }

DeclaredSessionRows == {
    Table("consent_events", {"granted", "method", "notice_text", "participant_count",
        "jurisdiction", "created_at"}, {OfSession, OfUser}, {}),
    Table("transcript_segments", {"speaker", "text", "is_final", "offset_ms", "confidence",
        "created_at"}, {OfSession}, {}),
    Table("suggestions", {"trigger_type", "card", "created_at"}, {OfSession}, {}),
    Table("cue_events", {"trigger_type", "cue", "created_at"}, {OfSession}, {}),
    Table("memories", {"kind", "subject", "content", "due_date", "embedding", "created_at"},
        {OfUser, FromSession}, {}),
    Table("voice_sessions", {"policy", "input_kind", "output_kind", "state", "tts_provider",
        "current_speech_id", "created_at", "updated_at"}, {OfSession, OfUser}, {}),
    Table("agent_turns", {"role", "channel", "content", "metadata", "created_at"}, {OfSession,
        OfUser}, {}) }

DeclaredProfile == {
    Table("voice_outputs", {"output_type", "speech_id", "text", "status", "metadata",
        "created_at"}, {OfSession, OfUser}, {}),
    Table("human_profiles", {"display_label", "primary_occupation", "occupation_confidence",
        "active_domains", "active_projects", "communication_style", "assistant_preferences",
        "stress_support_opt_in", "created_at", "updated_at"}, {OfUser}, {{"user_id"}}),
    Table("human_profile_facts", {"kind", "content", "source", "confidence", "sensitivity",
        "status", "expires_at", "created_at", "updated_at"}, {OfUser,
        <<"profile_id", "human_profiles", "cascade">>,
        <<"source_session_id", "sessions", "set null">>}, {}),
    Table("context_entities", {"entity_type", "name", "aliases", "description", "sensitivity",
        "confidence", "created_at", "updated_at"}, {OfUser}, {}),
    Table("context_relationships", {"relationship_type", "confidence", "created_at"}, {OfUser,
        <<"from_entity_id", "context_entities", "cascade">>,
        <<"to_entity_id", "context_entities", "cascade">>}, {}),
    Table("user_feedback_events", {"target_type", "target_id", "rating", "feedback", "outcome",
        "created_at"}, {OfUser, FromSession}, {}) }

DeclaredBrain == {
    Table("brain_reflections", {"reflection_type", "input_summary", "output", "status",
        "created_at"}, {OfUser, FromSession}, {}),
    Table("stress_events", {"detected_signal", "support_type", "confidence", "user_opted_in",
        "content", "status", "created_at"}, {OfUser, FromSession}, {}),
    Table("research_queries", {"query", "normalized_query", "intent", "provider", "status",
        "requires_freshness", "created_at", "completed_at"}, {OfUser, FromSession,
        <<"situation_brief_id", "situation_briefs", "set null">>}, {}),
    Table("research_sources", {"url", "title", "source_type", "published_at", "fetched_at",
        "snippet", "extracted_text", "credibility_score", "created_at"},
        {<<"query_id", "research_queries", "cascade">>}, {}),
    Table("research_answers", {"answer", "citations", "confidence", "limitations", "created_at"},
        {<<"query_id", "research_queries", "cascade">>}, {}),
    Table("tool_manifests", {"name", "version", "description", "category", "risk_level",
        "input_schema", "output_schema", "permissions", "enabled", "created_at", "updated_at"},
        {}, {{"name"}}),
    Table("tool_invocations", {"tool_name", "input", "output", "status", "permission_decision",
        "error", "created_at", "completed_at"}, {OfUser, FromSession}, {}) }

DeclaredSubagents == {
    Table("skills", {"name", "description", "trigger_pattern", "steps", "status", "source",
        "risk_level", "created_at", "updated_at"}, {OfUser}, {}),
    Table("skill_versions", {"version", "manifest", "created_at"},
        {<<"skill_id", "skills", "cascade">>, OfUser}, {}),
    Table("brain_audit_events", {"event_type", "payload", "created_at"}, {OfUser, FromSession},
        {}),
    Table("subagent_tasks", {"parent_turn_id", "kind", "trigger", "priority", "status", "input",
        "policy", "timeout_ms", "attempt_count", "max_attempts", "next_run_at", "locked_at",
        "locked_until", "locked_by", "lease_token", "last_heartbeat_at", "idempotency_key",
        "dedupe_key", "error_code", "error_class", "last_error", "completed_by", "error",
        "created_at", "started_at", "completed_at", "canceled_at"}, {OfUser, FromSession,
        <<"situation_brief_id", "situation_briefs", "set null">>}, {}),
    Table("subagent_task_attempts", {"worker_id", "attempt_number", "status", "error_code",
        "error_class", "error_message", "started_at", "completed_at", "duration_ms"},
        {<<"task_id", "subagent_tasks", "cascade">>, OfUser}, {}),
    Table("subagent_notifications", {"event_type", "payload", "delivered", "created_at"},
        {<<"task_id", "subagent_tasks", "cascade">>, OfUser, FromSession}, {}) }

DeclaredReportsAndTasks == {
    Table("subagent_reports", {"kind", "status", "title", "summary", "findings",
        "recommended_main_agent_message", "safety_notes", "provider_status", "source_ids",
        "citation_quality_score", "provider", "query", "generated_at", "created_at"},
        {<<"task_id", "subagent_tasks", "cascade">>, OfUser, FromSession,
        <<"research_query_id", "research_queries", "set null">>,
        <<"research_answer_id", "research_answers", "set null">>}, {}),
    Table("subagent_events", {"event_type", "payload", "created_at"},
        {<<"task_id", "subagent_tasks", "cascade">>, OfUser, FromSession}, {}),
    Table("commitments", {"source_type", "source_id", "owner", "counterparty", "title", "detail",
        "due_at", "status", "confidence", "sensitivity", "dedupe_key", "why_suggested",
        "source_quote", "extraction_confidence", "duplicate_of_id", "review_reason", "created_at",
        "updated_at"}, {OfUser, FromSession}, {}),
    Table("task_items", {"title", "detail", "priority", "status", "source_type", "source_id",
        "due_at", "effort_estimate", "context", "blocked_by", "next_step", "remind_at",
        "reminder_channel", "reminder_status", "dedupe_key", "why_suggested", "source_quote",
        "extraction_confidence", "duplicate_of_id", "review_reason", "suggested_at",
        "accepted_at", "completed_at", "created_at", "updated_at"}, {OfUser, FromSession,
        <<"commitment_id", "commitments", "set null">>}, {}),
    Table("daily_briefs", {"brief_date", "status", "summary", "sections", "action_items",
        "generated_at"}, {OfUser}, {}) }

DeclaredDaily == {
    Table("daily_brief_feedback", {"section_key", "rating", "feedback", "action", "created_at"},
        {OfUser, <<"brief_id", "daily_briefs", "cascade">>}, {}),
    Table("followup_suggestions", {"person_name", "organization_name", "reason",
        "suggested_message", "due_at", "channel", "status", "created_at", "updated_at"}, {OfUser,
        FromSession}, {}),
    Table("weekly_reviews", {"week_start_date", "status", "summary", "sections", "quality",
        "generated_at"}, {OfUser}, {}),
    Table("meeting_packs", {"title", "pack_type", "sections", "risks", "suggested_questions",
        "followups", "created_at"}, {OfUser,
        <<"situation_brief_id", "situation_briefs", "set null">>, FromSession}, {}),
    Table("action_proposals", {"source_type", "action_type", "title", "description", "payload",
        "risk_level", "status", "requires_approval", "created_at", "expires_at", "updated_at"},
        {OfUser, FromSession}, {}),
    Table("action_approvals", {"decision", "reason", "created_at"},
        {<<"proposal_id", "action_proposals", "cascade">>, OfUser}, {}) }

DeclaredOutreach == {
    Table("action_execution_logs", {"status", "result", "error", "created_at"},
        {<<"proposal_id", "action_proposals", "cascade">>, OfUser}, {}),
    Table("outreach_campaigns", {"name", "startup_summary", "raise_target", "target_stage",
        "target_geography", "sectors", "status", "compliance_basis", "created_at", "updated_at"},
        {OfUser}, {}),
    Table("investor_profiles", {"firm_name", "canonical_firm_name", "partner_name", "role_title",
        "website_url", "website_domain", "contact_url", "linkedin_url", "email",
        "email_source_id", "email_confidence", "email_status", "location", "check_size", "stages",
        "sectors", "geographies", "thesis_summary", "source_confidence", "fit_score",
        "fit_reasons", "risk_flags", "status", "duplicate_group_id", "duplicate_status",
        "merged_into_investor_id", "contact_confidence", "last_quality_review_at", "created_at",
        "updated_at"}, {OfUser, <<"campaign_id", "outreach_campaigns", "set null">>}, {}),
    Table("investor_quality_reviews", {"score", "findings", "warnings", "created_at"},
        {<<"investor_id", "investor_profiles", "cascade">>, OfUser}, {}),
    Table("investor_sources", {"source_type", "title", "url", "snippet", "credibility_score",
        "fetched_at", "created_at"}, {<<"investor_id", "investor_profiles", "cascade">>, OfUser},
        {}) }

DeclaredConnectors == {
    Table("outreach_drafts", {"subject", "body", "personalization_notes", "source_ids",
        "compliance_notes", "status", "created_at", "updated_at"}, {OfUser,
        <<"campaign_id", "outreach_campaigns", "cascade">>,
        <<"investor_id", "investor_profiles", "cascade">>,
        <<"action_proposal_id", "action_proposals", "set null">>}, {}),
    Table("outreach_compliance_events", {"event_type", "payload", "created_at"}, {OfUser,
        <<"campaign_id", "outreach_campaigns", "set null">>,
        <<"draft_id", "outreach_drafts", "set null">>}, {}),
    Table("connector_accounts", {"provider", "account_email", "status", "scopes", "token_ref",
        "created_at", "updated_at"}, {OfUser}, {}),
    Table("connector_token_vault", {"provider", "key_id", "encrypted_payload", "created_at",
        "updated_at"}, {OfUser}, {}),
    Table("connector_consent_events", {"provider", "scopes", "consent_text", "status",
        "created_at"}, {OfUser, <<"connector_account_id", "connector_accounts", "set null">>}, {}),
    Table("connector_sync_runs", {"provider", "sync_type", "status", "started_at", "completed_at",
        "error", "item_counts"}, {OfUser,
        <<"connector_account_id", "connector_accounts", "cascade">>}, {}) }

DeclaredRooms == {
    Table("connector_items", {"provider", "item_type", "external_id", "title", "summary",
        "starts_at", "ends_at", "metadata", "sensitivity", "created_at", "updated_at"}, {OfUser,
        <<"connector_account_id", "connector_accounts", "cascade">>}, {}),
    Table("rooms", {"title", "provider", "provider_room_name", "status", "ai_agent_enabled",
        "transcription_enabled", "recording_enabled", "consent_required", "created_at",
        "updated_at"}, {OfUser, <<"outreach_campaign_id", "outreach_campaigns", "set null">>,
        <<"investor_id", "investor_profiles", "set null">>}, {}),
    Table("room_participants", {"role", "display_name", "email", "token_hash",
        "invite_token_hash", "joined_at", "left_at", "consent_status", "created_at",
        "updated_at"}, {<<"room_id", "rooms", "cascade">>, <<"user_id", "users", "set null">>},
        {}),
    Table("room_transcript_segments", {"speaker_label", "text", "offset_ms", "is_final",
        "created_at"}, {<<"room_id", "rooms", "cascade">>}, {}),
    Table("room_summaries", {"summary", "decisions", "commitments", "followups", "draft_followup",
        "created_at"}, {<<"room_id", "rooms", "cascade">>,
        <<"action_proposal_id", "action_proposals", "set null">>}, {}),
    Table("room_audit_events", {"event_type", "payload", "created_at"},
        {<<"room_id", "rooms", "cascade">>, <<"user_id", "users", "set null">>}, {}) }

DeclaredEvents == {
    Table("evaluation_events", {"target_type", "target_id", "evaluator", "score", "status",
        "metrics", "findings", "created_at"}, {OfUser, FromSession}, {}),
    Table("provider_usage_events", {"provider", "model", "operation", "input_tokens",
        "output_tokens", "cached_input_tokens", "latency_ms", "estimated_cost_usd", "status",
        "created_at"}, {OfUser, FromSession}, {}),
    Table("mobile_notifications", {"type", "title", "body", "payload", "priority", "read_at",
        "acknowledged_at", "created_at"}, {OfUser, FromSession}, {}),
    Table("voice_latency_events", {"event_type", "speech_id", "timestamp", "metadata",
        "created_at"}, {OfUser, OfSession}, {}),
    Table("storage_objects", {"owner_type", "owner_id", "object_type", "provider", "bucket",
        "object_key", "content_type", "size_bytes", "checksum", "encryption_key_ref",
        "sensitivity", "retention_policy", "status", "created_at", "archived_at", "deleted_at"},
        {OfUser}, {}),
    Table("storage_usage", {"total_bytes", "transcript_bytes", "audio_bytes", "document_bytes",
        "export_bytes", "report_bytes", "updated_at"}, {OfUser}, {{"user_id"}}) }

DeclaredRelay == {
    Table("storage_events", {"event_type", "payload", "created_at"}, {OfUser,
        <<"object_id", "storage_objects", "set null">>}, {}),
    Table("memory_summaries", {"period", "period_start", "period_end", "summary",
        "source_object_ids", "status", "created_at"}, {OfUser}, {}),
    Table("agent_identities", {"display_name", "headline", "professional_role", "company_name",
        "profile_visibility", "relay_enabled", "created_at", "updated_at"}, {OfUser},
        {{"user_id"}}),
    Table("trusted_contacts", {"display_name", "email", "company_name", "relationship", "status",
        "trust_level", "created_at", "updated_at"}, {OfUser,
        <<"contact_user_id", "users", "cascade">>}, {}),
    Table("agent_requests", {"request_type", "title", "summary", "context", "requested_share",
        "risk_level", "status", "expires_at", "created_at", "updated_at"},
        {<<"from_user_id", "users", "cascade">>, <<"to_user_id", "users", "cascade">>,
        <<"to_contact_id", "trusted_contacts", "set null">>}, {}),
    Table("agent_request_messages", {"role", "body", "safe_for_recipient", "created_at"},
        {<<"request_id", "agent_requests", "cascade">>, OfUser}, {}),
    Table("agent_request_approvals", {"decision", "approved_payload", "reason", "created_at"},
        {<<"request_id", "agent_requests", "cascade">>, OfUser}, {}) }

DeclaredRelayLists == {
    Table("agent_blocks", {"blocked_email", "reason", "created_at"}, {OfUser,
        <<"blocked_user_id", "users", "cascade">>}, {}),
    Table("agent_relay_audit_events", {"event_type", "payload", "created_at"}, {OfUser,
        <<"request_id", "agent_requests", "set null">>}, {}) }

Declared ==
    DeclaredAccounts \cup DeclaredSessionRows \cup DeclaredProfile \cup DeclaredBrain \cup
    DeclaredSubagents \cup DeclaredReportsAndTasks \cup DeclaredDaily \cup DeclaredOutreach
    \cup DeclaredConnectors \cup DeclaredRooms \cup DeclaredEvents \cup DeclaredRelay \cup
    DeclaredRelayLists

TableNames == {t.table : t \in Declared}
=============================================================================
