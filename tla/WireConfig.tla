------------------------------ MODULE WireConfig ------------------------------
(***************************************************************************)
(* Types of animus-config-protocol: the configuration model, its YAML form *)
(* and the calls of the configuration plugins.                             *)
(***************************************************************************)
EXTENDS Wire

--------------------------------------------------------------------------------
(* animus-config-protocol/src/agent_types.rs                                *)

PhaseFieldDefinition == Struct(
  Required({"type"}) @@ Omitted({"description", "items"}) @@ Defaulted({"required"})
  @@ Skipped({"enum", "fields"}))

PhaseOutputContract == Struct(
  Required({"kind"}) @@ Defaulted({"required_fields"}) @@ Skipped({"fields"}))

PhaseDecisionContract == Struct(
  OmittedJson({"extra_json_schema"}) @@ Defaulted({"required_evidence"}) @@ Skipped({"fields"})
  @@ OrElse({"min_confidence", "max_risk", "allow_missing_decision"}))

BackoffConfig == Struct(Required({"initial_secs"}) @@ Omitted({"max_secs"}) @@ OrElse({"factor"}))

PhaseRetryConfig == Struct(Omitted({"backoff"}) @@ OrElse({"max_attempts"}))

PhaseExecutionMode == Enum({"agent", "command", "manual"}, NoAliases)

CommandCwdMode == Enum({"project_root", "task_root", "path"}, NoAliases)

AgentRuntimeOverrides == Struct(
  Nullable({"tool", "tool_profile", "model", "reasoning_effort", "permission_mode",
       "web_search", "network_access", "timeout_secs", "max_attempts", "max_continuations"})
  @@ Defaulted({"fallback_models", "fallback_tools", "extra_args", "codex_config_overrides"})
  @@ Skipped({"retry_on", "no_retry_on"}))

AgentToolPolicy == Struct(Defaulted({"allow", "deny"}))

AgentHooksConfig == Struct(Skipped({"policy_rules", "observers"}))

AgentHookObserver == Struct(Defaulted({"events", "action"}))

AgentHookAction == Enum({"record"}, NoAliases)

ApprovalPolicyDefault == Enum({"ask", "allow", "deny", "llm"}, NoAliases)

ApprovalPolicy == Struct(
  Omitted({"evaluator_model", "evaluator_instructions"})
  @@ Defaulted({"auto_allow", "auto_deny", "default"}))

AgentMcpServerSource == Enum({"builtin", "custom"}, NoAliases)

AgentMcpServerConfig == Struct(Defaulted({"source", "tool_policy", "env"}))

AgentCapabilities == Open(NoFields)

AgentPersonaConfig == Struct(
  Omitted({"style", "instructions"}) @@ Skipped({"traits", "customizations"}))

AgentMemoryWritePolicy == Enum({"explicit", "phase_summary"}, NoAliases)

AgentMemoryConfig == Struct(
  Omitted({"scope", "max_context_chars", "max_entries"})
  @@ Defaulted({"enabled", "write_policy"}))

AgentCommunicationConfig == Struct(
  Omitted({"max_context_chars"}) @@ Defaulted({"enabled"})
  @@ Skipped({"channels", "can_message"}))

AgentProjectOverrides == Struct(Nullable({"tool", "model"}) @@ Defaulted({"extra_args", "env"}))

ApplicationChatControlsPolicy == Struct(
  Omitted({"approvals", "reasoning_efforts", "permission_intents", "skill_refs"})
  @@ Skipped({"allow_permissive_intents"}))

AgentProfile == Struct(
  Nullable({"role", "tool", "tool_profile", "model", "reasoning_effort", "permission_mode",
       "web_search", "network_access", "timeout_secs", "max_attempts", "max_continuations"})
  @@ Omitted({"name", "system_prompt_file", "persona", "approval_policy",
       "application_chat_controls", "mcp_server_configs", "structured_capabilities",
       "project_overrides"})
  @@ Defaulted({"description", "system_prompt", "memory", "communication", "mcp_servers",
       "tool_policy", "skills", "capabilities", "fallback_models", "fallback_tools",
       "retry_on", "no_retry_on", "extra_args", "codex_config_overrides"})
  @@ Skipped({"hooks", "models"}))

AgentProfileOverlay == Struct(
  Omitted({"name", "description", "system_prompt", "system_prompt_file", "role", "persona",
       "memory", "communication", "mcp_servers", "tool_policy", "approval_policy", "hooks",
       "skills", "capabilities", "mcp_server_configs", "structured_capabilities",
       "project_overrides", "models", "tool", "tool_profile", "model", "fallback_models",
       "fallback_tools", "reasoning_effort", "permission_mode", "web_search", "network_access",
       "timeout_secs", "max_attempts", "retry_on", "no_retry_on", "extra_args",
       "codex_config_overrides", "max_continuations"}) @@ Patch({"application_chat_controls"}))

PhaseWork ==
  [PhaseCommandDefinition |-> Struct(
     Required({"program"})
     @@ Nullable({"cwd_path", "timeout_secs", "expected_result_kind", "category",
          "failure_pattern", "excerpt_max_chars", "on_success_verdict", "on_failure_verdict",
          "confidence", "failure_risk"}) @@ NullableJson({"expected_schema"})
     @@ Defaulted({"args", "env", "parse_json_output"})
     @@ OrElse({"cwd_mode", "success_exit_codes"})),
   PhaseManualDefinition |-> Struct(
     Required({"instructions"}) @@ Omitted({"timeout_secs"})
     @@ Defaulted({"approval_note_required"})),
   Idempotency |-> Enum({"idempotent", "sideeffecting", "unknown"}, NoAliases),
   EvalKind |-> Enum({"command", "llm_judge"}, NoAliases),
   EvalOnFail |-> Enum({"rework", "block"}, NoAliases)]

EvalCheck == Struct(
  Required({"id", "kind"})
  @@ Omitted({"command", "working_dir", "timeout_secs", "agent", "prompt"})
  @@ Defaulted({"expected_exit"}) @@ Skipped({"args"}))

EvalsConfig == Struct(
  Defaulted({"on_fail", "max_reworks", "checks"}) @@ OrElse({"pass_threshold"}))

PhaseExecutionDefinition == Struct(
  Required({"mode"})
  @@ Nullable({"agent_id", "directive", "runtime", "capabilities", "output_contract",
       "decision_contract", "retry", "command", "manual", "default_tool"})
  @@ NullableJson({"output_json_schema"}) @@ Omitted({"system_prompt", "worktree", "evals"})
  @@ Defaulted({"idempotency"}) @@ Skipped({"skills"}))

--------------------------------------------------------------------------------
(* animus-config-protocol/src/lib.rs                                        *)

ConfigModel == Struct(Required({"schema", "version"}) @@ Json({"config"}))

CacheToken == Struct(Required({"version"}) @@ Defaulted({"external_inputs"}))

ConfigCalls ==
  [ConfigLoadRequest |-> Struct(Required({"project_root"}) @@ Omitted({"repo_scope", "actor"})),
   ConfigLoadResponse |-> Struct(Required({"config", "cache_token"})),
   ConfigChangedEvent |-> Struct(Omitted({"version"})),
   ConfigWriteRequest |-> Struct(Required({"project_root", "config"}) @@ Omitted({"repo_scope"})),
   ConfigWriteResponse |-> Struct(Omitted({"cache_token"})),
   ConfigValidateRequest |-> Struct(Required({"project_root"}) @@ Omitted({"repo_scope", "actor"})),
   DiagnosticSeverity |-> Enum({"error", "warning"}, NoAliases)]

ConfigDiagnostic == Struct(
  Required({"severity", "message"}) @@ Omitted({"file", "line", "column"}))

ConfigValidateResponse == Struct(Skipped({"diagnostics"}))

--------------------------------------------------------------------------------
(* animus-config-protocol/src/workflow_types.rs                             *)

PhaseUiDefinition == Struct(
  Required({"label"}) @@ Nullable({"icon", "docs_url"})
  @@ Defaulted({"description", "category", "tags"}) @@ OrElse({"visible"}))

PhaseTransitionConfig == Struct(
  Required({"target"}) @@ Omitted({"guard"}) @@ Defaulted({"allow_agent_target"})
  @@ Skipped({"allowed_targets"}))

BudgetOnExceed == Enum({"pause", "fail", "warn"}, NoAliases)

BudgetConfig == Struct(Omitted({"max_tokens", "max_cost_usd"}) @@ Defaulted({"on_exceed"}))

WorkflowPhaseConfig == Struct(
  Required({"id"}) @@ Omitted({"budget", "environment", "workspace"})
  @@ Skipped({"on_verdict", "skip_if"}) @@ OrElse({"max_rework_attempts"}))

SubWorkflowRef == Closed(Required({"workflow_ref"}))

WorkflowVariable == Struct(
  Required({"name"}) @@ Omitted({"description", "default"}) @@ Defaulted({"required"}))

WorktreeMode == Enum({"auto", "required", "skip"}, NoAliases)

WorktreeConfig == Struct(Omitted({"base_ref"}) @@ Defaulted({"mode"}) @@ OrElse({"cleanup"}))

WorkspaceParts ==
  [WorkspaceRepo |-> Struct(Required({"url"}) @@ Omitted({"name", "git_ref"}) @@ Skipped({"primary"})),
   Workspace |-> Struct(Skipped({"repos"})),
   EnvironmentRouting |-> Struct(Omitted({"default"}) @@ Skipped({"rules"})),
   EnvironmentRule |-> Struct(Required({"environment"}) @@ Omitted({"spec"}) @@ Defaulted({"match"})),
   EnvironmentMatch |-> Struct(Omitted({"kind", "harness"})),
   SecretRef |-> Struct(Required({"env"}) @@ Omitted({"description"}) @@ OrElse({"required"}))]

PublicationParts ==
  [WorkflowPublicationOwner |-> Tagged("kind", TRUE,
        "runner" :> NoFields
     @@ "phase" :> (Required({"phase_id"}))),
   WorkflowPublicationCleanupPolicy |-> Enum({"retain", "after_remote_verified"}, NoAliases),
   WorkflowPublicationConfig |-> Closed(
     Omitted({"owner"}) @@ Defaulted({"required", "cleanup"}) @@ OrElse({"schema", "version"})),
   WorkflowPublicationMigrationDiagnostic |-> Struct(Required({"workflow_id", "code", "message"})),
   WorkflowDefinition |-> Struct(
     Required({"id", "name"}) @@ Nullable({"budget"})
     @@ Omitted({"worktree", "publication", "environment", "workspace"})
     @@ Defaulted({"description", "phases"}) @@ Skipped({"variables"}))]

WorkflowCheckpointRetentionConfig == Struct(
  Nullable({"max_age_hours"}) @@ Defaulted({"auto_prune_on_completion"})
  @@ OrElse({"keep_last_per_phase"}))

McpServerDefinition == Struct(
  Nullable({"transport", "url"}) @@ Omitted({"oauth"})
  @@ Defaulted({"command", "args", "config", "tools", "env"}))

OauthConfig == Struct(
  Required({"flow"})
  @@ Omitted({"token_url", "client_id_env", "client_secret_env", "refresh_token_env",
       "bearer_env", "audience", "client_id"}) @@ Skipped({"scopes"}) @@ OrElse({"cache"}))

OauthFlow == Enum(
  {"client_credentials", "refresh_token", "manual_bearer", "authorization_code"},
  NoAliases)

IntegrationParts ==
  [PhaseMcpBinding |-> Struct(Defaulted({"servers"})),
   ToolDefinition |-> Struct(
     Required({"executable"})
     @@ Nullable({"context_window", "supports_streaming", "supports_tool_use", "supports_vision",
          "supports_long_context", "read_only_flag", "response_schema_flag"})
     @@ Omitted({"supports_mcp", "supports_write"}) @@ Defaulted({"base_args"})),
   TaskIntegrationConfig |-> Struct(Required({"provider"}) @@ Defaulted({"config"})),
   GitIntegrationConfig |-> Struct(
     Required({"provider"}) @@ Nullable({"base_branch"}) @@ Defaulted({"config"})),
   IntegrationsConfig |-> Struct(Nullable({"tasks", "git"})),
   WorkflowSchedule |-> Grown({"owner_id"}, Struct(
     Required({"id"}) @@ Nullable({"workflow_ref", "command"}) @@ NullableJson({"input"})
     @@ Omitted({"owner_id"}) @@ Defaulted({"cron"}) @@ Skipped({"claims"}) @@ OrElse({"enabled"})))]

TriggerType == Enum({"file_watcher", "webhook", "github_webhook", "plugin"}, NoAliases)

WorkflowTrigger == Struct(
  Required({"id", "type"}) @@ Nullable({"workflow_ref"}) @@ OmittedJson({"input"})
  @@ DefaultedJson({"config"}) @@ OrElse({"enabled"}))

FileWatcherTriggerConfig == Struct(Defaulted({"paths", "ignore"}) @@ OrElse({"debounce_secs"}))

WebhookTriggerConfig == Struct(Nullable({"secret_env"}) @@ OrElse({"max_triggers_per_minute"}))

ConfigParts ==
  [DaemonConfig |-> Struct(Nullable({"active_hours"}) @@ Omitted({"phase_routing", "mcp", "budget"})),
   DaemonBudgetConfig |-> Struct(Omitted({"max_cost_usd_per_day"}) @@ Defaulted({"on_exceed"})),
   AgentChannelConfig |-> Struct(
     Omitted({"description", "max_context_chars"}) @@ Skipped({"participants"})),
   WorkflowConfig |-> Struct(
     Required({"schema", "version", "default_workflow_ref"})
     @@ Omitted({"integrations", "daemon", "environment_routing"})
     @@ Defaulted({"phase_catalog", "workflows", "checkpoint_retention"})
     @@ Skipped({"phase_definitions", "agent_profiles", "agent_channels", "tools_allowlist",
          "mcp_servers", "phase_mcp_bindings", "tools", "schedules", "triggers", "secrets",
          "workspaces"}))]

WorkflowConfigSource == Enum({"json", "yaml", "plugin", "builtin", "builtin_fallback"}, NoAliases)

WorkflowConfigMetadata == Struct(Required({"schema", "version", "hash", "source"}))

LoadedWorkflowConfig == Struct(Required({"config", "metadata", "path"}))

--------------------------------------------------------------------------------
(* animus-config-protocol/src/yaml_types.rs                                 *)

ModelRegistryEntry == Struct(Required({"model"}) @@ Omitted({"tool"}))

YamlPhaseRichConfig == Struct(
  Omitted({"budget", "environment", "workspace"}) @@ Defaulted({"skip_if", "on_verdict"})
  @@ OrElse({"max_rework_attempts"}))

YamlSubWorkflowRef == Closed(Required({"workflow_ref"}))

YamlParts ==
  [YamlWorkflowDefinition |-> Struct(
     Required({"id"}) @@ Nullable({"budget"})
     @@ Omitted({"name", "description", "worktree", "publication", "environment", "workspace"})
     @@ Skipped({"phases", "variables"})),
   YamlCommandDefinition |-> Struct(
     Required({"program"})
     @@ Nullable({"cwd_mode", "cwd_path", "timeout_secs", "success_exit_codes",
          "parse_json_output", "expected_result_kind", "category", "failure_pattern",
          "excerpt_max_chars", "on_success_verdict", "on_failure_verdict", "confidence",
          "failure_risk"}) @@ NullableJson({"expected_schema"}) @@ Defaulted({"args", "env"})),
   YamlManualDefinition |-> Struct(
     Required({"instructions"}) @@ Nullable({"approval_note_required", "timeout_secs"})),
   YamlEvalCheck |-> Struct(
     Required({"id", "kind"})
     @@ Omitted({"command", "working_dir", "timeout_secs", "agent", "prompt"})
     @@ Defaulted({"expected_exit"}) @@ Skipped({"args"})),
   YamlEvalsConfig |-> Struct(
     Defaulted({"on_fail", "max_reworks", "checks"}) @@ OrElse({"pass_threshold"})),
   YamlPhaseDefinition |-> Struct(
     Required({"mode"}) @@ Nullable({"evals"})
     @@ Omitted({"agent", "command", "manual", "directive", "system_prompt", "runtime",
          "capabilities", "output_contract", "decision_contract", "retry", "default_tool",
          "worktree"}) @@ OmittedJson({"output_json_schema"}) @@ Defaulted({"idempotency"})
     @@ Skipped({"skills"}))]

YamlWorkflowFile == Struct(
  Omitted({"default_workflow_ref", "phase_catalog", "integrations", "daemon",
       "environment_routing"})
  @@ Skipped({"workflows", "phases", "agents", "agent_channels", "models", "tools_allowlist",
       "mcp_servers", "phase_mcp_bindings", "tools", "schedules", "triggers", "secrets",
       "workspaces"}))

--------------------------------------------------------------------------------
Declared == {PhaseFieldDefinition, PhaseOutputContract, PhaseDecisionContract, BackoffConfig,
  PhaseRetryConfig, PhaseExecutionMode, CommandCwdMode, AgentRuntimeOverrides, AgentToolPolicy,
  AgentHooksConfig, AgentHookObserver, AgentHookAction, ApprovalPolicyDefault, ApprovalPolicy,
  AgentMcpServerSource, AgentMcpServerConfig, AgentCapabilities, AgentPersonaConfig,
  AgentMemoryWritePolicy, AgentMemoryConfig, AgentCommunicationConfig, AgentProjectOverrides,
  ApplicationChatControlsPolicy, AgentProfile, AgentProfileOverlay, EvalCheck, EvalsConfig,
  PhaseExecutionDefinition, ConfigModel, CacheToken, ConfigDiagnostic, ConfigValidateResponse,
  PhaseUiDefinition, PhaseTransitionConfig, BudgetOnExceed, BudgetConfig, WorkflowPhaseConfig,
  SubWorkflowRef, WorkflowVariable, WorktreeMode, WorktreeConfig,
  WorkflowCheckpointRetentionConfig, McpServerDefinition, OauthConfig, OauthFlow, TriggerType,
  WorkflowTrigger, FileWatcherTriggerConfig, WebhookTriggerConfig, WorkflowConfigSource,
  WorkflowConfigMetadata, LoadedWorkflowConfig, ModelRegistryEntry, YamlPhaseRichConfig,
  YamlSubWorkflowRef, YamlWorkflowFile}
  \cup UNION {Members(PhaseWork), Members(ConfigCalls), Members(WorkspaceParts),
    Members(PublicationParts), Members(IntegrationParts), Members(ConfigParts),
    Members(YamlParts)}
================================================================================
