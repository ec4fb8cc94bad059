------------------------------- MODULE WireHost -------------------------------
(***************************************************************************)
(* Types of the protocol crate: what the host keeps in its files and       *)
(* exchanges with its runners.                                             *)
(***************************************************************************)
EXTENDS Wire

--------------------------------------------------------------------------------
(* protocol/src/agent_runner.rs                                             *)

AgentRunRequest == Struct(
  Required({"protocol_version", "run_id", "model"}) @@ Json({"context"})
  @@ Nullable({"timeout_secs"}))

RunnerCalls ==
  [AgentRunEvent |-> Tagged("kind", FALSE,
        "started" :> (Required({"run_id", "timestamp"}))
     @@ "output_chunk" :> (Required({"run_id", "stream_type", "text"}))
     @@ "metadata" :> (Required({"run_id"}) @@ Nullable({"cost", "tokens"}))
     @@ "error" :> (Required({"run_id", "error"}))
     @@ "finished" :> (Required({"run_id", "duration_ms"}) @@ Nullable({"exit_code"}))
     @@ "tool_call" :> (Required({"run_id", "tool_info"}))
     @@ "tool_result" :> (Required({"run_id", "result_info"}))
     @@ "artifact" :> (Required({"run_id", "artifact_info"}))
     @@ "thinking" :> (Required({"run_id", "content"}))),
   AgentControlRequest |-> Struct(Required({"run_id", "action"})),
   AgentControlAction |-> Enum({"pause", "resume", "terminate"}, NoAliases),
   AgentControlResponse |-> Struct(Required({"run_id", "success"}) @@ Nullable({"message"})),
   AgentStatusRequest |-> Struct(Required({"run_id"})),
   AgentStatusResponse |-> Struct(
     Required({"run_id", "status", "elapsed_ms", "started_at"}) @@ Nullable({"completed_at"})),
   AgentStatusQueryResponse |-> Tagged("kind", FALSE,
        "status" :> (Required({"payload"}))
     @@ "error" :> (Required({"payload"}))),
   AgentStatusErrorResponse |-> Struct(Required({"run_id", "code", "message"})),
   AgentStatusErrorCode |-> Enum({"not_found"}, NoAliases),
   ModelStatusRequest |-> Struct(Required({"models"})),
   RunnerStatusRequest |-> Closed(NoFields),
   RunnerStatusResponse |-> Struct(
     Required({"active_agents"}) @@ Nullable({"build_id"}) @@ OmittedJson({"metrics"})
     @@ OrElse({"protocol_version"}))]

IpcAuthRequestKind == Enum({"ipc_auth"}, NoAliases)

IpcAuthRequest == Closed(Required({"kind", "token"}))

IpcAuthResultKind == Enum({"ipc_auth_result"}, NoAliases)

IpcAuthFailureCode == Enum(
  {"malformed_auth_payload", "invalid_token", "server_token_unavailable"},
  NoAliases)

IpcAuthResult == Closed(Required({"kind", "ok"}) @@ Omitted({"code", "message"}))

ModelParts ==
  [ModelStatusResponse |-> Struct(Required({"statuses"})),
   ModelStatus |-> Struct(Required({"model", "availability"}) @@ Nullable({"details"})),
   ModelAvailability |-> Enum(
     {"available", "missing_cli", "missing_api_key", "disabled", "error"},
     NoAliases),
   ProjectModelConfig |-> Struct(
     Required({"project_id", "allowed_models", "phase_defaults"}) @@ Nullable({"fallback_model"})),
   WorkflowPhaseModelDefaults |-> Struct(
     Nullable({"design", "development", "quality_assurance", "review", "deploy"}))]

--------------------------------------------------------------------------------
(* protocol/src/common.rs                                                   *)

CommonParts ==
  [RequirementPriority |-> Enum({"must", "should", "could", "wont"}, NoAliases),
   Status |-> Enum({"draft", "approved", "implemented", "deprecated"}, NoAliases),
   TokenUsage |-> Struct(
     Required({"input", "output"}) @@ Nullable({"reasoning", "cache_read", "cache_write"})),
   WorkflowPhase |-> Enum(
     {"design", "development", "qualityassurance", "review", "deploy"},
     NoAliases)]

--------------------------------------------------------------------------------
(* protocol/src/config.rs                                                   *)

HostConfigParts ==
  [ProjectMcpServerEntry |-> Struct(
     Nullable({"transport", "url"}) @@ OmittedJson({"oauth"})
     @@ Defaulted({"command", "args", "env", "assign_to"})),
   ClaudeProfileEntry |-> Struct(Defaulted({"env"})),
   Config |-> Struct(
     Nullable({"agent_runner_token"})
     @@ Omitted({"default_subject_kind", "auto_update", "metrics", "secrets"})
     @@ Skipped({"mcp_servers", "claude_profiles"})),
   SecretsConfig |-> Struct(Omitted({"backend", "key_source", "key_file"})),
   AutoUpdateMode |-> Enum({"off", "notify", "prompt", "auto"}, NoAliases),
   AutoUpdateChannel |-> Enum({"stable", "prerelease"}, NoAliases),
   AutoUpdateConfig |-> Struct(Defaulted({"mode", "channel"}) @@ OrElse({"check_interval"}))]

MetricsConfig == Struct(
  Omitted({"enabled", "install_id"}) @@ OrElse({"endpoint", "batch_interval"}))

--------------------------------------------------------------------------------
(* protocol/src/config_bundle.rs                                            *)

ConfigBundle == Struct(Required({"files"}) @@ Defaulted({"tasks", "requirements"}))

--------------------------------------------------------------------------------
(* protocol/src/credentials.rs                                              *)

Credentials == Struct(Defaulted({"providers"}))

ProviderCredential == Struct(Required({"api_key"}))

--------------------------------------------------------------------------------
(* protocol/src/daemon.rs                                                   *)

RequirementType == Enum(
  {"product", "functional", "non-functional", "technical", "other"},
  "nonfunctional" :> "non-functional")

AgentStatus == Enum(
  {"starting", "running", "paused", "completed", "failed", "timeout", "terminated"},
  NoAliases)

OutputStreamType == Enum({"stdout", "stderr", "system"}, NoAliases)

--------------------------------------------------------------------------------
(* protocol/src/daemon_event_record.rs                                      *)

DaemonEventRecord == Struct(
  Required({"schema", "id", "timestamp", "event_type"}) @@ Json({"data"})
  @@ Nullable({"project_root"}) @@ Defaulted({"seq"}))

--------------------------------------------------------------------------------
(* protocol/src/deploy_config.rs                                            *)

DeployConfig == Struct(
  Required({"machine_ids"})
  @@ Nullable({"fly_token", "app_name", "org", "region", "status", "last_deployed_at"}))

--------------------------------------------------------------------------------
(* protocol/src/hook_policy.rs                                              *)

PolicyDecision == Enum({"defer", "allow", "ask", "deny"}, NoAliases)

InputMatcher == Struct(Required({"field", "regex"}))

HookPolicyRule == Struct(
  Required({"decision"}) @@ Omitted({"id", "reason"})
  @@ Skipped({"events", "tools", "input_matchers"}))

HookPolicy == Struct(Required({"version"}) @@ Defaulted({"default_decision", "rules"}))

--------------------------------------------------------------------------------
(* protocol/src/model_routing.rs                                            *)

McpRuntimeConfig == Struct(
  Omitted({"endpoint", "transport", "stdio_command", "stdio_args_json", "agent_id",
       "schema_draft"}))

PhaseRoutingConfig == Struct(
  Omitted({"global_model", "global_tool", "research_model", "research_tool", "ui_ux_model",
       "ui_ux_tool", "file_edit_model", "file_edit_tool", "complexity"})
  @@ Skipped({"global_fallback_models", "research_fallback_models", "ui_ux_fallback_models",
       "per_phase"}))

PhaseOverride == Struct(Omitted({"model", "tool", "complexity"}) @@ Skipped({"fallback_models"}))

PhaseCapabilities == Struct(
  Defaulted({"writes_files", "mutates_state", "requires_commit", "enforce_product_changes",
       "is_research", "is_ui_ux", "is_review", "is_testing", "is_requirements"}))

--------------------------------------------------------------------------------
(* protocol/src/orchestrator.rs                                             *)

TaskStatus == Enum(
  {"backlog", "ready", "in-progress", "blocked", "on-hold", "done", "cancelled"},
  "todo" :> "backlog" @@ "in_progress" :> "in-progress" @@ "inprogress" :> "in-progress"
  @@ "on_hold" :> "on-hold" @@ "onhold" :> "on-hold" @@ "completed" :> "done")

TaskType == Enum(
  {"feature", "bugfix", "hotfix", "refactor", "docs", "test", "chore", "experiment"},
  "bug" :> "bugfix" @@ "hot-fix" :> "hotfix" @@ "documentation" :> "docs" @@ "doc" :> "docs"
  @@ "tests" :> "test" @@ "testing" :> "test")

Priority == Enum({"critical", "high", "medium", "low"}, NoAliases)

Assessments ==
  [RiskLevel |-> Enum({"high", "medium", "low"}, NoAliases),
   Scope |-> Enum({"large", "medium", "small"}, NoAliases),
   Complexity |-> Enum({"high", "medium", "low"}, NoAliases),
   ImpactArea |-> Enum(
     {"frontend", "backend", "database", "api", "infrastructure", "docs", "tests", "cicd"},
     NoAliases),
   Assignee |-> Tagged("type", FALSE,
        "agent" :> (Required({"role"}) @@ Nullable({"model"}))
     @@ "human" :> (Required({"user_id"}))
     @@ "unassigned" :> NoFields),
   RequirementStatus |-> Enum(
     {"draft", "refined", "planned", "in-progress", "done", "po-review", "em-review",
          "needs-rework", "approved", "implemented", "deprecated"},
     "in_progress" :> "in-progress")]

RequirementParts ==
  [RequirementLinks |-> Struct(
     Defaulted({"tasks", "workflows", "tests", "mockups", "flows", "related_requirements"})),
   RequirementComment |-> Struct(Required({"author", "content", "timestamp"}) @@ Nullable({"phase"})),
   CodebaseInsight |-> Struct(Defaulted({"detected_stacks", "notable_paths", "file_count_scanned"})),
   RequirementItem |-> Struct(
     Required({"id", "title", "description", "created_at", "updated_at"})
     @@ Nullable({"body", "legacy_id", "category", "type", "relative_path"})
     @@ Defaulted({"acceptance_criteria", "priority", "status", "source", "tags", "links",
          "comments", "linked_task_ids"})),
   RequirementFilter |-> Struct(
     Nullable({"status", "priority", "category", "type", "tags", "linked_task_id", "search_text"})),
   RequirementQuerySort |-> Enum({"id", "updated_at", "priority", "status"}, NoAliases),
   RequirementQuery |-> Struct(Defaulted({"filter", "page", "sort"})),
   RequirementsDraftInput |-> Struct(
     Defaulted({"max_requirements"}) @@ OrElse({"include_codebase_scan", "append_only"}))]

RequirementCalls ==
  [RequirementsDraftResult |-> Struct(
     Required({"requirements", "appended_count"}) @@ Nullable({"codebase_insight"})),
   RequirementsRefineInput |-> Struct(Nullable({"focus"}) @@ Defaulted({"requirement_ids"})),
   RequirementsExecutionInput |-> Struct(
     Nullable({"workflow_ref"})
     @@ Defaulted({"requirement_ids", "start_workflows", "include_wont"})),
   RequirementsExecutionResult |-> Struct(
     Required({"requirements_considered"})
     @@ Defaulted({"task_ids_created", "task_ids_reused", "workflow_ids_started"})),
   DependencyType |-> Enum({"blocks-by", "blocked-by", "related-to"}, NoAliases),
   TaskDependency |-> Struct(Required({"task_id", "dependency_type"})),
   ChecklistItem |-> Struct(
     Required({"id", "description", "completed", "created_at"}) @@ Nullable({"completed_at"})),
   WorkflowMetadata |-> Struct(
     Required({"requires_design", "requires_architecture", "requires_qa",
          "requires_staging_deploy", "requires_production_deploy"}) @@ Nullable({"workflow_id"}))]

ResourceRequirements == Struct(
  Required({"requires_network"}) @@ Nullable({"max_cpu_percent", "max_memory_mb"}))

TaskMetadata == Struct(
  Required({"created_at", "updated_at", "created_by", "updated_by"})
  @@ Nullable({"started_at", "completed_at"}) @@ Omitted({"status_changed_at"})
  @@ OrElse({"version"}))

DispatchHistoryEntry == Struct(
  Required({"workflow_id", "started_at", "outcome"})
  @@ Omitted({"ended_at", "duration_secs", "failed_phase", "failure_reason"}))

OrchestratorTask == Struct(
  Required({"id", "title", "description", "type", "status", "priority", "metadata"})
  @@ Nullable({"blocked_reason", "blocked_at", "blocked_phase", "blocked_by",
       "estimated_effort", "worktree_path", "branch_name", "deadline"})
  @@ Omitted({"resolution", "consecutive_dispatch_failures", "last_dispatch_failure_at"})
  @@ Defaulted({"risk", "scope", "complexity", "impact_area", "assignee",
       "linked_requirements", "linked_architecture_entities", "dependencies", "checklist",
       "tags", "workflow_metadata", "paused", "cancelled", "resource_requirements"})
  @@ Skipped({"dispatch_history"}))

TaskCalls ==
  [TaskCreateInput |-> Struct(
     Required({"title"}) @@ Nullable({"task_type", "priority", "created_by"})
     @@ Defaulted({"description", "tags", "linked_requirements", "linked_architecture_entities"})),
   TaskUpdateInput |-> Struct(
     Nullable({"title", "description", "priority", "status", "assignee", "tags", "updated_by",
          "deadline", "linked_architecture_entities"})),
   TaskFilter |-> Struct(
     Nullable({"task_type", "status", "priority", "risk", "assignee_type", "tags",
          "linked_requirement", "linked_architecture_entity", "search_text"})),
   TaskQuerySort |-> Enum({"priority", "updated_at", "created_at", "id"}, NoAliases),
   ListPageRequest |-> Struct(Nullable({"limit"}) @@ Defaulted({"offset"}))]

ListPage == Struct(
  Required({"items", "total", "returned", "has_more"}) @@ Nullable({"limit"})
  @@ Omitted({"next_offset"}) @@ Defaulted({"offset"}))

StatusParts ==
  [TaskQuery |-> Struct(Defaulted({"filter", "page", "sort"})),
   TaskStatistics |-> Struct(
     Required({"total", "by_status", "by_priority", "by_type", "in_progress", "blocked",
          "completed"})),
   DaemonStatus |-> Enum(
     {"starting", "running", "paused", "stopping", "stopped", "crashed"},
     NoAliases),
   DaemonHealth |-> Grown({"provider_plugins_healthy", "flavor", "runtime_paused", "paused_at"}, Struct(
     Required({"healthy", "status"})
     @@ Nullable({"pool_size", "project_root", "daemon_pid", "process_alive"})
     @@ Omitted({"pool_utilization_percent", "queued_tasks", "total_agents_spawned",
          "total_agents_completed", "total_agents_failed", "flavor", "paused_at"})
     @@ Defaulted({"provider_plugins_healthy", "active_agents", "runtime_paused"})
     @@ Skipped({"degraded_reasons"}))),
   ProjectType |-> Enum(
     {"web-app", "mobile-app", "desktop-app", "full-stack-platform", "library", "infrastructure",
          "other"},
     "web_app" :> "web-app" @@ "mobile_app" :> "mobile-app" @@ "desktop_app" :> "desktop-app"
     @@ "full_stack_platform" :> "full-stack-platform" @@ "greenfield" :> "other"
     @@ "existing" :> "other"),
   ProjectModelPreferences |-> Struct(
     Nullable({"default_model"}) @@ Defaulted({"allowed_models", "phase_overrides"}))]

ProjectConcurrencyLimits == Struct(Required({"max_workflows", "max_agents"}))

ProjectConfig == Struct(
  Required({"project_type"})
  @@ Defaulted({"tech_stack", "auto_push", "model_preferences", "concurrency_limits"})
  @@ OrElse({"auto_commit", "default_branch", "mcp_port"}))

ProjectMetadata == Open(
  Nullable({"problem_statement", "description"}) @@ Defaulted({"target_users", "goals"}))

ComplexityTier == Enum({"simple", "medium", "complex"}, NoAliases)

TaskDensity == Enum({"low", "medium", "high"}, NoAliases)

RequirementRange == Struct(Required({"min", "max"}))

ComplexityAssessment == Struct(
  Nullable({"rationale", "source"})
  @@ Defaulted({"tier", "recommended_requirement_range", "task_density"})
  @@ OrElse({"confidence"}))

VisionDraftInput == Struct(
  Nullable({"project_name", "value_proposition", "complexity_assessment"})
  @@ Defaulted({"problem_statement", "target_users", "goals", "constraints"}))

VisionDocument == Struct(
  Required({"id", "project_root", "markdown", "problem_statement", "created_at", "updated_at"})
  @@ Nullable({"value_proposition", "complexity_assessment"})
  @@ Defaulted({"target_users", "goals", "constraints"}))

ArchitectureEntity == Struct(
  Required({"id", "name"}) @@ Nullable({"description"})
  @@ Defaulted({"kind", "code_paths", "tags", "metadata"}))

ArchitectureEdge == Struct(
  Required({"id", "from", "to", "relation"}) @@ Nullable({"rationale"})
  @@ Defaulted({"metadata"}))

ArchitectureGraph == Struct(Defaulted({"entities", "edges", "metadata"}) @@ OrElse({"schema"}))

HandoffTargetRole == Enum({"em", "po"}, NoAliases)

WorkflowQueries ==
  [AgentHandoffRequestInput |-> Struct(
     Required({"run_id", "target_role", "question"}) @@ Omitted({"handoff_id"})
     @@ DefaultedJson({"context"})),
   AgentHandoffStatus |-> Enum({"completed", "failed"}, NoAliases),
   AgentHandoffResult |-> Struct(
     Required({"handoff_id", "run_id", "root_run_id", "workflow_id", "target_role", "status",
          "duration_ms", "depth"}) @@ Omitted({"response", "error"})),
   WorkflowStatus |-> Enum(
     {"pending", "running", "paused", "completed", "failed", "escalated", "cancelled"},
     NoAliases),
   WorkflowFilter |-> Struct(
     Nullable({"status", "workflow_ref", "task_id", "phase_id", "search_text"})),
   WorkflowQuerySort |-> Enum({"started_at", "status", "workflow_ref", "id"}, NoAliases),
   WorkflowQuery |-> Struct(Defaulted({"filter", "page", "sort"})),
   WorkflowDecisionSource |-> Enum({"llm", "fallback"}, NoAliases),
   WorkflowDecisionAction |-> Enum({"advance", "skip", "rework", "repeat", "fail"}, NoAliases),
   WorkflowDecisionRisk |-> Enum({"low", "medium", "high"}, NoAliases),
   WorkflowDecisionRecord |-> Struct(
     Required({"timestamp", "phase_id", "source", "decision", "reason", "confidence", "risk"})
     @@ Omitted({"target_phase", "machine_version", "machine_hash", "machine_source"})
     @@ Defaulted({"guardrail_violations"})),
   PhaseDecisionVerdict |-> Catching("unknown", Enum(
     {"advance", "rework", "fail", "skip", "unknown"},
     NoAliases))]

PhaseParts ==
  [PhaseEvidenceKind |-> Catching("custom", Enum(
     {"tests_passed", "tests_failed", "code_review_clean", "code_review_issues", "files_modified",
          "requirements_met", "research_complete", "manual_verification", "no_changes_needed",
          "custom"},
     NoAliases)),
   PhaseEvidence |-> Struct(
     Required({"kind", "description"}) @@ Omitted({"file_path"}) @@ OmittedJson({"value"})),
   PhaseDecision |-> Struct(
     Required({"kind", "phase_id", "verdict", "confidence", "risk"})
     @@ Omitted({"commit_message", "target_phase", "verdict_key"})
     @@ Defaulted({"reason", "evidence", "guardrail_violations"})),
   WorkflowPhaseStatus |-> Enum(
     {"pending", "ready", "running", "success", "failed", "skipped"},
     NoAliases),
   WorkflowPhaseExecution |-> Struct(
     Required({"phase_id", "status", "attempt"})
     @@ Nullable({"started_at", "completed_at", "error_message"})),
   WorkflowMachineState |-> Enum(
     {"idle", "evaluate-transition", "run-phase", "evaluate-gates", "apply-transition", "paused",
          "completed", "merge-conflict", "failed", "human-escalated", "cancelled"},
     NoAliases)]

CheckpointParts ==
  [WorkflowMachineEvent |-> Enum(
     {"start", "phase-started", "phase-succeeded", "phase-failed", "gates-passed", "gates-failed",
          "policy-decision-ready", "policy-decision-failed", "pause-requested",
          "resume-requested", "cancel-requested", "rework-budget-exceeded",
          "human-feedback-provided", "merge-conflict-detected", "merge-conflict-resolved",
          "no-more-phases", "phase-skipped", "retry-phase-started", "phase-target-selected"},
     NoAliases),
   CheckpointReason |-> Enum(
     {"start", "resume", "pause", "cancel", "status-change", "recovery", "manual"},
     NoAliases),
   WorkflowCheckpoint |-> Struct(
     Required({"number", "timestamp", "reason", "machine_state", "status"})
     @@ Omitted({"phase_id"})),
   WorkflowCheckpointMetadata |-> Struct(Required({"checkpoint_count", "checkpoints"})),
   LogLevel |-> Enum({"trace", "debug", "info", "warn", "error"}, NoAliases),
   LogEntry |-> Struct(Required({"timestamp", "level", "message"}))]

OrchestratorProject == Struct(
  Required({"id", "name", "path"}) @@ Defaulted({"config", "metadata", "archived"})
  @@ OrElse({"created_at", "updated_at"}))

OrchestratorWorkflow == Struct(
  Required({"id", "task_id", "status", "current_phase_index", "started_at"})
  @@ Nullable({"workflow_ref", "current_phase", "completed_at"})
  @@ Omitted({"execution_fence", "subject", "failure_reason"}) @@ OmittedJson({"input"})
  @@ Defaulted({"phases", "machine_state", "checkpoint_metadata", "rework_counts",
       "total_reworks", "decision_history"}) @@ Skipped({"vars"}))

ProjectCreateInput == Struct(
  Required({"name", "path"}) @@ Nullable({"project_type", "description", "metadata"})
  @@ Defaulted({"tech_stack"}))

TaskPriorityParts ==
  [TaskPriorityDistribution |-> Struct(Required({"critical", "high", "medium", "low"})),
   TaskPriorityPolicyReport |-> Struct(
     Required({"high_budget_percent", "high_budget_limit", "total_tasks", "active_tasks",
          "total_by_priority", "active_by_priority", "high_budget_compliant",
          "high_budget_overflow"})),
   TaskPriorityRebalanceChange |-> Struct(Required({"task_id", "from", "to"})),
   TaskPriorityRebalancePlan |-> Struct(
     Required({"high_budget_percent", "before", "after"}) @@ Defaulted({"changes"})),
   TaskPriorityRebalanceOptions |-> Struct(
     Defaulted({"essential_task_ids", "nice_to_have_task_ids"}) @@ OrElse({"high_budget_percent"}))]

RunnerEvent == Struct(
  Required({"event"}) @@ Nullable({"workflow_ref", "exit_code"})
  @@ Omitted({"workflow_id", "workflow_status"}) @@ Defaulted({"task_id"}))

SubjectExecutionFact == Struct(
  Required({"subject_id", "success"})
  @@ Omitted({"subject_kind", "task_id", "workflow_id", "workflow_ref", "workflow_status",
       "schedule_id", "exit_code", "failure_reason"}) @@ Defaulted({"runner_events"}))

WorkflowRunInput == Grown({"execution_fence"}, Struct(
  Nullable({"workflow_ref"})
  @@ Omitted({"subject", "execution_fence", "requirement_id", "title", "description"})
  @@ OmittedJson({"input"}) @@ Skipped({"vars", "task_id"})))

--------------------------------------------------------------------------------
(* protocol/src/output.rs                                                   *)

OutputParts ==
  [AgentOutput |-> Struct(
     Required({"id", "execution_id", "run_id", "timestamp", "event_type", "content"})
     @@ Json({"metadata"})),
   AgentEventType |-> Enum(
     {"output", "tool_call", "tool_result", "artifact", "thinking", "completion", "error"},
     NoAliases),
   ToolCallInfo |-> Struct(Required({"tool_name", "timestamp"}) @@ Json({"parameters"})),
   ToolResultInfo |-> Struct(Required({"tool_name", "duration_ms", "success"}) @@ Json({"result"})),
   ArtifactInfo |-> Struct(
     Required({"artifact_id", "artifact_type"})
     @@ Nullable({"file_path", "size_bytes", "mime_type"})),
   ArtifactType |-> Enum({"file", "code", "image", "document", "data", "other"}, NoAliases),
   CompletionInfo |-> Struct(
     Required({"duration_ms", "success"}) @@ Nullable({"exit_code", "total_cost", "total_tokens"})),
   ErrorInfo |-> Struct(Required({"error_type", "message"}) @@ Nullable({"stacktrace"}))]

--------------------------------------------------------------------------------
(* protocol/src/sync_config.rs                                              *)

SyncConfig == Struct(
  Nullable({"server", "token", "refresh_token", "access_token_expires_at", "project_id",
       "last_synced_at"}))

--------------------------------------------------------------------------------
Declared == {AgentRunRequest, IpcAuthRequestKind, IpcAuthRequest, IpcAuthResultKind,
  IpcAuthFailureCode, IpcAuthResult, MetricsConfig, ConfigBundle, Credentials,
  ProviderCredential, RequirementType, AgentStatus, OutputStreamType, DaemonEventRecord,
  DeployConfig, PolicyDecision, InputMatcher, HookPolicyRule, HookPolicy, McpRuntimeConfig,
  PhaseRoutingConfig, PhaseOverride, PhaseCapabilities, TaskStatus, TaskType, Priority,
  ResourceRequirements, TaskMetadata, DispatchHistoryEntry, OrchestratorTask, ListPage,
  ProjectConcurrencyLimits, ProjectConfig, ProjectMetadata, ComplexityTier, TaskDensity,
  RequirementRange, ComplexityAssessment, VisionDraftInput, VisionDocument, ArchitectureEntity,
  ArchitectureEdge, ArchitectureGraph, HandoffTargetRole, OrchestratorProject,
  OrchestratorWorkflow, ProjectCreateInput, RunnerEvent, SubjectExecutionFact,
  WorkflowRunInput, SyncConfig}
  \cup UNION {Members(RunnerCalls), Members(ModelParts), Members(CommonParts),
    Members(HostConfigParts), Members(Assessments), Members(RequirementParts),
    Members(RequirementCalls), Members(TaskCalls), Members(StatusParts),
    Members(WorkflowQueries), Members(PhaseParts), Members(CheckpointParts),
    Members(TaskPriorityParts), Members(OutputParts)}
================================================================================
