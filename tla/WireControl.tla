----------------------------- MODULE WireControl ------------------------------
(***************************************************************************)
(* Types of the control socket.                                            *)
(***************************************************************************)
EXTENDS Wire

--------------------------------------------------------------------------------
(* animus-control-protocol/src/error.rs                                     *)

ControlError == Tagged("category", FALSE,
     "not_found" :> (Required({"message"}))
  @@ "invalid_request" :> (Required({"message"}))
  @@ "permission_denied" :> (Required({"message"}))
  @@ "unavailable" :> (Required({"message"}))
  @@ "not_supported" :> (Required({"message"}))
  @@ "conflict" :> (Required({"message"}))
  @@ "internal" :> (Required({"message"})))

--------------------------------------------------------------------------------
(* animus-control-protocol/src/types.rs                                     *)

SubjectCalls ==
  [SubjectListRequest |-> Struct(Defaulted({"filter"})),
   SubjectListResponse |-> Struct(Required({"subjects", "fetched_at"}) @@ Omitted({"next_cursor"})),
   SubjectGetRequest |-> Struct(Required({"id"})),
   SubjectCreateRequest |-> Struct(
     Required({"kind", "title"}) @@ Omitted({"body", "status", "priority", "assignee"})
     @@ Skipped({"labels", "custom"})),
   SubjectUpdateRequest |-> Struct(Required({"id", "patch"})),
   SubjectNextRequest |-> Struct(Omitted({"kind"})),
   SubjectNextResponse |-> Struct(Omitted({"subject"})),
   SubjectStatusRequest |-> Struct(Required({"id", "status"})),
   SubjectWatchRequest |-> Struct(Omitted({"kind", "filter"})),
   PluginListRequest |-> Struct(Omitted({"kind"}) @@ Defaulted({"include_warnings"})),
   PluginListResponse |-> Struct(Required({"plugins"}) @@ Skipped({"warnings"}))]

PluginCalls ==
  [PluginInfo |-> Struct(
     Required({"name", "version", "kind"}) @@ Omitted({"source", "description", "binary_path"})
     @@ Defaulted({"signature_verified"})),
   PluginWarning |-> Struct(Required({"plugin", "message"})),
   PluginInfoRequest |-> Struct(Required({"name"})),
   PluginInstallRequest |-> Struct(
     Required({"source"}) @@ Omitted({"version"}) @@ Defaulted({"yes", "allow_unsigned"})),
   PluginInstallResponse |-> Struct(Required({"plugin"}) @@ Skipped({"steps"})),
   PluginUninstallRequest |-> Struct(Required({"name"})),
   PluginPingRequest |-> Struct(Required({"name"})),
   PluginPingResponse |-> Struct(Required({"ok"}) @@ Omitted({"latency_ms", "error"})),
   PluginCallRequest |-> Struct(Required({"name", "method"}) @@ DefaultedJson({"params"}))]

PluginRegistryCalls ==
  [PluginSearchRequest |-> Struct(Required({"query"}) @@ Omitted({"kind", "tag"})),
   PluginRegistryEntry |-> Struct(
     Required({"id", "name", "version", "kind"}) @@ Omitted({"description", "url"})
     @@ Defaulted({"installed"}) @@ Skipped({"tags"})),
   PluginSearchResponse |-> Struct(Required({"entries"})),
   PluginBrowseRequest |-> Struct(Omitted({"kind"}) @@ Defaulted({"installed", "available"})),
   PluginUpdateRequest |-> Struct(Omitted({"name", "tag"}) @@ Defaulted({"dry_run"})),
   PluginUpdateResponse |-> Struct(Required({"updates"})),
   PluginUpdateEntry |-> Struct(Required({"name", "from_version", "to_version", "applied"})),
   DaemonStatusResponse |-> Struct(
     Required({"running"})
     @@ Omitted({"pid", "uptime_seconds", "version", "project_root", "log_path"})),
   DaemonHealthResponse |-> Struct(
     Required({"status"}) @@ Omitted({"last_error"}) @@ Skipped({"plugins"})),
   DaemonHealthStatus |-> Enum({"healthy", "degraded", "unhealthy", "down"}, NoAliases)]

FleetCalls ==
  [PluginHealth |-> Struct(
     Required({"name", "kind", "status"}) @@ Omitted({"uptime_ms", "last_error"})),
   DaemonAgentsResponse |-> Struct(Required({"agents"})),
   CodingFleetStatusResponse |-> Struct(
     Required({"capacity", "active", "available", "owner_id"}) @@ Skipped({"reservations"})),
   CodingFleetReservation |-> Struct(
     Required({"execution", "state", "updated_at"})
     @@ Omitted({"environment_handle", "blocked_reason"})),
   CodingFleetReservationState |-> Enum(
     {"leased", "running", "recovering", "retained", "cleaning-up", "terminal", "blocked"},
     NoAliases),
   CodingFleetBlockedReason |-> Enum(
     {"duplicate-subject-generation", "repository-ref-collision", "lease-recovery-required",
          "missing-execution-identity", "environment-unknown"},
     NoAliases),
   AgentInfo |-> Struct(
     Required({"session_id", "provider", "model", "started_at"})
     @@ Omitted({"workflow_id", "phase_id"})),
   DaemonEventsRequest |-> Struct(Omitted({"since"})),
   DaemonRunEvent |-> Struct(Required({"id", "occurred_at", "kind"}) @@ DefaultedJson({"payload"}))]

DaemonLogsRequest == Struct(Omitted({"since", "level", "plugin"}) @@ Defaulted({"follow"}))

WorkflowStatus == Enum(
  {"pending", "running", "paused", "completed", "failed", "cancelled"},
  NoAliases)

WorkflowListRequest == Struct(Omitted({"status", "cursor", "limit", "workflow_ref"}))

WorkflowListResponse == Struct(Required({"runs"}) @@ Omitted({"next_cursor", "total"}))

WorkflowRunSummary == Struct(
  Required({"id", "definition", "status", "started_at"})
  @@ Omitted({"subject_id", "finished_at"}))

WorkflowCalls ==
  [WorkflowGetRequest |-> Struct(Required({"id"})),
   WorkflowRun |-> Struct(WorkflowRunSummary.fields @@ DefaultedJson({"detail"})),
   WorkflowRunRequest |-> Struct(
     Required({"task_id"}) @@ Omitted({"definition", "actor"}) @@ Skipped({"params"})),
   WorkflowRunStart |-> Struct(Required({"workflow_id", "status", "started_at"})),
   WorkflowExecuteRequest |-> Struct(
     Required({"definition"}) @@ Omitted({"subject_id", "actor"}) @@ Skipped({"params"})),
   WorkflowPauseRequest |-> Struct(Required({"id"})),
   WorkflowResumeRequest |-> Struct(Required({"id"}) @@ Omitted({"feedback"})),
   WorkflowEventsRequest |-> Struct(Omitted({"workflow_id", "kinds"})),
   WorkflowEvent |-> Struct(
     Required({"workflow_id", "kind", "occurred_at"}) @@ DefaultedJson({"payload"})),
   WorkflowCancelRequest |-> Struct(Required({"id"}) @@ Omitted({"reason"}))]

AgentRunRequest == Struct(
  Required({"provider", "model", "prompt"}) @@ Omitted({"system", "cwd"}) @@ Skipped({"env"}))

AgentParts ==
  [AgentRunResult |-> Struct(Required({"session_id", "model", "output"}) @@ Omitted({"usage"})),
   AgentUsage |-> Struct(
     Required({"prompt_tokens", "completion_tokens"}) @@ Omitted({"cost_micro_usd"})),
   AgentStatusRequest |-> Struct(Required({"id"})),
   AgentStatus |-> Struct(
     Required({"session_id", "status", "provider", "model", "started_at"})
     @@ Omitted({"finished_at", "last_error"})),
   AgentLifecycle |-> Enum({"running", "completed", "failed", "cancelled"}, NoAliases)]

AgentCancelRequest == Struct(Required({"session_id"}))

QueueCalls ==
  [QueueEntryStatus |-> Enum({"ready", "held", "in-flight", "done", "dropped"}, NoAliases),
   QueueEntry |-> Struct(
     Required({"id", "subject_id", "status", "priority", "enqueued_at"})
     @@ Omitted({"hold_reason"})),
   QueueListRequest |-> Struct(Omitted({"status", "cursor", "limit"})),
   QueueListResponse |-> Struct(Required({"entries"}) @@ Omitted({"next_cursor"})),
   QueueEnqueueRequest |-> Struct(Required({"task_id"}) @@ Omitted({"priority"})),
   QueueDropRequest |-> Struct(Required({"id"})),
   QueueHoldRequest |-> Struct(Required({"id"}) @@ Omitted({"reason"})),
   QueueReleaseRequest |-> Struct(Required({"id"})),
   QueueReorderRequest |-> Struct(
     Required({"position"}) @@ Omitted({"id", "anchor_id"}) @@ Skipped({"subject_ids"})),
   QueueReorderPosition |-> Enum({"front", "back", "before", "after"}, NoAliases),
   QueueStats |-> Struct(Required({"ready", "held", "in_flight", "done_recent", "dropped_recent"}))]

ProjectCalls ==
  [ProjectInitRequest |-> Struct(Omitted({"template"}) @@ Defaulted({"yes"})),
   ProjectSetupRequest |-> Struct(Defaulted({"mcp", "start_daemon"})),
   ProjectInfo |-> Struct(Required({"project_root", "repo_scope", "created"})),
   ProjectStatusResponse |-> Struct(
     Required({"project_root", "repo_scope", "workflow_definition_count", "task_count",
          "active_runs", "queue_size"})),
   SubscriptionClosedPayload |-> Struct(Required({"reason"}) @@ Json({"id"})),
   Unit |-> Struct(NoFields)]

--------------------------------------------------------------------------------
Declared == {ControlError, DaemonLogsRequest, WorkflowStatus, WorkflowListRequest,
  WorkflowListResponse, WorkflowRunSummary, AgentRunRequest, AgentCancelRequest}
  \cup UNION {Members(SubjectCalls), Members(PluginCalls), Members(PluginRegistryCalls),
    Members(FleetCalls), Members(WorkflowCalls), Members(AgentParts), Members(QueueCalls),
    Members(ProjectCalls)}
================================================================================
