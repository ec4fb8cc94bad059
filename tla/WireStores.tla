------------------------------ MODULE WireStores ------------------------------
(***************************************************************************)
(* Types of queues, runners, environments, stores, journals, logs,         *)
(* notifiers, transports and triggers.                                     *)
(***************************************************************************)
EXTENDS Wire

--------------------------------------------------------------------------------
(* animus-queue-protocol/src/lib.rs                                         *)

QueueCalls ==
  [QueueEnqueueRequest |-> Struct(
     Required({"subject_dispatch"}) @@ Omitted({"run_at", "expire_after_secs"})),
   QueueEnqueueResponse |-> Struct(
     Required({"enqueued", "entry_id", "subject_id"}) @@ Omitted({"warning"})),
   QueueListRequest |-> Struct(Omitted({"limit", "offset"}) @@ Skipped({"status"})),
   QueueListResponse |-> Struct(Required({"entries", "total", "stats"})),
   QueueEntry |-> Struct(
     Required({"entry_id", "subject_id", "subject_dispatch", "status", "enqueued_at"})
     @@ Omitted({"task_id", "workflow_id", "assigned_at", "held_at", "run_at",
          "expire_after_secs"})),
   QueueStats |-> Struct(
     Required({"total", "pending", "assigned", "held"}) @@ Defaulted({"deferred"})),
   QueueLeaseRequest |-> Grown({"exclude_subjects"}, Struct(
     Required({"max"}) @@ Omitted({"workflow_ids", "exclude_subjects"})))]

QueueLeaseResponse == Struct(Required({"leased"}))

QueueEnqueueV2Request == Closed(
  Required({"subject_dispatch"})
  @@ Omitted({"idempotency_key", "repository", "run_at", "expire_after_secs"}))

QueueEnqueueV2Response == Closed(
  Required({"enqueued", "entry_id", "subject"}) @@ Omitted({"warning"}))

FencedQueueEntry == Closed(Required({"entry", "execution"}))

QueueLeaseV2Request == Closed(
  Required({"max", "owner_id", "workflow_ids"}) @@ Skipped({"exclude"}))

LeaseParts ==
  [QueueLeaseBlockReason |-> Enum(
     {"subject_generation_active", "repository_ref_collision", "expired_lease_recovery_required",
          "missing_execution_identity"},
     NoAliases),
   QueueLeaseBlock |-> Closed(Required({"entry_id", "reason"}) @@ Omitted({"conflicts_with"})),
   QueueLeaseV2Response |-> Closed(Required({"leased"}) @@ Skipped({"blocked"})),
   QueueLeaseRenewRequest |-> Closed(Required({"execution"}) @@ Omitted({"ttl_secs"}))]

QueueLeaseRecoverRequest == Closed(
  Required({"execution", "new_owner_id"}) @@ Omitted({"ttl_secs"}))

QueueLeaseMutationOutcome == Enum(
  {"applied", "already_applied", "not_found", "stale_fence", "lease_still_live",
       "not_assigned"},
  NoAliases)

QueueLeaseMutationResponse == Closed(Required({"outcome"}) @@ Omitted({"execution", "reason"}))

QueueCompletionV2Request == Closed(Required({"execution", "status"}) @@ Omitted({"workflow_ref"}))

QueueReleasePendingV2Request == Closed(Required({"execution", "reason"}))

QueueEntryCalls ==
  [QueueHoldRequest |-> Struct(Required({"entry_id"}) @@ Omitted({"reason"})),
   QueueMutationResponse |-> Struct(Required({"changed"}) @@ Defaulted({"not_found"})),
   QueueReleaseRequest |-> Struct(Required({"entry_id"})),
   QueueDropRequest |-> Struct(Required({"entry_id"})),
   QueueReorderRequest |-> Struct(Required({"entry_ids"})),
   QueueReorderResponse |-> Struct(Required({"reordered_count"})),
   QueueMarkAssignedRequest |-> Struct(Required({"entry_id"}) @@ Omitted({"workflow_id"})),
   QueueReleasePendingParams |-> Struct(Required({"entry_id", "reason"})),
   QueueReleasePendingResponse |-> Struct(Required({"entry_id", "status"})),
   QueueCompletionRequest |-> Struct(
     Required({"entry_id", "status"}) @@ Omitted({"workflow_ref", "workflow_id"})),
   QueueNextDeadlineResponse |-> Struct(Omitted({"next_run_at"})),
   QueueCapabilities |-> Struct(
     Defaulted({"priority_weighted", "max_lease_batch", "generation_fenced_leases_v1"}))]

--------------------------------------------------------------------------------
(* animus-workflow-runner-protocol/src/lib.rs                               *)

ReceiptParts ==
  [PublicationSubjectGeneration |-> Closed(Required({"qualified_id", "generation"})),
   PublicationPullRequest |-> Closed(Required({"number", "url", "head_sha"})),
   PublicationReceiptIssuer |-> Tagged("kind", TRUE,
        "runner" :> (Required({"component", "version"}))
     @@ "phase" :> (Required({"phase_id", "component", "version"}))),
   PublicationReceipt |-> Closed(
     Required({"schema", "version", "workflow_id", "workflow_generation", "subject", "commit_sha",
          "tree_sha", "remote", "remote_ref", "observed_remote_sha", "recovery_ref", "issuer",
          "issued_at"}) @@ Omitted({"pull_request"}))]

WorkflowExecuteRequest == Struct(
  Omitted({"workflow_id", "execution_fence", "subject_dispatch", "subject_ref", "task_id",
       "requirement_id", "title", "description", "workflow_ref", "model", "tool",
       "phase_timeout_secs", "phase_filter", "actor"})
  @@ OmittedJson({"input", "phase_routing", "mcp_config"}) @@ Skipped({"vars"}))

WorkflowExecuteResult == Struct(
  Required({"workflow_id", "workflow_ref", "workflow_status", "subject_id", "execution_cwd",
       "phases_requested", "phases_completed", "phases_total", "total_duration_secs",
       "phase_results", "success"}) @@ Json({"post_success"})
  @@ Omitted({"execution_fence", "publication_receipt"}) @@ Defaulted({"phase_events"}))

PhaseResultSnapshot == Struct(
  Required({"phase_id", "status", "duration_secs"}) @@ Json({"outcome", "metadata"})
  @@ Omitted({"publication_receipt", "next_phase_id", "close_reason"}))

PhaseEvent == Tagged("kind", FALSE,
     "started" :> (Required({"phase_id", "attempt", "ts"}))
  @@ "decision" :> (Required({"phase_id", "verdict", "ts"}) @@ Omitted({"confidence"}))
  @@ "completed" :> (Required({"phase_id", "status", "ts"})))

WorkflowPhaseRunRequest == Struct(
  Required({"execution_cwd", "workflow_id", "workflow_ref", "subject_id", "subject_title",
       "subject_description", "phase_id", "phase_attempt"})
  @@ Omitted({"execution_fence", "phase_timeout_secs", "model_override", "tool_override",
       "task_complexity", "rework_context", "dispatch_input", "schedule_input", "actor"})
  @@ OmittedJson({"phase_routing", "mcp_config"}) @@ Skipped({"pipeline_vars"}))

WorkflowPhaseRunResult == Struct(
  Required({"phase_status", "duration_secs"}) @@ Json({"outcome", "metadata"})
  @@ Omitted({"execution_fence", "publication_receipt", "model", "tool"})
  @@ Defaulted({"signals"}))

WorkflowRunnerManifest == Struct(Required({"name", "version", "description", "capabilities"}))

WorkflowRunnerCapabilities == Struct(
  Defaulted({"phase_decision_parsing", "rework_context_support", "post_success_actions",
       "publication_receipt_v1", "execution_fence_v1", "crash_recovery",
       "manual_pause_support"}))

--------------------------------------------------------------------------------
(* animus-environment-protocol/src/lib.rs                                   *)

PrepareParts ==
  [RepoRef |-> Struct(Required({"url"}) @@ Omitted({"name", "git_ref"}) @@ Skipped({"primary"})),
   EnvironmentSpec |-> Struct(
     Required({"kind"}) @@ Omitted({"image"}) @@ OmittedJson({"resources"})
     @@ Skipped({"repos", "env"}) @@ SkippedJson({"metadata"})),
   PrepareRequest |-> Struct(Required({"spec"})),
   PrepareResponse |-> Struct(Required({"handle"})),
   EnvironmentHandle |-> Struct(Required({"id", "workspace_root"}) @@ SkippedJson({"metadata"})),
   HarnessCommand |-> Struct(Required({"program"}) @@ Omitted({"cwd"}) @@ Skipped({"args", "env"}))]

ExecRequest == Struct(Required({"handle", "command"}) @@ Omitted({"stdin", "timeout_secs"}))

ExecResponse == Struct(Omitted({"exit_code"}) @@ Skipped({"stdout", "stderr", "timed_out"}))

ExecSessionRequest == Grown({"workflow_id"}, Struct(
  Required({"handle", "subject_id"})
  @@ Omitted({"workflow_ref", "dispatch_input", "workflow_id", "execution_fence"})))

ExecSessionResponse == Struct(Required({"status"}) @@ Omitted({"workflow_id", "execution_fence"}))

ExecStream == Enum({"stdout", "stderr"}, NoAliases)

ExecNotification == Tagged("kind", FALSE,
     "output" :> (Required({"handle_id", "stream", "text"}))
  @@ "journal" :> (
      Required({"handle_id", "event_kind", "ts"}) @@ Json({"payload"})
      @@ Omitted({"workflow_id", "phase_id", "status"}) @@ Skipped({"terminal"})))

NodeCalls ==
  [TeardownRequest |-> Struct(Required({"handle"})),
   TeardownResponse |-> Struct(NoFields),
   EnvironmentNode |-> Struct(
     Required({"id", "name", "state", "orphan"}) @@ Omitted({"run_id", "image", "created_at"})),
   ListNodesRequest |-> Struct(NoFields),
   ListNodesResponse |-> Struct(Defaulted({"nodes"})),
   GetNodeRequest |-> Struct(Required({"id"})),
   GetNodeResponse |-> Struct(Nullable({"node"})),
   TeardownNodeRequest |-> Struct(Required({"id"})),
   TeardownNodeResponse |-> Struct(Defaulted({"deleted"})),
   ReapRequest |-> Struct(
     Omitted({"older_than_secs", "live_run_ids"}) @@ Skipped({"all", "force", "dry_run"})),
   ReapResponse |-> Struct(Defaulted({"deleted", "kept", "dry_run"}))]

--------------------------------------------------------------------------------
(* animus-durable-store-protocol/src/lib.rs                                 *)

StepCalls ==
  [BeginWorkflowRunRequest |-> Struct(Required({"run_id", "phase_id"}) @@ SkippedJson({"inputs"})),
   BeginWorkflowRunResponse |-> Struct(Required({"epoch"})),
   BeginStepRequest |-> Struct(
     Required({"run_id", "phase_id", "step_name", "idempotency_key"})
     @@ Omitted({"reservation_ttl_secs"}) @@ SkippedJson({"payload"})),
   BeginStepResponse |-> Struct(
     Required({"step_id", "status"}) @@ Omitted({"prior_error", "reservation_expires_at"})
     @@ OmittedJson({"prior_output"})),
   CommitStepRequest |-> Struct(
     Required({"step_id", "outcome"}) @@ Omitted({"error"}) @@ OmittedJson({"output"})),
   StepError |-> Struct(Required({"code", "message"}) @@ SkippedJson({"details"})),
   CommitStepResponse |-> Struct(Required({"ack"})),
   AbandonStepRequest |-> Struct(Required({"step_id"}) @@ Omitted({"reason"})),
   AbandonStepResponse |-> Struct(Required({"ack"})),
   RecoverInFlightRequest |-> Struct(Required({"since_epoch"})),
   RecoverInFlightResponse |-> Struct(Required({"in_flight"}))]

RunQueries ==
  [InFlightRun |-> Struct(
     Required({"run_id", "phase_id"}) @@ Omitted({"last_committed_step"})
     @@ SkippedJson({"replay_state"})),
   QueryRunRequest |-> Struct(Required({"run_id", "phase_id"})),
   QueryRunResponse |-> Struct(Required({"run_id", "phase_id", "status", "steps"})),
   StepRecord |-> Struct(
     Required({"step_id", "step_name", "idempotency_key", "committed_at", "outcome"})
     @@ Omitted({"error"}) @@ OmittedJson({"output"})),
   DurableStoreCapabilities |-> Struct(
     Defaulted({"default_reservation_ttl_secs", "max_payload_bytes", "supports_recovery"}))]

--------------------------------------------------------------------------------
(* animus-journal-protocol/src/lib.rs                                       *)

JournalCalls ==
  [JournalRun |-> Struct(
     Required({"workflow_id", "status"}) @@ Json({"blob"})
     @@ Omitted({"workflow_ref", "kind", "created_at", "updated_at"})),
   SaveParams |-> Struct(Required({"run"})),
   WorkflowIdParams |-> Struct(Required({"workflow_id"})),
   LoadResult |-> Struct(Nullable({"run"})),
   JournalQuery |-> Struct(Omitted({"workflow_ref", "updated_since", "limit"}) @@ Skipped({"status"})),
   ListResult |-> Struct(Required({"runs"}) @@ Defaulted({"truncated"})),
   QueryIdsResult |-> Struct(Required({"ids"}) @@ Defaulted({"truncated"})),
   CheckpointSaveParams |-> Struct(Required({"workflow_id", "checkpoint_num"}) @@ Json({"blob"})),
   CheckpointLoadParams |-> Struct(Required({"workflow_id", "checkpoint_num"})),
   CheckpointLoadResult |-> Struct(NullableJson({"blob"})),
   CheckpointListResult |-> Struct(Required({"checkpoint_nums"})),
   CheckpointPruneParams |-> Struct(Required({"workflow_id", "keep"})),
   JournalEvent |-> Struct(
     Required({"run_id", "kind", "ts"}) @@ Omitted({"workflow_ref", "phase", "agent", "status"})
     @@ SkippedJson({"detail"})),
   JournalEventKind |-> Enum(
     {"run_started", "phase_started", "phase_completed", "run_completed", "run_failed"},
     NoAliases),
   RecordParams |-> Struct(Required({"event"}))]

JournalEventCalls ==
  [EventQuery |-> Struct(Omitted({"run_id", "since", "limit"})),
   EventsResult |-> Struct(Required({"events"}) @@ Defaulted({"truncated"})),
   JournalSchema |-> Struct(
     Required({"supports_checkpoints", "supports_events", "supports_filtering"})),
   JournalError |-> Tagged("", FALSE,
        "NotFound" :> (Required({"NotFound"}))
     @@ "MethodNotSupported" :> (Required({"MethodNotSupported"}))
     @@ "Internal" :> (Required({"Internal"})))]

--------------------------------------------------------------------------------
(* animus-memory-store-protocol/src/lib.rs                                  *)

MemoryCalls ==
  [MemoryScope |-> Struct(Required({"project_id"}) @@ Omitted({"agent_id", "task_id"})),
   PutMemoryRequest |-> Struct(Required({"scope", "key"}) @@ Json({"value"}) @@ Omitted({"ttl_secs"})),
   PutMemoryResponse |-> Struct(Required({"ack", "indexed_immediately"}) @@ Skipped({"record_id"})),
   GetMemoryRequest |-> Struct(Required({"scope", "key"})),
   GetMemoryResponse |-> Struct(Required({"found"}) @@ OmittedJson({"value"})),
   QueryMemoryRequest |-> Struct(Required({"scope", "query", "top_k"})),
   QueryMemoryResponse |-> Struct(Required({"results"})),
   MemoryQueryResult |-> Struct(Required({"key", "score"}) @@ Json({"value"})),
   ListScopesRequest |-> Struct(Omitted({"project_id", "cursor", "page_size"})),
   ListScopesResponse |-> Struct(Required({"scopes"}) @@ Omitted({"next_cursor"})),
   DeleteScopeRequest |-> Struct(Required({"scope"})),
   DeleteScopeResponse |-> Struct(Required({"ack"}))]

MemoryStoreCapabilities == Struct(
  Defaulted({"native_ttl", "native_key_get", "strong_consistency", "max_query_top_k"}))

--------------------------------------------------------------------------------
(* animus-log-storage-protocol/src/lib.rs                                   *)

LogEntry == Struct(
  Required({"id", "ts", "level", "source", "target", "message"}) @@ Omitted({"source_name"})
  @@ SkippedJson({"fields"}))

LogParts ==
  [LogLevel |-> Enum({"trace", "debug", "info", "warn", "error"}, NoAliases),
   LogSource |-> Enum({"daemon", "plugin", "cli", "workflow"}, NoAliases),
   LogQuery |-> Struct(
     Omitted({"min_level", "source", "source_name", "target_glob", "since", "until", "limit",
          "cursor"}) @@ Defaulted({"follow"})),
   LogQueryResult |-> Struct(Required({"entries"}) @@ Omitted({"next_cursor"}))]

LogStorageSchema == Struct(
  Required({"supports_query", "supports_tail", "supports_dedup", "supports_filtering"})
  @@ Omitted({"max_query_window", "retention_hint"}))

SupportsFiltering == Struct(
  Defaulted({"by_level", "by_source", "by_target", "by_time_range", "by_glob"}))

--------------------------------------------------------------------------------
(* animus-notifier-protocol/src/lib.rs                                      *)

DaemonEventRecord == Struct(
  Required({"schema", "id", "timestamp", "event_type"}) @@ Json({"data"})
  @@ Omitted({"project_root"}) @@ Defaulted({"seq"}))

NotifierCalls ==
  [NotifierNotifyParams |-> Struct(Required({"event"})),
   NotifierNotifyResult |-> Struct(
     Required({"accepted"}) @@ Defaulted({"delivered", "lifecycle_events"})),
   NotifierLifecycleEvent |-> Struct(
     Required({"event_type"}) @@ Json({"data"}) @@ Omitted({"project_root"})),
   NotifierFlushParams |-> Struct(Omitted({"project_root"})),
   NotifierFlushResult |-> Struct(Defaulted({"lifecycle_events"})),
   NotifierSchema |-> Struct(Required({"connector_kinds", "supports_flush"}))]

--------------------------------------------------------------------------------
(* animus-transport-protocol/src/lib.rs                                     *)

TransportConfig == Struct(
  Required({"control_socket_path", "project_root"}) @@ Omitted({"bind_addr"})
  @@ SkippedJson({"config"}))

TransportInfo == Struct(Required({"bound_addr", "started_at"}))

TransportSchema == Struct(
  Required({"kinds", "supports_streaming", "supports_websocket"}) @@ Omitted({"default_port"}))

--------------------------------------------------------------------------------
(* animus-trigger-protocol/src/lib.rs                                       *)

TriggerEvent == Struct(
  Required({"id", "occurred_at", "kind"}) @@ Json({"payload"})
  @@ Omitted({"subject_id", "action_hint"}))

TriggerSchema == Struct(Required({"kinds", "supports_resume", "supports_dedup", "supports_ack"}))

--------------------------------------------------------------------------------
Declared == {QueueLeaseResponse, QueueEnqueueV2Request, QueueEnqueueV2Response,
  FencedQueueEntry, QueueLeaseV2Request, QueueLeaseRecoverRequest, QueueLeaseMutationOutcome,
  QueueLeaseMutationResponse, QueueCompletionV2Request, QueueReleasePendingV2Request,
  WorkflowExecuteRequest, WorkflowExecuteResult, PhaseResultSnapshot, PhaseEvent,
  WorkflowPhaseRunRequest, WorkflowPhaseRunResult, WorkflowRunnerManifest,
  WorkflowRunnerCapabilities, ExecRequest, ExecResponse, ExecSessionRequest,
  ExecSessionResponse, ExecStream, ExecNotification, MemoryStoreCapabilities, LogEntry,
  LogStorageSchema, SupportsFiltering, DaemonEventRecord, TransportConfig, TransportInfo,
  TransportSchema, TriggerEvent, TriggerSchema}
  \cup UNION {Members(QueueCalls), Members(LeaseParts), Members(QueueEntryCalls),
    Members(ReceiptParts), Members(PrepareParts), Members(NodeCalls), Members(StepCalls),
    Members(RunQueries), Members(JournalCalls), Members(JournalEventCalls),
    Members(MemoryCalls), Members(LogParts), Members(NotifierCalls)}
================================================================================
