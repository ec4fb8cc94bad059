----------------------------- MODULE WirePlugins ------------------------------
(***************************************************************************)
(* Types of plugins, their manifests and handshake, of subjects, providers,*)
(* the application's chat and the identity a call is made under.           *)
(***************************************************************************)
EXTENDS Wire

--------------------------------------------------------------------------------
(* animus-plugin-protocol/src/lib.rs                                        *)

RpcRequest == Struct(Required({"jsonrpc", "method"}) @@ OmittedJson({"id", "params"}))

RpcNotification == Struct(Required({"jsonrpc", "method"}) @@ OmittedJson({"params"}))

RpcResponse == Struct(
  Required({"jsonrpc"}) @@ Omitted({"error"}) @@ OmittedJson({"id", "result"}))

RpcError == Struct(Required({"code", "message"}) @@ OmittedJson({"data"}))

HostInfo == Struct(Required({"name", "version"}))

PluginInfo == Grown({"plugin_kinds"}, Struct(
  Required({"name", "version", "plugin_kind"}) @@ Omitted({"description"})
  @@ Skipped({"plugin_kinds"})))

HandshakeParts ==
  [HostCapabilities |-> Struct(Defaulted({"streaming", "progress", "cancellation"})),
   PluginCapabilities |-> Struct(
     Defaulted({"methods", "streaming", "progress", "cancellation"})
     @@ Skipped({"projections", "subject_kinds", "mcp_tools"})),
   McpTool |-> Struct(Required({"name"}) @@ Omitted({"description"}) @@ OmittedJson({"input_schema"})),
   InitializeParams |-> Grown({"init_extensions"}, Struct(
     Required({"protocol_version", "host_info", "capabilities"}) @@ Skipped({"init_extensions"}))),
   InitializeResult |-> Grown({"kind_capabilities"}, Struct(
     Required({"protocol_version", "plugin_info", "capabilities"})
     @@ Skipped({"kind_capabilities"}))),
   KindCapability |-> Struct(Required({"crate_version"}) @@ SkippedJson({"extra"}))]

\* Faulty variant: skip_serializing_if without default.
PluginManifestUnread == Struct(
  Required({"name", "version", "plugin_kind", "description", "protocol_version"})
  @@ Omitted({"notification_buffer_size", "supports_mcp"}) @@ Defaulted({"capabilities"})
  @@ Each({"plugin_kinds", "env_required"}, [Kept EXCEPT !.omits = {"empty"}]))

PluginManifest == Grown({"plugin_kinds", "env_required", "supports_mcp"}, Struct(
  Required({"name", "version", "plugin_kind", "description", "protocol_version"})
  @@ Omitted({"notification_buffer_size", "supports_mcp"}) @@ Defaulted({"capabilities"})
  @@ Skipped({"plugin_kinds", "env_required"})))

HealthAndTriggerParts ==
  [EnvRequirement |-> Struct(
     Required({"name"}) @@ Omitted({"description"}) @@ Defaulted({"sensitive", "required"})),
   HealthStatus |-> Enum({"healthy", "degraded", "unhealthy"}, NoAliases),
   HealthCheckResult |-> Struct(
     Required({"status"}) @@ Omitted({"uptime_ms", "memory_usage_bytes", "last_error"})),
   TriggerWatchParams |-> Struct(OmittedJson({"cursor", "config"})),
   TriggerEvent |-> Struct(
     Required({"event_id"}) @@ Omitted({"trigger_id", "subject_id", "subject_kind", "action_hint"})
     @@ DefaultedJson({"payload"}))]

TriggerAckParams == Struct(Required({"event_id"}) @@ Omitted({"status"}))

--------------------------------------------------------------------------------
(* animus-subject-protocol/src/lib.rs                                       *)

SubjectStatus == Enum({"ready", "in-progress", "blocked", "done", "cancelled"}, NoAliases)

Subject == Grown({"status_metadata", "attachments"}, Struct(
  Required({"id", "kind", "title", "status", "created_at", "updated_at"})
  @@ Omitted({"description", "priority", "assignee", "parent", "url", "native_status"})
  @@ Skipped({"labels", "children", "custom", "attachments"})
  @@ SkippedJson({"status_metadata"})))

SubjectAttachment == Struct(
  Required({"id", "kind", "uri"}) @@ Omitted({"title", "mime_type"})
  @@ SkippedJson({"metadata"}))

SubjectFilter == Struct(
  Omitted({"updated_since", "cursor", "limit", "native_status", "dispatch_label",
       "has_attachment_kind"})
  @@ Skipped({"status", "kind", "assignee", "labels_any", "labels_all"}))

SubjectList == Struct(Required({"subjects", "fetched_at"}) @@ Omitted({"next_cursor"}))

SubjectRequestContext == Struct(
  Required({"actor"}) @@ Omitted({"request_id", "correlation_id", "idempotency_key"}))

SubjectCallsV2 ==
  [SubjectListRequestV2 |-> Struct(Required({"context"}) @@ Defaulted({"filter"})),
   SubjectGetRequestV2 |-> Struct(Required({"context", "id"})),
   SubjectCreateRequestV2 |-> Struct(
     Required({"context"}) @@ Omitted({"kind"}) @@ DefaultedJson({"payload"})),
   SubjectUpdateRequestV2 |-> Struct(Required({"context", "id"}) @@ DefaultedJson({"patch"})),
   SubjectStatusRequestV2 |-> Struct(Required({"context", "id", "status"})),
   SubjectDeleteRequestV2 |-> Struct(Required({"context", "id"}))]

SubjectPatch == Struct(
  Omitted({"status", "comment"}) @@ Skipped({"labels_add", "labels_remove", "custom"})
  @@ Doubled({"assignee"}))

SubjectSchemaParts ==
  [DeleteSubjectRequest |-> Struct(Required({"id"})),
   SubjectUnwatchRequest |-> Struct(Required({"watch_id"})),
   DeleteSubjectResponse |-> Struct(Required({"ok"})),
   SubjectSchema |-> Grown({"supports_delete"}, Struct(
     Required({"kinds", "status_values", "supports_watch", "supports_create",
          "supports_pagination"}) @@ Defaulted({"supports_delete"})
     @@ Skipped({"native_status_values", "status_dispatch_hints", "custom_fields"}))),
   StatusDispatchHint |-> Struct(
     Required({"native_status", "maps_to"}) @@ Omitted({"dispatch_label", "description"})),
   CustomFieldSpec |-> Struct(Required({"key", "type"}) @@ Omitted({"values"})),
   CustomFieldKind |-> Enum({"string", "number", "bool", "enum", "date"}, NoAliases)]

SubjectChangedEvent == Grown({"previous_native_status"}, Struct(
  Required({"id", "change_kind", "subject"})
  @@ Omitted({"previous_native_status", "previous_dispatch_label"})))

ChangeKind == Enum(
  {"created", "updated", "status-changed", "deleted", "dispatch-label-changed",
       "attachment-added", "attachment-removed"},
  NoAliases)

--------------------------------------------------------------------------------
(* animus-provider-protocol/src/lib.rs                                      *)

ProviderManifest == Struct(
  Required({"name", "version", "description", "supported_models", "tool", "capabilities"}))

ProviderCapabilities == Struct(
  Defaulted({"streaming", "resume", "cancellation", "write_capable", "mcp"}))

AgentRunRequest == Open(
  Required({"prompt", "cwd"})
  @@ Omitted({"session_id", "model", "system_prompt", "project_root", "permission_mode",
       "timeout_secs"})
  @@ OmittedJson({"mcp_servers", "tools", "response_schema", "runtime_contract"})
  @@ Skipped({"env"}))

AgentCancelRequest == Struct(Required({"session_id"}))

InteractionParts ==
  [InteractionRequestedParams |-> Struct(
     Required({"interaction_id", "session_id", "kind"}) @@ Omitted({"expires_at"})
     @@ Defaulted({"payload"})),
   InteractionRequestPayload |-> Struct(
     Omitted({"action", "tool_name", "question", "options"}) @@ OmittedJson({"arguments"})),
   AgentRespondParams |-> Struct(Required({"interaction_id", "session_id", "response"})),
   InteractionResponse |-> Struct(Omitted({"decision", "answer", "message"})),
   AgentRespondResult |-> Struct(Required({"accepted"})),
   AgentRunResponse |-> Struct(
     Required({"session_id", "exit_code", "output", "duration_ms", "backend"})
     @@ Omitted({"tokens_used"}) @@ OmittedJson({"decision_verdict"})
     @@ Skipped({"metadata", "tool_calls", "tool_results", "thinking", "errors"})),
   TokenUsage |-> Struct(Required({"input", "output"}) @@ Omitted({"cached", "cache_writes"}))]

AgentNotification == Tagged("kind", FALSE,
     "output" :> (Required({"session_id", "text"}) @@ Defaulted({"is_final"}))
  @@ "thinking" :> (Required({"session_id", "text"}))
  @@ "toolCall" :> (
      Required({"session_id", "name"}) @@ Json({"arguments"}) @@ Omitted({"server"}))
  @@ "toolResult" :> (Required({"session_id", "name", "success"}) @@ Json({"output"}))
  @@ "error" :> (Required({"session_id", "message", "recoverable"}))
  @@ "interactionRequested" :> (
      Required({"session_id", "interaction_id", "interaction_kind"}) @@ Omitted({"expires_at"})
      @@ Defaulted({"payload"})))

--------------------------------------------------------------------------------
(* animus-plugin-runtime/src/lib.rs                                         *)

AgentRunParams == Open(
  Required({"prompt", "cwd"})
  @@ Nullable({"session_id", "model", "project_root", "system_prompt", "permission_mode",
       "timeout_secs", "claude_profile"})
  @@ NullableJson({"mcp_servers", "tools", "response_schema", "runtime_contract"})
  @@ Defaulted({"env"}))

AgentCancelParams == Struct(Required({"session_id"}))

--------------------------------------------------------------------------------
(* animus-plugin-runtime/src/subject.rs                                     *)

GetRequest == Struct(Required({"id"}))

UpdateRequest == Struct(Required({"id", "patch"}))

DeleteRequest == Struct(Required({"id"}))

ListRequest == Struct(SubjectFilter.fields)

--------------------------------------------------------------------------------
(* animus-execution-protocol/src/lib.rs                                     *)

SubjectGeneration == Closed(Required({"qualified_id", "generation"}))

RepositoryReservation == Closed(Required({"repository", "base_ref", "head_ref"}))

QueueLeaseFence == Closed(Required({"entry_id", "owner_id", "generation", "expires_at"}))

ExecutionFence == Closed(
  Required({"schema", "version", "workflow_id", "workflow_generation"})
  @@ Omitted({"subject", "queue_lease", "repository"}))

--------------------------------------------------------------------------------
(* animus-application-protocol/src/lib.rs                                   *)

ApplicationParts ==
  [AllowedAction |-> Enum({"read", "inspect", "launch", "stream", "send", "respond"}, NoAliases),
   ApplicationResourceKind |-> Enum(
     {"agent", "chat", "workflow", "run", "subject", "queue_entry", "operation", "interaction"},
     NoAliases),
   ResourceVisibility |-> Enum({"private", "org", "public"}, NoAliases),
   ApplicationChatControlsSchema |-> Enum({"animus.chat.application_controls.v1"}, NoAliases),
   ApplicationReasoningEffort |-> Enum({"low", "medium", "high"}, NoAliases),
   ApplicationPermissionIntent |-> Enum({"default", "review", "auto_edit", "unrestricted"}, NoAliases)]

ApplicationChatControls == Closed(
  Required({"schema"})
  @@ NonNull({"approvals", "reasoning_effort", "permission_intent", "profile_ref", "skill_ref"}))

AllowedApplicationChatControls == Closed(
  Required({"schema"})
  @@ Defaulted({"approvals", "reasoning_effort", "permission_intent", "profile_ref",
       "skill_ref"}))

ApplicationChatTurnStatus == Enum(
  {"completed", "assistant_failed", "assistant_interrupted"},
  NoAliases)

ChatReceiptParts ==
  [ApplicationChatReceiptFrame |-> Tagged("type", TRUE,
        "user_message_accepted" :> (
         Required({"status", "conversation_id", "seq", "message_id", "operation_id"}))
     @@ "turn_completed" :> (
         Required({"status", "conversation_id", "seq", "message_id", "user_seq",
              "user_message_id", "operation_id"}) @@ Nullable({"session_id"}))
     @@ "turn_failed" :> (
         Required({"status", "conversation_id", "user_seq", "user_message_id", "operation_id",
              "error_code", "error_message"}))),
   UserAcceptedStatus |-> Enum({"user_accepted"}, NoAliases),
   CompletedStatus |-> Enum({"completed"}, NoAliases),
   ApplicationChatFailureStatus |-> Enum({"assistant_failed", "assistant_interrupted"}, NoAliases)]

--------------------------------------------------------------------------------
(* animus-channel-protocol/src/lib.rs                                       *)

ChannelParts ==
  [ChannelVersion |-> Enum({"animus.channel.v1"}, NoAliases),
   ChannelScope |-> Closed(Required({"tenant_id", "connection_id"})),
   ChannelMessage |-> Closed(
     Required({"schema", "scope", "message_id", "peer_id", "occurred_at", "text"})),
   ChannelReceiveResult |-> Closed(Required({"schema", "duplicate"})),
   ChannelSendParams |-> Closed(
     Required({"schema", "scope", "delivery_id", "peer_id", "text"}) @@ Omitted({"reply_to"})),
   ChannelDeliveryState |-> Enum(
     {"queued", "sending", "accepted", "delivered", "read", "failed", "unknown"},
     NoAliases),
   ChannelStatusParams |-> Closed(Required({"schema", "scope", "delivery_id"})),
   ChannelDelivery |-> Closed(
     Required({"schema", "scope", "delivery_id", "state"})
     @@ Omitted({"provider_message_id", "error_code"})),
   ChannelSchema |-> Closed(
     Required({"schema", "providers", "supports_text", "supports_media", "supports_templates",
          "supports_delivery_status", "supports_durable_receive"}))]

--------------------------------------------------------------------------------
(* animus-actor/src/lib.rs                                                  *)

Actor == Struct(Required({"user_id"}) @@ Omitted({"tenant_id"}) @@ Skipped({"claims"}))

--------------------------------------------------------------------------------
Declared == {RpcRequest, RpcNotification, RpcResponse, RpcError, HostInfo, PluginInfo,
  PluginManifest, TriggerAckParams, SubjectStatus, Subject, SubjectAttachment, SubjectFilter,
  SubjectList, SubjectRequestContext, SubjectPatch, SubjectChangedEvent, ChangeKind,
  ProviderManifest, ProviderCapabilities, AgentRunRequest, AgentCancelRequest,
  AgentNotification, SubjectGeneration, RepositoryReservation, QueueLeaseFence, ExecutionFence,
  ApplicationChatControls, AllowedApplicationChatControls, ApplicationChatTurnStatus, Actor}
  \cup UNION {Members(HandshakeParts), Members(HealthAndTriggerParts), Members(SubjectCallsV2),
    Members(SubjectSchemaParts), Members(InteractionParts), Members(ApplicationParts),
    Members(ChatReceiptParts), Members(ChannelParts)}
================================================================================
