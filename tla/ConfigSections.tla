----------------------------- MODULE ConfigSections -----------------------------
(* The sections of a workflow configuration that sources declare: lists of   *)
(* things with an id, and maps.                                              *)

Lists == {"workflows", "schedules", "triggers"}
Maps == {"phase_catalog", "phase_definitions", "agent_channels", "mcp_servers",
         "phase_mcp_bindings", "tools", "secrets", "workspaces", "integrations", "daemon"}

Empty == [x \in {} |-> x]
=================================================================================
