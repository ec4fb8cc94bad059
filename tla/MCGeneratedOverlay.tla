--------------------------- MODULE MCGeneratedOverlay ---------------------------
(* A phase in two spellings and another, of each mode; pipelines with every *)
(* kind of entry; files as the commands, an older version and people leave *)
(* them, of which one cannot be read and one cannot be converted.          *)
EXTENDS TLC

CONSTANT None

MCFolded ==
  [t \in {"impl", "ship", "std", "own", "skip", "auto", "required", "project_root", "task_root",
          "path", "old", "workflow_ref"} |-> t]
  @@ ("Impl" :> "impl") @@ ("Std" :> "std") @@ (" Skip" :> "skip") @@ ("task-root" :> "task_root")
  @@ ("maybe" :> "maybe")

Phase(mode) ==
  [mode |-> mode, agent_id |-> None, command |-> None, manual |-> None, worktree |-> None,
   evals |-> None, rest |-> 1]
Kept == [mode |-> "required", cleanup |-> FALSE, base_ref |-> "main"]
Agent == [Phase("agent") EXCEPT !.agent_id = "dev", !.worktree = Kept, !.evals = "checks"]
Shell ==
  [Phase("command") EXCEPT
     !.command = [cwd_mode |-> "TaskRoot", success_exit_codes |-> <<0, 3>>, parse_json_output |-> TRUE,
                  rest |-> 2]]
Manual == [Phase("manual") EXCEPT !.manual = [approval_note_required |-> TRUE, rest |-> 3]]

Put(id, definition, entry) == [verb |-> "phase", id |-> id, definition |-> definition, entry |-> entry]
Remove(id) == [verb |-> "remove", id |-> id]
Pipeline(id, phases, worktree) ==
  [id |-> id, name |-> "named", description |-> "", phases |-> phases, worktree |-> worktree, rest |-> 4]
Simple(id) == [kind |-> "simple", id |-> id]
Rich(id) == [kind |-> "rich", id |-> id, config |-> 5]
Entries == <<Simple("impl"), Rich("workflow_ref"), [kind |-> "sub", workflow_ref |-> "std"], Rich("ship")>>
PutPipeline(definition) == [verb |-> "pipeline", definition |-> definition]

MCCommands ==
  {Put("impl", Agent, None), Put("Impl", Shell, "entry"), Put("impl", Manual, "entry"),
   Put("ship", Agent, "other"), Remove("Impl"), Remove("old"),
   PutPipeline(Pipeline("std", Entries, Kept)), PutPipeline(Pipeline("Std", <<>>, None)),
   PutPipeline(Pipeline("own", <<Simple("ship")>>, None))}

\* A configuration of an older version, with a label for a phase it does not define.
MCDumped ==
  {[phase_definitions |-> "Impl" :> Shell, phase_catalog |-> ("Impl" :> "label") @@ ("old" :> "label"),
    workflows |-> <<Pipeline("own", Entries, None), Pipeline("Std", Entries, Kept)>>, others |-> {"secrets"}]}

File(phases, catalog, workflows) ==
  [phases |-> phases, phase_catalog |-> catalog, workflows |-> workflows, others |-> {}]
None1 == [key \in {} |-> None]
Short(worktree) ==
  "ship" :> [mode |-> "command", rest |-> 6, worktree |-> worktree,
             command |-> [cwd_mode |-> "task-root", rest |-> 7]]
MCByHand ==
  {File(Short([bool |-> FALSE]) @@ ("impl" :> [mode |-> "agent", rest |-> 8]), "ship" :> "label", <<>>),
   File(Short([string |-> " Skip"]), None1, <<[id |-> "std", phases |-> <<[string |-> "ship"]>>, rest |-> 9]>>),
   File(Short([string |-> "maybe"]), None1, <<>>),
   File("ship" :> [mode |-> "agent", rest |-> 6, command |-> [rest |-> 7]], None1, <<>>)}
================================================================================
