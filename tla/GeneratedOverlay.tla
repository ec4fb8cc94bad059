---------------------------- MODULE GeneratedOverlay ----------------------------
(***************************************************************************)
(* The files that the authoring commands keep under .animus/workflows:     *)
(* animus-config-protocol, overlay.rs, with the conversions between YAML and *)
(* the configuration that yaml_parser.rs and yaml_types.rs have for them.  *)
(* Commands come one after another, and each reads a file, changes it and  *)
(* writes it whole.                                                        *)
(*                                                                         *)
(* A node of YAML is a record of one field that names its kind: [bool |-> b], *)
(* [string |-> s] or [map |-> m]. A YAML map holds the keys that are written; *)
(* an absent option of a definition is None. What is passed on as it is (the *)
(* other settings of a phase or a pipeline) is one value, `rest`.          *)
(***************************************************************************)
EXTENDS Integers, SequencesExt

CONSTANTS
  None,
  Folded,      \* Folded[text]: trimmed, in lower case, of a cwd_mode with _ for -
  Commands,    \* the commands there may be
  Dumped,      \* configurations that an older version wrote out whole
  ByHand,      \* files written by hand
  MaxCommands  \* bound

VARIABLES
  files,    \* name -> the YAML in it, or None
  found,    \* the files as they were before the first command
  commands  \* those that were run, each with its outcome
vars == <<files, found, commands>>

Files == {"generated-workflow.yaml", "generated-runtime.yaml"}
Workflow == "generated-workflow.yaml"
Runtime == "generated-runtime.yaml"

\* YamlWorkflowFile::default()
NoKeys == [key \in {} |-> None]
EmptyFile == [phases |-> NoKeys, phase_catalog |-> NoKeys, workflows |-> <<>>, others |-> {}]

Key(key, value) == [k \in (IF value = None THEN {} ELSE {key}) |-> value]
Get(map, key) == IF key \in DOMAIN map THEN map[key] ELSE None
Is(node, kind) == kind \in DOMAIN node
Same(id, other) == Folded[id] = Folded[other]
\* BTreeMap::retain(|existing, _| !existing.eq_ignore_ascii_case(id))
Retain(map, id) == [k \in {k \in DOMAIN map : ~Same(k, id)} |-> map[k]]

--------------------------------------------------------------------------------
(* Worktrees: a map, or one of two shorthands.                             *)

WorktreeModes == {"auto", "required", "skip"}
Default(mode) == [mode |-> mode, cleanup |-> TRUE, base_ref |-> None]

WorktreeParses(node) ==
  \/ Is(node, "bool")
  \/ Is(node, "string") /\ Folded[node.string] \in WorktreeModes
  \/ Is(node, "map")

WorktreeFrom(node) ==
  IF Is(node, "bool") THEN Default(IF node.bool THEN "auto" ELSE "skip")
  ELSE IF Is(node, "string") THEN Default(Folded[node.string])
  ELSE node.map

WorktreeTo(worktree) == [map |-> worktree]

Optional(map, key, From(_)) == IF key \in DOMAIN map THEN From(map[key]) ELSE None
Option(value, To(_)) == IF value = None THEN None ELSE To(value)

--------------------------------------------------------------------------------
(* Phases.                                                                 *)

CwdMode == [project_root |-> "ProjectRoot", task_root |-> "TaskRoot", path |-> "Path"]
CwdName == [ProjectRoot |-> "project_root", TaskRoot |-> "task_root", Path |-> "path"]

CommandFrom(yaml) ==
  [cwd_mode |-> IF Is(yaml, "cwd_mode") THEN CwdMode[Folded[yaml.cwd_mode]] ELSE "ProjectRoot",
   success_exit_codes |-> IF Is(yaml, "success_exit_codes") THEN yaml.success_exit_codes ELSE <<0>>,
   parse_json_output |-> IF Is(yaml, "parse_json_output") THEN yaml.parse_json_output ELSE FALSE,
   rest |-> yaml.rest]

\* Of a command, as of a manual block, every field is written.
CommandTo(command) == [command EXCEPT !.cwd_mode = CwdName[@]]

ManualFrom(yaml) ==
  [approval_note_required |->
     IF Is(yaml, "approval_note_required") THEN yaml.approval_note_required ELSE FALSE,
   rest |-> yaml.rest]

\* yaml_phase_to_execution_definition refuses a block of another mode, a mode
\* without its block, and a cwd_mode it does not know.
PhaseConverts(yaml) ==
  /\ yaml.mode = "command" <=> Is(yaml, "command")
  /\ yaml.mode = "manual" <=> Is(yaml, "manual")
  /\ Is(yaml, "command") /\ Is(yaml.command, "cwd_mode") =>
       Folded[yaml.command.cwd_mode] \in DOMAIN CwdMode

PhaseFrom(yaml) ==
  [mode |-> yaml.mode,
   agent_id |-> Get(yaml, "agent"),
   command |-> Optional(yaml, "command", CommandFrom),
   manual |-> Optional(yaml, "manual", ManualFrom),
   worktree |-> Optional(yaml, "worktree", WorktreeFrom),
   evals |-> Get(yaml, "evals"),
   rest |-> yaml.rest]

PhaseTo(definition) ==
  [mode |-> definition.mode, rest |-> definition.rest]
  @@ Key("agent", definition.agent_id)
  @@ Key("command", Option(definition.command, CommandTo))
  @@ Key("manual", definition.manual)
  @@ Key("worktree", Option(definition.worktree, WorktreeTo))
  @@ Key("evals", definition.evals)

--------------------------------------------------------------------------------
(* Pipelines: each entry is a phase, a phase with its settings under its id, *)
(* or a reference to another workflow.                                     *)

IsReference(node) ==
  Is(node, "map") /\ DOMAIN node.map = {"workflow_ref"} /\ Is(node.map.workflow_ref, "string")
IsRich(node) ==
  Is(node, "map") /\ Cardinality(DOMAIN node.map) = 1 /\ \A id \in DOMAIN node.map : Is(node.map[id], "map")

EntryParses(node) == Is(node, "string") \/ IsReference(node) \/ IsRich(node)

EntryFrom(node) ==
  IF Is(node, "string") THEN [kind |-> "simple", id |-> node.string]
  ELSE IF IsReference(node) THEN [kind |-> "sub", workflow_ref |-> node.map.workflow_ref.string]
  ELSE LET id == CHOOSE id \in DOMAIN node.map : TRUE
       IN  [kind |-> "rich", id |-> id, config |-> node.map[id].map]

EntryTo(entry) ==
  CASE entry.kind = "simple" -> [string |-> entry.id]
    [] entry.kind = "sub" -> [map |-> Key("workflow_ref", [string |-> entry.workflow_ref])]
    [] entry.kind = "rich" -> [map |-> Key(entry.id, [map |-> entry.config])]

PipelineFrom(yaml) ==
  [id |-> yaml.id,
   name |-> IF Is(yaml, "name") THEN yaml.name ELSE yaml.id,
   description |-> IF Is(yaml, "description") THEN yaml.description ELSE "",
   phases |-> [i \in DOMAIN yaml.phases |-> EntryFrom(yaml.phases[i])],
   worktree |-> Optional(yaml, "worktree", WorktreeFrom),
   rest |-> yaml.rest]

PipelineTo(definition) ==
  [id |-> definition.id, name |-> definition.name, description |-> definition.description,
   phases |-> [i \in DOMAIN definition.phases |-> EntryTo(definition.phases[i])],
   rest |-> definition.rest]
  @@ Key("worktree", Option(definition.worktree, WorktreeTo))

\* workflow_config_to_yaml_file, of all the configuration there is.
ConfigTo(config) ==
  [phases |-> [id \in DOMAIN config.phase_definitions |-> PhaseTo(config.phase_definitions[id])],
   phase_catalog |-> config.phase_catalog,
   workflows |-> [i \in DOMAIN config.workflows |-> PipelineTo(config.workflows[i])],
   others |-> config.others]

--------------------------------------------------------------------------------
(* The files. One that serde cannot read makes the command an error.       *)

Contents(name) == IF files[name] = None THEN EmptyFile ELSE files[name]

FileParses(file) ==
  file # None =>
    /\ \A id \in DOMAIN file.phases :
         Is(file.phases[id], "worktree") => WorktreeParses(file.phases[id].worktree)
    /\ \A i \in DOMAIN file.workflows :
         /\ Is(file.workflows[i], "worktree") => WorktreeParses(file.workflows[i].worktree)
         /\ \A e \in DOMAIN file.workflows[i].phases : EntryParses(file.workflows[i].phases[e])

\* read_generated_workflow_authored_blocks
AuthoredBlocks == [Contents(Workflow) EXCEPT !.others = {}]


WithPhase(file, command) ==
  [file EXCEPT !.phases = Key(command.id, PhaseTo(command.definition)) @@ Retain(@, command.id),
               !.phase_catalog = Key(command.id, command.entry) @@ @]

WithPipeline(file, pipeline) ==
  LET same == {i \in DOMAIN file.workflows : Same(file.workflows[i].id, pipeline.id)}
  IN  [file EXCEPT !.workflows = IF same = {} THEN Append(@, PipelineTo(pipeline))
                                 ELSE [@ EXCEPT ![Min(same)] = PipelineTo(pipeline)]]

Holds(map, id) == \E existing \in DOMAIN map : Same(existing, id)

Pruned(name, id) ==
  IF files[name] = None THEN None
  ELSE [files[name] EXCEPT !.phases = Retain(@, id), !.phase_catalog = Retain(@, id)]

\* generated_workflow_phase_is_defined
IsDefined(id) == \E name \in Files : Holds(Contents(name).phases, id)

\* What remove_generated_workflow_phase answers.
Removes(id) ==
  \E name \in Files : Holds(Contents(name).phases, id) \/ Holds(Contents(name).phase_catalog, id)

--------------------------------------------------------------------------------
Init ==
  /\ files \in [Files -> {None} \cup ByHand \cup {ConfigTo(config) : config \in Dumped}]
  /\ found = files
  /\ commands = <<>>

Done(command, ok) ==
  /\ Len(commands) < MaxCommands
  /\ commands' = Append(commands, [command |-> command, ok |-> ok])
  /\ UNCHANGED found

Rewrite(file, command) ==
  LET ok == FileParses(files[Workflow]) IN
  /\ files' = IF ok THEN [files EXCEPT ![Workflow] = file] ELSE files
  /\ Done(command, ok)

UpsertPhase(command) == command.verb = "phase" /\ Rewrite(WithPhase(AuthoredBlocks, command), command)

UpsertPipeline(command) ==
  command.verb = "pipeline" /\ Rewrite(WithPipeline(AuthoredBlocks, command.definition), command)

\* The files one after the other: an error at the second leaves the first pruned.
RemovePhase(command) ==
  LET first == FileParses(files[Workflow])
      second == first /\ FileParses(files[Runtime])
  IN  /\ command.verb = "remove"
      /\ files' = [name \in Files |->
                     IF IF name = Workflow THEN first ELSE second
                       THEN Pruned(name, command.id) ELSE files[name]]
      /\ Done(command, second)

Next ==
  \E command \in Commands : UpsertPhase(command) \/ UpsertPipeline(command) \/ RemovePhase(command)

Spec == Init /\ [][Next]_vars

--------------------------------------------------------------------------------
(* Properties.                                                             *)

Loads(all) ==
  \A name \in Files :
    FileParses(all[name])
    /\ (all[name] # None =>
          \A id \in DOMAIN all[name].phases : PhaseConverts(all[name].phases[id]))

\* No command makes a project that could be loaded one that cannot.
StillLoads == Loads(found) => Loads(files)

PhasesOf(all, name) ==
  IF all[name] = None THEN NoKeys
  ELSE [id \in DOMAIN all[name].phases |-> PhaseFrom(all[name].phases[id])]

\* As the sources are merged, by their names in alphabetical order and by keys as
\* they are spelled.
LoadedPhases(all) == PhasesOf(all, Workflow) @@ PhasesOf(all, Runtime)

About(id) ==
  {n \in DOMAIN commands : commands[n].command.verb # "pipeline" /\ Same(commands[n].command.id, id)}

\* A phase is loaded as the last command about it has it, and its file holds it in that
\* spelling only; one that no command was about is loaded as it was found, and of a
\* removed phase nothing stays in either file. A removal that failed may have done a part.
PhasesStand ==
  \A id \in {c.id : c \in {c \in Commands : c.verb # "pipeline"}}
            \cup DOMAIN LoadedPhases(found) \cup DOMAIN LoadedPhases(files) :
    IF About(id) = {}
      THEN id \in DOMAIN LoadedPhases(files) \cup DOMAIN LoadedPhases(found) =>
             /\ id \in DOMAIN LoadedPhases(files) \cap DOMAIN LoadedPhases(found)
             /\ LoadedPhases(files)[id] = LoadedPhases(found)[id]
      ELSE LET last == commands[Max(About(id))]
               said == last.command
           IN  last.ok =>
                 IF said.verb = "phase"
                   THEN /\ {k \in DOMAIN PhasesOf(files, Workflow) : Same(k, id)} = {said.id}
                        /\ LoadedPhases(files)[said.id] = said.definition
                        /\ said.entry # None => Contents(Workflow).phase_catalog[said.id] = said.entry
                   ELSE ~Removes(id)

\* Pipelines keep their places, new ones in the order they came, and each is the one
\* that was put in last.
PipelinesStand ==
  LET before == IF found[Workflow] = None THEN <<>> ELSE found[Workflow].workflows
      succeeded == SelectSeq(commands, LAMBDA c : c.ok /\ c.command.verb = "pipeline")
      all == [i \in DOMAIN before |-> PipelineFrom(before[i])]
             \o [i \in DOMAIN succeeded |-> succeeded[i].command.definition]
      Alike(i) == {j \in DOMAIN all : Same(all[j].id, all[i].id)}
      places == SetToSortSeq({i \in DOMAIN all : i = Min(Alike(i))}, <)
      now == Contents(Workflow).workflows
  IN  FileParses(files[Workflow]) =>
        [i \in DOMAIN now |-> PipelineFrom(now[i])] = [n \in DOMAIN places |-> all[Max(Alike(places[n]))]]

\* What an older version wrote beside the authored blocks goes with the first upsert.
AuthoredOnly ==
  (\E n \in DOMAIN commands : commands[n].ok /\ commands[n].command.verb # "remove") =>
    Contents(Workflow).others = {}

\* What the dry run says of a phase is what its removal will answer: violated.
PreviewIsAccurate ==
  (\A name \in Files : FileParses(files[name])) =>
    \A c \in Commands : c.verb = "remove" => (IsDefined(c.id) <=> Removes(c.id))
================================================================================
