----------------------------- MODULE ConfigCompile -----------------------------
(***************************************************************************)
(* Compiling a project's YAML sources, one after the other, onto a base     *)
(* configuration: animus-config-protocol, parse.rs, yaml_parser.rs and the   *)
(* merging of agent profiles. Each source is parsed onto what the sources   *)
(* before it came to, and the result merged into that once more.            *)
(*                                                                         *)
(* A section is a list of items with ids, a map, or a map of agents; an      *)
(* optional structure of optional parts is a map of its parts. Values are    *)
(* not looked into, but for what an agent's prompt and models resolve to.    *)
(***************************************************************************)
EXTENDS ConfigSections, Integers, SequencesExt

CONSTANTS
  Base,     \* the configuration the sources are compiled onto
  Sources,  \* YAML files
  MaxFiles, \* bound: sources of a project
  Folded,   \* Folded[id]: the id in lower case
  ToolFor,  \* ToolFor[m]: tool_for_model_id
  Disk,     \* Disk[path]: what resolving a path comes to
  Blank     \* a text that trims to nothing

VARIABLES
  read,   \* the sources read so far
  config, \* what they were compiled to
  failed  \* the last one was refused, and the compilation with it
vars == <<read, config, failed>>

--------------------------------------------------------------------------------
(* Agents: a profile holds the fields it declares. A null of the one field  *)
(* that knows it is a value, "cleared".                                     *)

Names(profile) ==
  IF "models" \in DOMAIN profile
    THEN SelectSeq(profile.models, LAMBDA name : name # Blank) ELSE <<>>

Entry(registry, name) ==
  IF name \in DOMAIN registry THEN registry[name] ELSE [model |-> name, tool |-> Blank]

Without(profile, fields) == [f \in DOMAIN profile \ fields |-> profile[f]]

Declares(field, value) == [f \in {field} |-> value]

\* A chain of models is the whole routing of its agent; tools of fallbacks are
\* listed where the registry has one.
ResolveModels(profile, registry) ==
  LET chain == [i \in DOMAIN Names(profile) |-> Entry(registry, Names(profile)[i])]
      rest == Tail(chain)
      Primary ==
        Declares("model", chain[1].model)
        @@ Declares("tool", IF chain[1].tool # Blank THEN chain[1].tool ELSE ToolFor[chain[1].model])
      Fallbacks ==
        Declares("fallback_models", [i \in DOMAIN rest |-> rest[i].model])
        @@ Declares("fallback_tools",
                    SelectSeq([i \in DOMAIN rest |-> rest[i].tool], LAMBDA t : t # Blank))
      declared == Without(profile, {"models"})
  IN  IF chain = <<>> THEN profile
      ELSE IF rest # <<>> THEN Primary @@ Fallbacks @@ declared
      ELSE Primary @@ declared @@ Fallbacks

\* In a pack a prompt's file lies in the pack, by its path and where that leads.
PromptAllowed(profile, confined) ==
  "system_prompt_file" \in DOMAIN profile =>
    LET file == Disk[profile.system_prompt_file] IN
    /\ "system_prompt" \in DOMAIN profile => profile.system_prompt = Blank
    /\ confined => file.relative /\ ~file.ascends /\ file.inside
    /\ file.readable

ResolvePrompt(profile) ==
  IF "system_prompt_file" \in DOMAIN profile
    THEN Declares("system_prompt", Disk[profile.system_prompt_file].contents)
         @@ Without(profile, {"system_prompt_file", "system_prompt"})
    ELSE profile

--------------------------------------------------------------------------------
(* A source as a configuration. A phase that is not in the source's catalog *)
(* gets an entry there made of its id.                                      *)

Overlay(source) ==
  [source.config EXCEPT
     !.maps["phase_catalog"] =
        @ @@ [p \in DOMAIN source.config.maps["phase_definitions"] |-> "from its id"],
     !.agents =
        [a \in DOMAIN @ |->
           LET profile == ResolvePrompt(@[a]) IN
           IF source.models = Empty THEN profile ELSE ResolveModels(profile, source.models)]]

Acceptable(source) ==
  /\ ~source.mergesItself \* post_success.merge and auto_merge were removed
  /\ \A a \in DOMAIN source.config.agents :
       PromptAllowed(source.config.agents[a], source.confined)

--------------------------------------------------------------------------------
(* merge_yaml_into_config.                                                 *)

PutById(list, item) ==
  LET same == {i \in DOMAIN list : Folded[list[i].id] = Folded[item.id]}
  IN  IF same = {} THEN Append(list, item)
      ELSE [list EXCEPT ![Min(same)] = item]

\* faulty: a profile replaces the one of its agent
MergeAgentsWhole(base, yaml) == yaml @@ base

MergeAgents(base, yaml) ==
  [a \in DOMAIN base \cup DOMAIN yaml |->
     (IF a \in DOMAIN yaml THEN yaml[a] ELSE Empty) @@ (IF a \in DOMAIN base THEN base[a] ELSE Empty)]

\* The retention of checkpoints is the base's always.
Merge(base, yaml) ==
  [lists |-> [s \in Lists |-> FoldLeft(PutById, base.lists[s], yaml.lists[s])],
   maps |-> [s \in Maps |-> yaml.maps[s] @@ base.maps[s]],
   agents |-> MergeAgents(base.agents, yaml.agents),
   tools_allowlist |-> base.tools_allowlist \cup yaml.tools_allowlist,
   default_workflow_ref |->
     IF yaml.default_workflow_ref # Blank THEN yaml.default_workflow_ref
     ELSE base.default_workflow_ref,
   environment_routing |->
     IF yaml.environment_routing # Blank THEN yaml.environment_routing
     ELSE base.environment_routing,
   retention |-> base.retention]

Parse(source, base) == Merge(base, Overlay(source))

--------------------------------------------------------------------------------
Init == read = <<>> /\ config = Base /\ failed = FALSE

\* One turn of compile_yaml_sources_with_base_inner.
Compile(source) ==
  /\ ~failed /\ Len(read) < MaxFiles
  /\ read' = Append(read, source)
  /\ failed' = ~Acceptable(source)
  /\ config' = CASE ~Acceptable(source) -> config
                 [] Acceptable(source) /\ read = <<>> -> Parse(source, config)
                 [] OTHER -> Merge(config, Parse(source, config))

Next == \E source \in Sources : Compile(source)

Spec == Init /\ [][Next]_vars

--------------------------------------------------------------------------------
(* Properties.                                                             *)

\* The layers of the configuration, the last declaration first in value.
Accepted == IF failed THEN Front(read) ELSE read
Layers == <<Base>> \o [i \in DOMAIN Accepted |-> Overlay(Accepted[i])]

MapAsDeclared(s) ==
  /\ DOMAIN config.maps[s] = UNION {DOMAIN Layers[i].maps[s] : i \in DOMAIN Layers}
  /\ \A k \in DOMAIN config.maps[s] :
       config.maps[s][k] = Layers[Max({i \in DOMAIN Layers : k \in DOMAIN Layers[i].maps[s]})].maps[s][k]

ListAsDeclared(s) ==
  LET all == FoldLeft(LAMBDA done, layer : done \o layer.lists[s], <<>>, Layers)
      Same(i) == {j \in DOMAIN all : Folded[all[j].id] = Folded[all[i].id]}
      firsts == {i \in DOMAIN all : \A j \in Same(i) : i <= j}
      ordered == SetToSortSeq(firsts, <)
  IN  config.lists[s] = [n \in DOMAIN ordered |-> all[Max(Same(ordered[n]))]]

AgentsAsDeclared ==
  LET Declaring(a) == {i \in DOMAIN Layers : a \in DOMAIN Layers[i].agents}
      Setting(a, f) == {i \in Declaring(a) : f \in DOMAIN Layers[i].agents[a]}
  IN  \A a \in UNION {DOMAIN Layers[i].agents : i \in DOMAIN Layers} :
        /\ a \in DOMAIN config.agents
        /\ DOMAIN config.agents[a] = UNION {DOMAIN Layers[i].agents[a] : i \in Declaring(a)}
        /\ \A f \in DOMAIN config.agents[a] :
             config.agents[a][f] = Layers[Max(Setting(a, f))].agents[a][f]

\* Although every source is parsed onto the result of the others and merged into
\* it again: each item, entry and field of an agent is the one of the last source
\* that declares it, items keep the place of their first declaration, and
\* what no source declares is the base's.
LastDeclarationWins ==
  /\ \A s \in Maps : MapAsDeclared(s)
  /\ \A s \in Lists : ListAsDeclared(s)
  /\ AgentsAsDeclared
  /\ config.tools_allowlist = UNION {Layers[i].tools_allowlist : i \in DOMAIN Layers}
  /\ config.default_workflow_ref =
       Layers[Max({1} \cup {i \in DOMAIN Layers : Layers[i].default_workflow_ref # Blank})].default_workflow_ref

Routing == {"model", "tool", "fallback_models", "fallback_tools"}

\* Where the last source that says how an agent is routed names a chain of models,
\* nothing of the routing is inherited: no tool that a former model ran on, and no
\* fallback of another chain.
ChainIsWhole ==
  \A a \in DOMAIN config.agents :
    LET saying == {i \in DOMAIN Accepted :
                     a \in DOMAIN Accepted[i].config.agents
                     /\ DOMAIN Overlay(Accepted[i]).agents[a] \cap Routing # {}}
    IN  saying # {} =>
          LET source == Accepted[Max(saying)]
              named == Names(source.config.agents[a])
          IN  named # <<>> /\ source.models # Empty =>
                /\ Routing \subseteq DOMAIN config.agents[a]
                /\ config.agents[a].model = Entry(source.models, named[1]).model
                /\ config.agents[a].tool \in
                     {Entry(source.models, named[1]).tool, ToolFor[config.agents[a].model]} \ {Blank}
                /\ "fallback_models" \notin DOMAIN source.config.agents[a] =>
                     Len(config.agents[a].fallback_models) = Len(named) - 1
================================================================================
