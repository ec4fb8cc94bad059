---------------------------- MODULE MCConfigCompile ----------------------------
(* A base, and sources that each touch a section or two.                   *)
EXTENDS ConfigSections, Integers, TLC

CONSTANT Blank

MCFolded == ("A" :> "a") @@ ("a" :> "a") @@ ("b" :> "b")
MCToolFor == ("m1" :> "codex") @@ ("m2" :> "claude") @@ ("big" :> "codex") @@ ("x" :> "codex")
MCDisk ==
  ("in" :> [relative |-> TRUE, ascends |-> FALSE, inside |-> TRUE, readable |-> TRUE,
            contents |-> "prompt"])
  @@ ("link" :> [relative |-> TRUE, ascends |-> FALSE, inside |-> FALSE, readable |-> TRUE,
                 contents |-> "another"])

Bare ==
  [lists |-> [s \in Lists |-> <<>>], maps |-> [s \in Maps |-> Empty], agents |-> Empty,
   tools_allowlist |-> {}, default_workflow_ref |-> Blank, environment_routing |-> Blank,
   retention |-> 0]

Item(id, value) == [id |-> id, value |-> value]
Source(c) == [config |-> c, models |-> Empty, confined |-> FALSE, mergesItself |-> FALSE]

MCBase ==
  [Bare EXCEPT !.lists = [s \in Lists |-> <<Item("b", 0), Item("a", 0)>>],
               !.maps = [s \in Maps |-> "a" :> "base"],
               !.agents = "dev" :> [model |-> "m2", tool |-> "claude", fallback_models |-> <<"x">>,
                                    controls |-> "base"],
               !.default_workflow_ref = "std"]

InLists == {Source([Bare EXCEPT !.lists[s] = list]) :
              s \in Lists, list \in {<<Item("A", 1)>>, <<Item("A", 2), Item("a", 3)>>}}
InMaps == {Source([Bare EXCEPT !.maps[s] = m]) : s \in Maps, m \in {"a" :> "own", "b" :> "own"}}
Rest == {Source([Bare EXCEPT !.tools_allowlist = {"t"}]),
         Source([Bare EXCEPT !.default_workflow_ref = "mine", !.environment_routing = "e"])}
Registry == "big" :> [model |-> "m1", tool |-> Blank]
Agent(profile, registry) ==
  [Source([Bare EXCEPT !.agents = "dev" :> profile]) EXCEPT !.models = registry]
InAgents ==
  {Agent([models |-> names], registry) :
     names \in {<<"big">>, <<"big", Blank, "x">>, <<Blank>>}, registry \in {Empty, Registry}}
  \cup {Agent(p, Empty) : p \in {[tool |-> "gemini"], [fallback_models |-> <<"m2">>],
                                 [controls |-> "cleared"], [system_prompt |-> "inline"]}}
  \cup {[Agent([system_prompt_file |-> path], Empty) EXCEPT !.confined = c] :
          path \in {"in", "link"}, c \in BOOLEAN}
  \cup {Agent([system_prompt_file |-> "in", system_prompt |-> "inline"], Empty)}
MCSources == InLists \cup InMaps \cup Rest \cup InAgents
             \cup {[Source(Bare) EXCEPT !.mergesItself = TRUE]}
================================================================================
