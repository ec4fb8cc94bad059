------------------------------ MODULE MCConfigured ------------------------------
(* Inputs of Policies and of WorkflowExpansion.                              *)
EXTENDS TLC

CONSTANT None

(* Policies. Names of two letters; rules for a tool, for any, for an event,  *)
(* for an input, and one that abstains.                                      *)
MCPatterns == {<<"a", "b">>, <<"*">>, <<"a", "*">>, <<"*", "b">>}
Names == {<<"a", "b">>, <<"b">>}
MCCalls == [event : {"PreToolUse", "PermissionRequest"}, tool : Names, input : {<<>>, [command |-> "push"]}]
Rule(decision) == [events |-> {}, tools |-> {}, matchers |-> {}, decision |-> decision]
Force == [field |-> "command", regex |-> {"push"}]
MCRules ==
  {[Rule("deny") EXCEPT !.tools = {<<"a", "*">>}, !.matchers = {Force}],
   [Rule("ask") EXCEPT !.events = {"PermissionRequest"}],
   [Rule("ask") EXCEPT !.tools = {<<"*", "b">>}],
   Rule("allow"), Rule("defer")}

(* WorkflowExpansion. Three workflows, the last spelled otherwise where it   *)
(* is referred to, of up to two phases each.                                 *)
MCFolded == ("C" :> "c") @@ [id \in {"a", "b", "c", "d", "p", "publish"} |-> id] @@ ("Publish" :> "publish")
P(id) == [kind |-> "phase", id |-> id]
W(id) == [kind |-> "workflow", id |-> id]
Lists(S) == {<<>>} \cup {<<x>> : x \in S} \cup {<<x, y>> : x, y \in S}
Workflow(id, phases) == [id |-> id, phases |-> phases, publication |-> None]
Definitions == "Publish" :> [contract |-> "receipt", mode |-> "command", parsed |-> "receipt"]
Publications ==
  {None} \cup {[required |-> r, owner |-> o] : r \in BOOLEAN,
     o \in {None, [kind |-> "runner"], [kind |-> "phase", id |-> "publish"]}}
MCConfigs ==
  {[workflows |-> <<Workflow("a", x), Workflow("b", y), Workflow("c", z)>>, phases |-> Definitions] :
     x \in Lists({P("p"), W("b"), W("C")}), y \in Lists({P("publish"), W("C"), W("a")}),
     z \in Lists({P("Publish"), W("b"), W("d")})}
  \cup
  {[workflows |-> <<[Workflow("a", x) EXCEPT !.publication = p], Workflow("b", <<P("publish")>>)>>,
    phases |-> [q \in {"Publish"} |-> [contract |-> "receipt", mode |-> m, parsed |-> "receipt"]]] :
     x \in Lists({P("p"), W("b"), P("Publish")}), p \in Publications, m \in {"agent", "manual", "command"}}
================================================================================
