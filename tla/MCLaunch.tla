-------------------------------- MODULE MCLaunch --------------------------------
(* Requests with and without a contract, whose arguments end in a prompt or  *)
(* in an option's value.                                                     *)
EXTENDS TLC

CONSTANT None
MCCredentials == "minimax" :> "https://minimax"
Servers == {<<>>, [a |-> [command |-> "x", env |-> [TOKEN |-> "1"]]],
            [a |-> [command |-> "x", env |-> [TOKEN |-> "1"]], b |-> [command |-> "y", env |-> [TOKEN |-> "2"]]],
            [a |-> [command |-> "x", env |-> [TOKEN |-> "1"]], b |-> [command |-> "y", env |-> [KEY |-> "2"]]]}
Prompt == <<"prompt">>
Contract(as, e) == [args |-> as, env |-> e]
Empty == [contract |-> None, prompt |-> Prompt, model |-> None, permission |-> None, resume |-> None,
          env |-> <<>>, servers |-> <<>>, effort |-> None, approvals |-> FALSE, agent |-> None]
With(tool) == [tool |-> tool] @@ Empty
ClaudeArgs ==
  {<<<<"--print">>, Prompt>>, <<<<"--print">>, <<"--model">>, <<"minimax", "m2">>>>,
   <<<<"--effort">>, <<"low">>, <<"--print">>, <<"--settings">>, <<"readable">>, Prompt>>,
   <<<<"--dangerously-skip-permissions">>, <<"--settings">>, <<"broken">>, <<"--print">>, <<"--output-format">>, <<"text">>>>,
   <<<<"--print">>, Prompt, <<"--settings">>>>}
CodexArgs ==
  {<<<<"exec">>, Prompt>>, <<<<"exec">>, <<"--model">>, <<"gpt">>>>,
   <<<<"exec">>, <<"-c">>, <<"model_reasoning_effort", "low">>, <<"--config">>, <<"mcp_servers", "z">>, Prompt>>}
Contracts(argsSet) == {None} \cup {Contract(as, e) : as \in argsSet, e \in {<<>>, [TOKEN |-> "1"]}}
MCRequests ==
  {[With("claude") EXCEPT !.contract = c, !.effort = f, !.approvals = a, !.agent = g, !.servers = s, !.permission = p] :
     c \in Contracts(ClaudeArgs), f \in {None, "high"}, a \in BOOLEAN, g \in {None, "agent"},
     s \in {<<>>, [a |-> [command |-> "x", env |-> <<>>]]}, p \in {None, <<"plan">>}}
  \cup
  {[With("claude") EXCEPT !.model = <<"minimax", "m2">>, !.env = e, !.resume = i] :
     e \in {<<>>, [ANTHROPIC_BASE_URL |-> "own"]}, i \in {None, <<"id">>}}
  \cup
  {[With("codex") EXCEPT !.contract = c, !.effort = f, !.servers = s, !.env = e, !.permission = p, !.resume = i] :
     c \in Contracts(CodexArgs), f \in {None, "high"}, s \in Servers, e \in {<<>>, [TOKEN |-> "1"], [KEY |-> "3"]},
     p \in {None, <<"never">>}, i \in {None, <<"id">>}}
  \cup
  {[With(t) EXCEPT !.contract = c, !.model = m, !.permission = p, !.resume = i] :
     t \in {"gemini", "opencode", "oai-runner", "open-code", "sh"},
     c \in Contracts({<<<<"run">>, Prompt>>, <<<<"run">>, <<"--format">>, <<"text">>, Prompt>>, <<<<"-p">>, Prompt>>,
                      <<<<"--output-format">>>>}),
     m \in {None, <<"m">>}, p \in {None, <<"plan">>}, i \in {None, <<"id">>}}
================================================================================
