--------------------------------- MODULE Launch ---------------------------------
(***************************************************************************)
(* From a session request to the child process: the argument list, the       *)
(* environment and the private files of each session backend of              *)
(* animus-session-backend. An invocation is the one of the request's runtime *)
(* contract, or a built one; then every option that the request asks for is  *)
(* put into it, one after the other, where the CLI must find it. A token is   *)
(* a tuple of strings: <<"--json">>, or <<key, value>> behind Codex's -c.     *)
(***************************************************************************)
EXTENDS Naturals, Sequences, SequencesExt, FiniteSets, Functions

CONSTANTS
  Requests,     \* session requests
  Credentials,  \* providers that speak Anthropic's API, with their base URLs
  None

VARIABLES
  request,
  step,    \* what is next
  args,    \* the invocation's argument list
  env,     \* the invocation's environment
  hooks,   \* the hooks of the private settings file, None if it was not written
  child    \* the environment of the child
vars == <<request, step, args, env, hooks, child>>

--------------------------------------------------------------------------------
(* Argument lists: positions are those of the code, from 0.                 *)

Has(as, token) == Contains(as, token)
Position(as, token) == Min({i \in DOMAIN as : as[i] = token}) - 1
Behind(as, token) == IF Has(as, token) THEN Position(as, token) + 1 ELSE 0

InsertedAt(as, at, tokens) ==
  LET p == Min({at, Len(as)}) IN SubSeq(as, 1, p) \o tokens \o SubSeq(as, p + 1, Len(as))

EnsureFlag(as, flag, at) == IF Has(as, flag) THEN as ELSE InsertedAt(as, at, <<flag>>)

EnsureFlagValue(as, flag, value, at) ==
  IF ~Has(as, flag) THEN InsertedAt(as, at, <<flag, value>>)
  ELSE LET slot == Position(as, flag) + 2 IN
       IF slot <= Len(as) THEN [as EXCEPT ![slot] = value] ELSE Append(as, value)

Dash == {<<"-c">>, <<"--config">>}

\* A -c override of that key, which is a prefix of the token behind a dash.
Overrides(as, key) == {i \in 1..(Len(as) - 1) : as[i] \in Dash /\ as[i + 1][1] = key}

\* The prompt is to stay last.
EnsureCodexOverride(as, key, value) ==
  LET there == Overrides(as, key) IN
  IF there # {} THEN [as EXCEPT ![Min(there) + 1] = <<key, value>>]
  ELSE InsertedAt(as, IF as = <<>> THEN 0 ELSE Len(as) - 1, <<<<"-c">>, <<key, value>>>>)

\* ensure_machine_json_output, by the command's name.
MachineJson(tool, as) ==
  CASE tool = "codex" -> EnsureFlag(as, <<"--json">>, Behind(as, <<"exec">>))
    [] tool = "claude" ->
         LET at == Behind(as, <<"--print">>)
         IN  EnsureFlagValue(EnsureFlag(as, <<"--verbose">>, at), <<"--output-format">>, <<"stream-json">>, at)
    [] tool = "gemini" ->
         EnsureFlagValue(as, <<"--output-format">>, <<"json">>,
                         IF Has(as, <<"-p">>) THEN Position(as, <<"-p">>) ELSE Len(as))
    [] tool \in {"opencode", "open-code", "oai-runner"} ->
         EnsureFlagValue(as, <<"--format">>, <<"json">>, Behind(as, <<"run">>))
    [] OTHER -> as

--------------------------------------------------------------------------------
(* The invocation without a runtime contract.                               *)

Optional(flag, value) == IF value = None THEN <<>> ELSE <<flag, value>>

\* The model, without the provider that the credentials are for.
Routed == request.model # None /\ Len(request.model) = 2 /\ request.model[1] \in DOMAIN Credentials

BuiltArgs ==
  LET r == request IN
  CASE r.tool = "claude" ->
         <<<<"--print">>, <<"--verbose">>, <<"--output-format">>, <<"stream-json">>>>
         \o (IF r.permission = None THEN <<<<"--dangerously-skip-permissions">>>>
             ELSE <<<<"--permission-mode">>, r.permission>>)
         \o Optional(<<"--resume">>, r.resume)
         \o Optional(<<"--model">>, IF Routed /\ "ANTHROPIC_BASE_URL" \notin DOMAIN r.env
                                      THEN <<r.model[2]>> ELSE r.model)
         \o <<r.prompt>>
    [] r.tool = "codex" ->
         LET head == <<<<"exec">>>> \o Optional(<<"resume">>, r.resume)
                     \o <<<<"--json">>, <<"--full-auto">>, <<"--skip-git-repo-check">>>>
             mode == IF r.permission = None THEN head
                     ELSE EnsureCodexOverride(head, "approval_policy", r.permission[1])
         IN  EnsureCodexOverride(mode, "sandbox_workspace_write.network_access", "true")
             \o Optional(<<"--model">>, r.model) \o <<r.prompt>>
    [] r.tool = "gemini" ->
         Optional(<<"--resume">>, r.resume)
         \o (IF r.permission = None THEN <<<<"--yolo">>>> ELSE <<<<"--approval-mode">>, r.permission>>)
         \o Optional(<<"--model">>, r.model)
         \o <<<<"--output-format">>, <<"json">>, <<"-p">>, r.prompt>>
    [] r.tool = "opencode" ->
         <<<<"run">>>> \o Optional(<<"--session">>, r.resume) \o Optional(<<"-m">>, r.model)
         \o <<<<"--format">>, <<"json">>, r.prompt>>
    [] r.tool = "oai-runner" ->
         <<<<"run">>>> \o Optional(<<"-m">>, r.model) \o <<<<"--format">>, <<"json">>>>
         \o Optional(<<"--session-id">>, r.resume) \o <<r.prompt>>
    [] r.tool = "open-code" -> <<<<"run">>, r.prompt>> \* the subprocess backend's: the model is left out
    [] OTHER -> <<r.prompt>>

\* Of the request's environment Claude's invocation takes these.
AnthropicNames == {"ANTHROPIC_BASE_URL", "ANTHROPIC_API_KEY"}

Provider == "ANTHROPIC_BASE_URL" :> Credentials[request.model[1]]

Init ==
  /\ request \in Requests /\ step = "build"
  /\ args = <<>> /\ env = <<>> /\ child = <<>> /\ hooks = None

\* A resume with Codex needs a session; a runtime contract takes its place.
Build ==
  /\ step = "build"
  /\ IF request.contract # None
       THEN /\ args' = MachineJson(request.tool, request.contract.args)
            /\ env' = request.contract.env
       ELSE /\ args' = MachineJson(request.tool, BuiltArgs)
            /\ env' = IF request.tool # "claude" THEN <<>>
                      ELSE LET own == Restrict(request.env, AnthropicNames \cap DOMAIN request.env)
                           IN  IF Routed /\ "ANTHROPIC_BASE_URL" \notin DOMAIN own THEN Provider @@ own ELSE own
  /\ step' = IF request.tool \in {"claude", "codex"} THEN "effort" ELSE "spawn"
  /\ UNCHANGED <<request, hooks, child>>


\* Among the options: in front, or behind Codex's subcommand.
EffortAt(option) ==
  InsertedAt(args, IF request.tool = "claude" THEN 0 ELSE Behind(args, <<"exec">>), option)

\* apply_claude_reasoning_effort, apply_codex_reasoning_effort: the caller's wins.
Effort ==
  /\ step = "effort" /\ step' = "mcp"
  /\ LET there == IF request.tool = "claude" THEN Has(args, <<"--effort">>)
                  ELSE Overrides(args, "model_reasoning_effort") # {}
         option == IF request.tool = "claude" THEN <<<<"--effort">>, <<request.effort>>>>
                   ELSE <<<<"-c">>, <<"model_reasoning_effort", request.effort>>>>
     IN  args' = IF request.effort = None \/ there THEN args ELSE EffortAt(option)
  /\ UNCHANGED <<request, env, hooks, child>>

\* Of a server: -c mcp_servers.<name> with what it forwards by name.
ServerOverrides(names) ==
  FlattenSeq([i \in DOMAIN names |->
    <<<<"-c">>, <<"mcp_servers", names[i], request.servers[names[i]].command>>,
      <<"-c">>, <<"mcp_servers", names[i], "env_vars">>>>])

\* Two values for one name: another server's, the contract's or the request's.
Conflict ==
  LET Values(k) == {request.servers[n].env[k] : n \in {m \in DOMAIN request.servers :
                                                         k \in DOMAIN request.servers[m].env}}
                   \cup (IF k \in DOMAIN env THEN {env[k]} ELSE {})
                   \cup (IF k \in DOMAIN request.env THEN {request.env[k]} ELSE {})
  IN  \E n \in DOMAIN request.servers : \E k \in DOMAIN request.servers[n].env : Cardinality(Values(k)) > 1

ServerEnv ==
  LET keys == UNION {DOMAIN request.servers[n].env : n \in DOMAIN request.servers}
  IN  [k \in keys |-> LET n == CHOOSE m \in DOMAIN request.servers : k \in DOMAIN request.servers[m].env
                      IN  request.servers[n].env[k]]

\* apply_claude_mcp_config, apply_codex_mcp_servers: any of the caller's suppresses
\* them. Codex takes the values through the child's environment, under one name.
Mcp ==
  /\ step = "mcp"
  /\ LET front == request.tool = "claude"
         there == IF front THEN Has(args, <<"--mcp-config">>) ELSE Overrides(args, "mcp_servers") # {}
         skip == DOMAIN request.servers = {} \/ there
     IN  /\ args' = IF skip THEN args
                    ELSE IF front
                      THEN InsertedAt(args, 0, <<<<"--mcp-config">>, <<"mcp.json">>, <<"--strict-mcp-config">>>>)
                    ELSE InsertedAt(args, Behind(args, <<"exec">>),
                                    ServerOverrides(SetToSeq(DOMAIN request.servers)))
         /\ env' = IF skip \/ front THEN env ELSE ServerEnv @@ env
         /\ step' = IF ~skip /\ ~front /\ Conflict THEN "failed"
                    ELSE IF front THEN "settings" ELSE "spawn"
  /\ UNCHANGED <<request, hooks, child>>

Gated == request.tool = "claude" /\ request.approvals

\* The first --settings is pointed at the private file, its hooks before ours; what
\* cannot be read is replaced. A --settings at the very end has no value to merge.
SettingsMerged ==
  LET slot == Position(args, <<"--settings">>) + 2 IN
  IF slot > Len(args) THEN hooks' = <<"approval">> /\ args' = args
  ELSE /\ hooks' = (IF args[slot][1] = "readable" THEN <<"caller's">> ELSE <<>>) \o <<"approval">>
       /\ args' = [args EXCEPT ![slot] = <<"settings.json">>]

\* write_claude_approval_settings and apply_claude_settings: no hook without an agent.
Settings ==
  /\ step = "settings" /\ step' = "permission"
  /\ IF ~Gated \/ request.agent = None THEN UNCHANGED <<args, hooks>>
     ELSE IF Has(args, <<"--settings">>) THEN SettingsMerged
     ELSE /\ hooks' = <<"approval">>
          /\ args' = InsertedAt(args, 0, <<<<"--settings">>, <<"settings.json">>>>)
  /\ UNCHANGED <<request, env, child>>

PromptTool == <<<<"--permission-prompt-tool">>, <<"mcp__animus__animus_agent_request_approval">>>>

\* apply_claude_permission_prompt_tool, then of a contract the provider's credentials.
Permission ==
  /\ step = "permission" /\ step' = "spawn"
  /\ LET asked == SelectSeq(args, LAMBDA t : t # <<"--dangerously-skip-permissions">>)
         gated == IF ~Gated THEN args
                  ELSE IF Has(asked, PromptTool[1]) THEN asked ELSE InsertedAt(asked, 0, PromptTool)
         route == request.contract # None /\ "ANTHROPIC_BASE_URL" \notin DOMAIN env /\ Routed
         slot == Position(gated, <<"--model">>) + 2
     IN  /\ env' = IF route THEN Provider @@ env ELSE env
         /\ args' = IF route /\ Has(gated, <<"--model">>) /\ slot <= Len(gated) /\ Len(gated[slot]) = 2
                      THEN [gated EXCEPT ![slot] = <<@[2]>>] ELSE gated
  /\ UNCHANGED <<request, hooks, child>>

\* The envs() of each run function, a later one over an earlier.
Spawn ==
  /\ step = "spawn" /\ step' = "spawned"
  /\ child' = CASE request.tool = "claude" -> env
                [] request.tool = "codex"  -> env @@ request.env
                [] OTHER                   -> request.env
  /\ UNCHANGED <<request, args, env, hooks>>

Next == Build \/ Effort \/ Mcp \/ Settings \/ Permission \/ Spawn

Spec == Init /\ [][Next]_vars

--------------------------------------------------------------------------------
(* Properties.                                                             *)

\* How a CLI reads its arguments: an option takes the token behind it.
Valued ==
  Dash \cup {<<"--output-format">>, <<"--format">>, <<"--effort">>, <<"--mcp-config">>, <<"--settings">>,
             <<"--permission-prompt-tool">>, <<"--permission-mode">>, <<"--model">>, <<"-m">>, <<"-p">>,
             <<"--resume">>, <<"--session">>, <<"--session-id">>, <<"--approval-mode">>}
Bare == {<<"--json">>, <<"--verbose">>, <<"--print">>, <<"--strict-mcp-config">>, <<"--full-auto">>,
         <<"--skip-git-repo-check">>, <<"--dangerously-skip-permissions">>, <<"--yolo">>}

Read(as) ==
  FoldLeft(LAMBDA r, t :
             IF r.wait # None THEN [r EXCEPT !.options = @ \cup {<<r.wait, t>>}, !.wait = None]
             ELSE IF t \in Valued THEN [r EXCEPT !.wait = t]
             ELSE IF t \in Bare THEN [r EXCEPT !.options = @ \cup {<<t>>}]
             ELSE [r EXCEPT !.words = Append(@, t)],
           [options |-> {}, words |-> <<>>, wait |-> None], as)

Caller == IF request.contract # None THEN Read(request.contract.args) ELSE Read(BuiltArgs)
Replaced == {<<"--output-format">>, <<"--format">>, <<"--settings">>, <<"--model">>}


\* Codex forwards a server's environment by name: no server is given the value of
\* another, of the contract or of the request, it fails instead.
EachServerItsOwn ==
  step = "spawned" /\ request.tool = "codex" /\ Overrides(args, "mcp_servers") # {}
    /\ (request.contract = None \/ Overrides(request.contract.args, "mcp_servers") = {}) =>
    \A n \in DOMAIN request.servers : \A k \in DOMAIN request.servers[n].env :
      child[k] = request.servers[n].env[k]

\* "Additional environment variables to inject" (launch.rs), "Environment variables
\* to inject into the child" (session_request.rs): what the contract or the request
\* sets is in the environment of the child.
EnvironmentReaches ==
  step = "spawned" =>
    DOMAIN request.env \cup (IF request.contract = None THEN {} ELSE DOMAIN request.contract.env)
      \subseteq DOMAIN child
================================================================================
