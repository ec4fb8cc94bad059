---------------------------- MODULE MCOutputParsers ----------------------------
(* What the CLIs print: two calls of codex in pieces and in every mixture, an *)
(* id used again, messages with calls and their summing up, a document over  *)
(* several lines.                                                            *)
EXTENDS Integers, Sequences, FiniteSetsExt, TLC

CONSTANT None

Json(v) == [value |-> v, raw |-> "json", braces |-> 0]
Raw(raw, braces) == [value |-> None, raw |-> raw, braces |-> braces]

\* codex: the frames of one call.
CallFrame(type, id, rest) ==
  Json([type |-> type, item |-> [type |-> "function_call", call_id |-> id] @@ rest])
Ends(id, rest) == CallFrame("item.completed", id, rest)
Streams(id) ==
  {<<Ends(id, [name |-> id, arguments |-> <<id, "b">>])>>,
   <<CallFrame("item.added", id, [name |-> id, arguments |-> <<>>]),
     CallFrame("item.delta", id, [arguments_delta |-> <<id>>]),
     CallFrame("item.delta", id, [arguments_delta |-> <<"b">>]),
     Ends(id, [status |-> "completed"])>>,
   <<CallFrame("item.delta", id, [arguments |-> <<id, "b">>]),
     Ends(id, [name |-> id])>>,
   <<CallFrame("item.added", id, [arguments |-> <<id>>]),
     CallFrame("item.delta", id, [name |-> id, arguments_delta |-> <<"x">>]),
     Ends(id, [arguments |-> <<id, "b">>])>>}
Made(id) == [name |-> id, arguments |-> <<id, "b">>]

\* Every order of the elements of two sequences that keeps theirs.
Mixed(s, t) ==
  LET n == Len(s) + Len(t)
      Before(S, i) == Cardinality({j \in S : j <= i})
  IN  {[i \in 1..n |-> IF i \in S THEN s[Before(S, i)] ELSE t[i - Before(S, i)]] :
         S \in kSubset(Len(s), 1..n)}
Message(text) == Json([type |-> "item.completed", item |-> [type |-> "message", text |-> text]])
Codex2 ==
  UNION {{[tool |-> "codex", lines |-> m \o <<Message(<<"ok">>)>>,
           calls |-> <<Made("a"), Made("b")>>, answers |-> <<<<"ok">>>>] : m \in Mixed(s, t)} :
           s \in Streams("a"), t \in Streams("b")}
\* An id that is used again for the call of a later turn.
CodexAgain ==
  {[tool |-> "codex",
    lines |-> s \o <<Message(<<"ok">>)>> \o <<CallFrame("item.delta", "a", [name |-> "b", arguments |-> <<"c">>]),
              Ends("a", [status |-> "completed"]), Message(<<"no">>), Message(<<"ok">>)>>,
    calls |-> <<Made("a"), [name |-> "b", arguments |-> <<"c">>]>>,
    answers |-> <<<<"ok">>, <<"no">>, <<"ok">>>>] : s \in Streams("a")}

Text1(t) == [type |-> "text", text |-> t]
Claudes ==
  {[tool |-> "claude",
    lines |-> <<Json([type |-> "system"]),
                Json([type |-> "assistant", usage |-> 1,
                      content |-> <<Text1(<<"hm">>), [type |-> "tool_use", name |-> "ls", input |-> <<"d">>],
                                    Text1(<<"so">>)>>]),
                Json([type |-> "user", content |-> <<[type |-> "tool_result", tool_use_id |-> "t", content |-> "f"]>>]),
                Raw("warning", 0),
                Json([type |-> "assistant", content |-> <<Text1(t)>>]),
                Json([type |-> "result", result |-> t])>>,
    calls |-> <<[name |-> "ls", arguments |-> <<"d">>]>>,
    answers |-> IF t = <<"hm", "so">> THEN <<t>> ELSE <<<<"hm", "so">>, t>>] :
     t \in {<<"ok">>, <<"hm", "so">>}}

Part(p) == Json([type |-> "x", part |-> p])
Tool(status) == Part([type |-> "tool", tool |-> "ls", status |-> status, input |-> <<"d">>, output |-> "f"])
Opencodes ==
  {[tool |-> "opencode",
    lines |-> <<Part(Text1(<<"hm">>)), Tool("pending"), Tool("running"), Tool(ended),
                Json([type |-> "step", content |-> <<"ok">>])>>,
    calls |-> <<[name |-> "ls", arguments |-> <<"d">>]>>, answers |-> <<<<"ok">>>>] :
     ended \in {"completed", "error"}}

Oais ==
  {[tool |-> "oai-runner",
    lines |-> <<Json([type |-> "text_chunk", text |-> <<"o">>]), Json([type |-> "result", text |-> <<"ok">>])>>,
    calls |-> <<>>, answers |-> <<<<"ok">>>>]}

\* gemini: a document over several lines, with objects inside it, after some warnings.
Printed == <<"{", "\"response\": \"ok\",", "\"candidates\": [{", "}]}">>
MCDocuments == Printed :> [response |-> <<"ok">>, stats |-> 1,
                           candidates |-> <<<<[name |-> "ls", call |-> <<"d">>]>>>>]
Over(lines) == <<Raw(lines[1], 1), Raw(lines[2], 0), Raw(lines[3], 1), Raw(lines[4], -2)>>
Geminis ==
  {[tool |-> "gemini", lines |-> before \o Over(Printed) \o after,
    calls |-> <<[name |-> "ls", arguments |-> <<"d">>]>>, answers |-> <<<<"ok">>>>] :
     before \in {<<>>, <<Raw("warning", 0)>>, <<Json([type |-> "partialResult", partial |-> <<"o">>])>>},
     after \in {<<>>, <<Json([type |-> "end", content_text |-> <<"ok">>])>>}}

MCPrints == Codex2 \cup CodexAgain \cup Claudes \cup Opencodes \cup Oais \cup Geminis
================================================================================
