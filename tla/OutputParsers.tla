----------------------------- MODULE OutputParsers -----------------------------
(***************************************************************************)
(* What the sessions make of the standard output of the CLIs they run        *)
(* (animus-session-backend/src/session/<tool>/parser.rs and the loop of the  *)
(* reading task in each transport.rs). A line parses, by itself, to a value  *)
(* (a record of the fields it has) or to None. A text is a sequence of        *)
(* pieces; "" is <<>>. What the CLI printed, and what it meant, is Prints.     *)
(***************************************************************************)
EXTENDS Integers, Sequences, SequencesExt, TLC

CONSTANTS Prints,    \* [tool, lines, calls, answers]: what a CLI may print, and mean
          Documents, \* the value of a sequence of lines, where they form one
          None

VARIABLES print,   \* the print being read
          at,      \* how many lines of it have been read
          calls,   \* CodexParser.pending
          held,    \* gemini: json_accum, the lines of it
          depth,   \* gemini: depth
          last,    \* last_final_text
          events   \* what the reading task has sent

vars == <<print, at, calls, held, depth, last, events>>

Field(v, f, else) == IF f \in DOMAIN v THEN v[f] ELSE else
Type(v) == Field(v, "type", "")
Map(Op(_), s) == FlattenSeq([i \in DOMAIN s |-> Op(s[i])])

ToolCall(name, arguments) == [event |-> "ToolCall", name |-> name, arguments |-> arguments]
ToolResult(name, output, ok) ==
  [event |-> "ToolResult", name |-> name, output |-> output, success |-> ok]
Said(event, text) == [event |-> event, text |-> text]
SaidOf(event, v, f) == IF f \in DOMAIN v THEN <<Said(event, v[f])>> ELSE <<>>
FinalText(text) == IF text = <<>> THEN <<>> ELSE <<Said("FinalText", text)>>
Metadata(v) == <<[event |-> "Metadata"]>>
Fatal(v) == <<[event |-> "Error", recoverable |-> FALSE]>>
NoItem == [type |-> "none"]
Named(v) == Field(v, "name", "unknown_tool")
Succeeded(v) == ~ Field(v, "is_error", FALSE)
Text(parts) == Map(LAMBDA p : Field(p, "text", <<>>), parts)

--------------------------------------------------------------------------------
(* codex: calls may be streamed in pieces, several at once.                *)

CallId(item) == Field(item, "call_id", Field(item, "id", None))
IsCall(item) == Type(item) = "function_call" /\ CallId(item) # None
Fresh(item, arguments) == [name |-> Named(item), arguments |-> arguments]

Added(item) ==
  IF IsCall(item) THEN (CallId(item) :> Fresh(item, Field(item, "arguments", <<>>))) @@ calls
  ELSE calls

Grown(item) ==
  IF ~ IsCall(item) THEN calls
  ELSE LET entry == Field(calls, CallId(item), Fresh(item, <<>>))
           name == IF entry.name \in {"", "unknown_tool"} THEN Field(item, "name", entry.name)
                   ELSE entry.name
           delta == Field(item, "arguments_delta", Field(item, "arguments", <<>>))
       IN  (CallId(item) :> [name |-> name, arguments |-> entry.arguments \o delta]) @@ calls

\* What the item itself says counts, and else what was gathered for it.
Finalized(item) ==
  LET pending == CallId(item) # None /\ CallId(item) \in DOMAIN calls
      Said1(f, nothing, default) ==
        IF pending /\ Field(item, f, nothing) = nothing THEN calls[CallId(item)][f]
        ELSE Field(item, f, default)
  IN  <<ToolCall(Said1("name", "", "unknown_tool"), Said1("arguments", <<>>, <<>>))>>

CodexMessage(item) ==
  FinalText(IF Field(item, "text", <<>>) # <<>> THEN item.text
            ELSE Text(SelectSeq(Field(item, "content", <<>>),
                                LAMBDA b : Type(b) \in {"output_text", "text"})))

CodexItem(item) ==
  CASE Type(item) = "reasoning" -> SaidOf("Thinking", item, "text")
    [] Type(item) \in {"agent_message", "message"} -> CodexMessage(item)
    [] Type(item) = "function_call" -> Finalized(item)
    [] Type(item) \in {"function_call_output", "tool_result"} ->
         <<ToolResult(Field(item, "name", Field(item, "call_id", "unknown_tool")),
                      Field(item, "output", Field(item, "content", None)), Succeeded(item))>>
    [] Type(item) = "command_execution" ->
         <<ToolCall("shell", Field(item, "command", <<>>)),
           ToolResult("shell", Field(item, "aggregated_output", Field(item, "output", None)),
                      Field(item, "exit_code", 0) = 0)>>
    [] OTHER -> <<>>

Codex(v) ==
  CASE Type(v) \in {"thread.started", "turn.started", "turn.completed"} -> Metadata(v)
    [] Type(v) = "item.completed" /\ "item" \in DOMAIN v -> CodexItem(v.item)
    [] OTHER -> <<>>


CodexCalls(v) ==
  LET item == Field(v, "item", NoItem)
  IN  CASE Type(v) = "item.added" -> Added(item)
        [] Type(v) = "item.delta" -> Grown(item)
        [] Type(v) = "item.completed" /\ IsCall(item) ->
             [id \in DOMAIN calls \ {CallId(item)} |-> calls[id]]
        [] OTHER -> calls

--------------------------------------------------------------------------------
(* claude, opencode, oai-runner.                                           *)

ClaudeBlock(b) ==
  CASE Type(b) = "thinking" -> SaidOf("Thinking", b, "thinking")
    [] Type(b) = "tool_use" -> <<ToolCall(Named(b), Field(b, "input", <<>>))>>
    [] Type(b) = "tool_result" ->
         <<ToolResult(Field(b, "tool_name", "unknown_tool"), Field(b, "content", None),
                      Succeeded(b))>>
    [] OTHER -> <<>>

\* The text of the message is one, and comes after its calls.
ClaudeAssistant(v) ==
  LET content == Field(v, "content", <<>>)
  IN  (IF "usage" \in DOMAIN v THEN Metadata(v) ELSE <<>>)
      \o Map(ClaudeBlock, content)
      \o FinalText(Text(SelectSeq(content, LAMBDA b : Type(b) = "text")))

\* resolve_tool_name_from_result: "named" is the name found in the content, if one is.
ClaudeUser(v) ==
  Map(LAMBDA b : <<ToolResult(Field(b, "named", Field(v, "named", Field(b, "tool_use_id", "unknown"))),
                              Field(b, "content", Field(v, "result_content", None)),
                              Succeeded(b))>>,
      SelectSeq(Field(v, "content", <<>>), LAMBDA b : Type(b) = "tool_result"))

ClaudePartial(b) ==
  CASE Type(b) \in {"text", "text_delta"} -> SaidOf("TextDelta", b, "text")
    [] Type(b) \in {"thinking", "thinking_delta"} -> SaidOf("Thinking", b, "thinking")
    [] Type(b) = "tool_use" -> <<ToolCall(Named(b), Field(b, "input", <<>>))>>
    [] OTHER -> <<>>

Claude(v) ==
  CASE Type(v) \in {"system", "rate_limit_event"} -> Metadata(v)
    [] Type(v) = "assistant" -> ClaudeAssistant(v)
    [] Type(v) = "user" -> ClaudeUser(v)
    [] Type(v) = "result" ->
         IF Succeeded(v) THEN SaidOf("FinalText", v, "result") ELSE Fatal(v)
    [] Type(v) = "content_block_start" -> ClaudePartial(Field(v, "content_block", NoItem))
    [] Type(v) = "content_block_delta" -> ClaudePartial(Field(v, "delta", NoItem))
    [] OTHER -> <<>>

\* A tool part is told when the tool has ended, its call with its result.
OpencodePart(p) ==
  CASE Type(p) = "text" -> SaidOf("TextDelta", p, "text")
    [] Type(p) = "tool" /\ Field(p, "status", "") \in {"completed", "error"} ->
         LET tool == Field(p, "tool", "unknown_tool")
         IN  <<ToolCall(tool, Field(p, "input", <<>>)),
               ToolResult(tool, Field(p, "output", None),
                          p.status = "completed" /\ Field(p, "exit", 0) = 0)>>
    [] OTHER -> <<>>

Opencode(v) ==
  IF "part" \in DOMAIN v THEN OpencodePart(v.part)
  ELSE CASE Type(v) = "text" /\ "text" \in DOMAIN v -> SaidOf("TextDelta", v, "text")
         [] Type(v) = "tool_use" ->
              <<ToolCall(Named(v), Field(v, "input", Field(v, "arguments", <<>>)))>>
         [] Type(v) = "tool_result" ->
              <<ToolResult(Field(v, "name", Field(v, "tool_name", Field(v, "tool_use_id", "unknown_tool"))),
                           Field(v, "content", Field(v, "output", None)), Succeeded(v))>>
         [] Type(v) = "error" -> Fatal(v)
         [] OTHER -> SaidOf("FinalText", v, "content")

OaiRunner(v) ==
  CASE Type(v) = "text_chunk" -> SaidOf("TextDelta", v, "text")
    [] Type(v) = "result" -> SaidOf("FinalText", v, "text")
    [] OTHER -> <<>>

--------------------------------------------------------------------------------
(* gemini: a document may be printed over several lines.                   *)

GeminiPart(p) ==
  (IF "call" \in DOMAIN p THEN <<ToolCall(Named(p), p.call)>> ELSE <<>>)
  \o (IF "response" \in DOMAIN p THEN <<ToolResult(Named(p), p.response, TRUE)>> ELSE <<>>)

GeminiCalls(candidates) == Map(LAMBDA parts : Map(GeminiPart, parts), candidates)

\* extract_gemini_final_text: the first of these that is not empty.
GeminiAnswer(v) ==
  LET texts == SelectSeq(<<Field(v, "response", <<>>), Field(v, "content_text", <<>>),
                           Text(Field(v, "parts", <<>>))>>
                         \o [i \in DOMAIN Field(v, "candidates", <<>>) |-> Text(v.candidates[i])],
                         LAMBDA t : t # <<>>)
  IN  IF texts = <<>> THEN <<>> ELSE texts[1]

Gemini(v) ==
  LET candidates == GeminiCalls(Field(v, "candidates", <<>>))
      Meta(field) == IF field \in DOMAIN v THEN Metadata(v) ELSE <<>>
  IN  IF Type(v) = "partialResult" THEN SaidOf("TextDelta", v, "partial") \o candidates
      ELSE IF Type(v) \in {"functionCall", "functionResponse"}
              /\ {"call", "response"} \cap DOMAIN v # {} THEN GeminiPart(v)
      ELSE IF "text" \in DOMAIN v THEN SaidOf("TextDelta", v, "text")
      ELSE Meta("session_id") \o Meta("stats") \o candidates \o FinalText(GeminiAnswer(v))

\* A line that is no value by itself opens, or goes on with, a document.
Gathers(line) == line.value = None /\ (line.raw = "{" \/ held # <<>>)
Closes(line) == depth + line.braces <= 0
GatheredValue(lines) == IF lines \in DOMAIN Documents THEN Documents[lines] ELSE None

--------------------------------------------------------------------------------

Parsed(tool, v) ==
  CASE tool = "claude" -> Claude(v)
    [] tool = "codex" -> Codex(v)
    [] tool = "gemini" -> Gemini(v)
    [] tool = "opencode" -> Opencode(v)
    [] tool = "oai-runner" -> OaiRunner(v)

EventsOf(v, text) == IF v = None THEN <<Said("TextDelta", text)>> ELSE Parsed(print.tool, v)

\* A final text equal to the one sent before it is not sent again.
SendOne(told, e) ==
  IF e.event = "FinalText" /\ e.text = told.last THEN told
  ELSE [sent |-> Append(told.sent, e),
        last |-> IF e.event = "FinalText" THEN e.text ELSE told.last]

Send(new) ==
  LET told == FoldLeft(SendOne, [sent |-> <<>>, last |-> last], new)
  IN  events' = events \o told.sent /\ last' = told.last

Init ==
  /\ print \in Prints
  /\ at = 0 /\ calls = [id \in {} |-> None] /\ held = <<>> /\ depth = 0
  /\ last = None /\ events = <<>>

Line ==
  /\ at < Len(print.lines)
  /\ at' = at + 1
  /\ LET line == print.lines[at + 1]
         gathered == Append(held, line.raw)
     IN  IF print.tool = "gemini" /\ Gathers(line)
         THEN /\ IF Closes(line)
                 THEN held' = <<>> /\ depth' = 0 /\ Send(EventsOf(GatheredValue(gathered), gathered))
                 ELSE held' = gathered /\ depth' = depth + line.braces /\ UNCHANGED <<last, events>>
              /\ UNCHANGED calls
         ELSE /\ Send(EventsOf(line.value, <<line.raw>>))
              /\ calls' = IF print.tool = "codex" /\ line.value # None THEN CodexCalls(line.value)
                          ELSE calls
              /\ UNCHANGED <<held, depth>>
  /\ UNCHANGED print

Next == Line
Spec == Init /\ [][Next]_vars

--------------------------------------------------------------------------------
(* Properties.                                                             *)

AllRead == at = Len(print.lines)
Told(event) == SelectSeq(events, LAMBDA e : e.event = event)

\* Every call the CLI made is told once, with its own name and the whole of its
\* arguments, however its pieces were mixed with those of other calls and in however
\* many frames it was shown (CodexParser.pending, parse_opencode_part, json_accum).
CallsTold ==
  AllRead =>
    /\ Len(Told("ToolCall")) = Len(print.calls)
    /\ \A i \in DOMAIN print.calls :
         Cardinality({j \in DOMAIN events :
                        events[j] = ToolCall(print.calls[i].name, print.calls[i].arguments)}) = 1

\* The answers told are the ones given: one repeated by the frame that sums up the turn
\* is told once, and none is lost because it is like an earlier one (last_final_text).
AnswersTold ==
  AllRead => [i \in DOMAIN Told("FinalText") |-> Told("FinalText")[i].text] = print.answers
================================================================================
