----------------------------- MODULE MCRunProvider -----------------------------
(* Sessions that refuse, end with Finished or without, and fail midway,     *)
(* beside one that has little to say.                                       *)
EXTENDS Integers, TLC
CONSTANTS r1, r2
E(kind, data) == [kind |-> kind, data |-> data]
Error(data, recoverable) == [kind |-> "Error", data |-> data, recoverable |-> recoverable]
Session(events) == [start |-> "ok", events |-> events]
Sessions ==
  {[start |-> "refused", events |-> <<>>],
   Session(<<E("TextDelta", <<"a">>), E("FinalText", <<"b", "nl">>), E("Finished", 1)>>),
   Session(<<E("Thinking", 1), Error(2, TRUE), E("ToolCall", 3), E("ToolResult", 4)>>),
   Session(<<Error(1, FALSE), E("Thinking", 2), E("Finished", 0)>>)}
MCScripts == {r1 :> s @@ r2 :> Session(<<E("Thinking", 5), E("Metadata", 6), E("Finished", 0)>>) : s \in Sessions}
Ask(r) == [method |-> "run", run |-> r]
Cancel(r) == [method |-> "cancel", run |-> r]
MCInputs ==
  {<<Ask(r1), Ask(r2), Cancel(r1), [method |-> "ping"]>>, <<Ask(r1), Ask(r2), [method |-> "exit"]>>,
   <<Cancel(r2), Ask(r1), Cancel(r1)>>}
================================================================================
