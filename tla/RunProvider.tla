------------------------------ MODULE RunProvider ------------------------------
(***************************************************************************)
(* run_provider of animus-plugin-runtime, lib.rs: the runtime under a        *)
(* provider plugin that wraps a session backend. Every line of stdin gets a  *)
(* task of its own; a run's task turns the events of its session into        *)
(* notifications, one by one, and answers with all of them collected. The    *)
(* frames of all tasks, and the log entries the plugin's code queues, share  *)
(* one stdout behind a lock. The session backend is a script: the events it  *)
(* has for the run, or the way it refuses.                                   *)
(***************************************************************************)
EXTENDS Naturals, Sequences, SequencesExt, FiniteSets

CONSTANTS
  Runs,     \* requests agent/run and agent/resume
  Scripts,  \* what the runs' sessions may do: [start |-> ..., events |-> ...] of each
  Inputs,   \* what the host may write: sequences of requests
  MaxLogs   \* bound on the log entries

IsSeq(s) == Len(s) \in Nat /\ s = [i \in 1..Len(s) |-> s[i]]

\* Each run is asked for once, and a text is a sequence.
RunConstants ==
  /\ "none" \notin Runs
  /\ \A sessions \in Scripts : \A r \in Runs :
       LET events == sessions[r].events IN
       /\ IsSeq(events)
       /\ \A i \in DOMAIN events :
            events[i].kind \in {"TextDelta", "FinalText"} => IsSeq(events[i].data)
  /\ \A asked \in Inputs :
       /\ IsSeq(asked)
       /\ \A i \in DOMAIN asked : asked[i].method \in {"run", "cancel"} => asked[i].run \in Runs
       /\ \A i, j \in DOMAIN asked :
            asked[i].method = "run" /\ asked[j].method = "run" /\ asked[i].run = asked[j].run => i = j

VARIABLES
  input,    \* requests on stdin that were not read
  open,     \* the host has not closed stdin behind them
  process,  \* "up", "exited"
  script,   \* of each run
  task,     \* "none", "spawned", "running", "done" or "dropped"
  pending,  \* the events the session has for the run's task, in order
  given,    \* the events the task took, in order
  ended,    \* the task saw the end of the events, or of those it waits for
  acc,      \* what the task collected
  logs,     \* log entries queued for the forwarder
  logged,   \* how many there were
  stdout    \* the frames about each run, and about none: the order between them is free
vars == <<input, open, process, script, task, pending, given, ended, acc, logs, logged, stdout>>

Method ==
  [TextDelta |-> "agent/output", FinalText |-> "agent/output", Thinking |-> "agent/thinking",
   ToolCall |-> "agent/toolCall", ToolResult |-> "agent/toolResult", Error |-> "agent/error"]

\* The list of the result an event is pushed to.
List ==
  [Thinking |-> "thinking", ToolCall |-> "tool_calls", ToolResult |-> "tool_results",
   Artifact |-> "metadata", Metadata |-> "metadata", Error |-> "errors"]

Empty ==
  [output |-> <<>>, thinking |-> <<>>, tool_calls |-> <<>>, tool_results |-> <<>>,
   metadata |-> <<>>, errors |-> <<>>, exit_code |-> 0]

\* A final text begins a line of its own.
Joined(output, text) ==
  (IF output # <<>> /\ Last(output) # "nl" THEN Append(output, "nl") ELSE output) \o text

\* A text is a sequence of words and line ends; any other payload is a value. The
\* exit code is unwrap_or(0): a session that ends without one has succeeded.
Collect(a, e) ==
  CASE e.kind = "TextDelta" -> [a EXCEPT !.output = @ \o e.data]
    [] e.kind = "FinalText" -> [a EXCEPT !.output = Joined(@, e.data)]
    [] e.kind = "Finished"  -> [a EXCEPT !.exit_code = e.data]
    [] e.kind \in DOMAIN List -> [a EXCEPT ![List[e.kind]] = Append(@, e.data)]
    [] OTHER -> a

\* write_frame: one frame, whole, under the lock of stdout.
Write(r, frame) == [stdout EXCEPT ![r] = Append(@, frame)]

Frames(e) ==
  IF e.kind \in DOMAIN Method
    THEN <<[method |-> Method[e.kind], final |-> e.kind = "FinalText", data |-> e.data]>>
    ELSE <<>>

\* faulty: any error ends the run
EndsAtErrors(e) == e.kind \in {"Finished", "Error"}

\* An error ends the run unless it is recoverable.
Ends(e) == e.kind = "Finished" \/ (e.kind = "Error" /\ ~e.recoverable)

Init ==
  /\ input \in Inputs /\ open = TRUE /\ process = "up"
  /\ script \in Scripts
  /\ task = [r \in Runs |-> "none"]
  /\ pending = [r \in Runs |-> <<>>] /\ given = [r \in Runs |-> <<>>]
  /\ ended = [r \in Runs |-> FALSE]
  /\ acc = [r \in Runs |-> Empty]
  /\ logs = <<>> /\ logged = 0 /\ stdout = [r \in Runs \cup {"none"} |-> <<>>]

HostCloses ==
  /\ open /\ open' = FALSE
  /\ UNCHANGED <<input, process, script, task, pending, given, ended, acc, logs, logged, stdout>>

Gone(t) == [r \in Runs |-> IF t[r] = "done" THEN "done" ELSE "dropped"]

\* The loop takes a line and spawns its task. The tasks of what is answered out of
\* hand, and of what is not, are run here: they touch nothing but stdout. exit
\* leaves the process, and every task, where it is.
Read ==
  /\ process = "up" /\ input # <<>>
  /\ input' = Tail(input)
  /\ LET request == Head(input) IN
     \/ /\ request.method = "run"
        /\ task' = [task EXCEPT ![request.run] = "spawned"]
        /\ UNCHANGED <<process, stdout, pending, logs>>
     \/ /\ request.method = "ping"
        /\ stdout' = Write("none", [method |-> "response", to |-> "ping"])
        /\ UNCHANGED <<process, task, pending, logs>>
     \/ /\ request.method = "cancel"
        /\ \/ /\ task[request.run] = "running" \* the session takes what it had not begun
              /\ \E k \in 0..Len(pending[request.run]) :
                   pending' = [pending EXCEPT ![request.run] = SubSeq(@, 1, k)]
              /\ stdout' = Write(request.run, [method |-> "cancelled", ok |-> TRUE])
           \/ /\ task[request.run] # "running"    \* no such session
              /\ stdout' = Write(request.run, [method |-> "cancelled", ok |-> FALSE])
              /\ UNCHANGED pending
        /\ UNCHANGED <<process, task, logs>>
     \/ /\ request.method = "exit"
        /\ process' = "exited" /\ task' = Gone(task) /\ logs' = <<>>
        /\ UNCHANGED <<pending, stdout>>
  /\ UNCHANGED <<open, script, given, ended, acc, logged>>

\* At the end of stdin the loop returns, main with it, and what still runs is dropped.
EndOfInput ==
  /\ process = "up" /\ ~open /\ input = <<>>
  /\ process' = "exited" /\ task' = Gone(task) /\ logs' = <<>>
  /\ UNCHANGED <<input, open, script, pending, given, ended, acc, logged, stdout>>

\* handle_agent_run to the start of the session, which may refuse.
Start(r) ==
  /\ process = "up" /\ task[r] = "spawned"
  /\ IF script[r].start = "ok"
       THEN /\ task' = [task EXCEPT ![r] = "running"]
            /\ pending' = [pending EXCEPT ![r] = script[r].events]
            /\ UNCHANGED stdout
       ELSE /\ task' = [task EXCEPT ![r] = "done"]
            /\ stdout' = Write(r, [method |-> "response", error |-> script[r].start])
            /\ UNCHANGED pending
  /\ UNCHANGED <<input, open, process, script, given, ended, acc, logs, logged>>

Hears(r) == process = "up" /\ task[r] = "running" /\ ~ended[r]

\* faulty: the loop waits for a Finished
EventsGoOn(r) == Hears(r) /\ pending[r] = <<>> /\ UNCHANGED vars

\* The end of the events ends the loop as Finished does.
EventsEnd(r) ==
  /\ Hears(r) /\ pending[r] = <<>>
  /\ ended' = [ended EXCEPT ![r] = TRUE]
  /\ UNCHANGED <<input, open, process, script, task, pending, given, acc, logs, logged, stdout>>

\* One event: its notification is written, then it is collected.
Event(r) ==
  /\ Hears(r) /\ pending[r] # <<>>
  /\ LET e == Head(pending[r]) IN
       /\ given' = [given EXCEPT ![r] = Append(@, e)]
       /\ stdout' = [stdout EXCEPT ![r] = @ \o Frames(e)]
       /\ acc' = [acc EXCEPT ![r] = Collect(@, e)]
       /\ ended' = [ended EXCEPT ![r] = Ends(e)]
  /\ pending' = [pending EXCEPT ![r] = Tail(@)]
  /\ UNCHANGED <<input, open, process, script, task, logs, logged>>

Respond(r) ==
  /\ process = "up" /\ task[r] = "running" /\ ended[r]
  /\ task' = [task EXCEPT ![r] = "done"]
  /\ stdout' = Write(r, [method |-> "response", result |-> acc[r]])
  /\ UNCHANGED <<input, open, process, script, pending, given, ended, acc, logs, logged>>

\* The plugin's code logs about a run it works for; the forwarder writes it later.
Log(r) ==
  /\ process = "up" /\ task[r] = "running" /\ logged < MaxLogs
  /\ logs' = Append(logs, r) /\ logged' = logged + 1
  /\ UNCHANGED <<input, open, process, script, task, pending, given, ended, acc, stdout>>

Forward ==
  /\ process = "up" /\ logs # <<>>
  /\ logs' = Tail(logs)
  /\ stdout' = Write(Head(logs), [method |-> "log/entry"])
  /\ UNCHANGED <<input, open, process, script, task, pending, given, ended, acc, logged>>

\* The run's task.
Work(r) == Start(r) \/ Event(r) \/ EventsEnd(r) \/ Respond(r)

Next ==
  \/ HostCloses \/ Read \/ EndOfInput \/ Forward
  \/ \E r \in Runs : Work(r) \/ Log(r)

\* The runtime schedules every task.
Fairness == WF_vars(Read) /\ WF_vars(Forward) /\ \A r \in Runs : WF_vars(Work(r))

Spec == Init /\ [][Next]_vars
FairSpec == Spec /\ Fairness

--------------------------------------------------------------------------------
(* Properties.                                                             *)

\* Where the frames of a method are among those about a run.
Places(frames, method) == {i \in DOMAIN frames : frames[i].method = method}

\* The list is what those frames have, in their order.
Lists(frames, method, list) ==
  \E at \in [DOMAIN list -> Places(frames, method)] :
    /\ \A i \in Places(frames, method) : \E k \in DOMAIN list : at[k] = i
    /\ \A k, l \in DOMAIN list : k < l => at[k] < at[l]
    /\ \A k \in DOMAIN list : list[k] = frames[at[k]].data

\* The text is the texts of those frames, whole and in their order, and line ends
\* between them.
Joins(frames, method, text) ==
  \E at \in [Places(frames, method) -> 0..Len(text)] :
    LET Until(i) == at[i] + Len(frames[i].data) IN
    /\ \A i \in Places(frames, method) :
         /\ Until(i) <= Len(text)
         /\ \A k \in DOMAIN frames[i].data : text[at[i] + k] = frames[i].data[k]
    /\ \A i, j \in Places(frames, method) : i < j => Until(i) <= at[j]
    /\ \A p \in DOMAIN text :
         text[p] = "nl" \/ \E i \in Places(frames, method) : p \in at[i] + 1 .. Until(i)

\* What was collected of a run is what was told of it.
Agrees(frames, answer) ==
  /\ Lists(frames, "agent/thinking", answer.thinking)
  /\ Lists(frames, "agent/toolCall", answer.tool_calls)
  /\ Lists(frames, "agent/toolResult", answer.tool_results)
  /\ Lists(frames, "agent/error", answer.errors)
  /\ Joins(frames, "agent/output", answer.output)

\* The answer is there once, and nothing of the run follows it.
Answered(frames, answer) ==
  \E at \in DOMAIN frames :
    /\ Places(frames, "response") = {at} /\ frames[at].result = answer
    /\ \A i \in DOMAIN frames : i > at => frames[i].method \in {"log/entry", "cancelled"}

\* The session has nothing more to say that counts.
Over(events) ==
  LET last == events[Len(events)] IN
  last.kind = "Finished" \/ (last.kind = "Error" /\ ~last.recoverable)

\* A run is answered once and last: none of its notifications follows. The lists of
\* the answer are those of the notifications, in their order, however the frames of
\* other runs and the cancellations fall between them, its text is theirs; and it was
\* not answered before the session's events were over: its last was Finished or a
\* fatal error, or there was no other.
RunReported ==
  \A r \in Runs : task[r] = "done" /\ script[r].start = "ok" =>
    /\ Answered(stdout[r], acc[r])
    /\ Agrees(stdout[r], acc[r])
    /\ pending[r] # <<>> => Over(given[r])

\* A run that was read is answered, unless the process leaves: what a session does
\* not say, a cancellation that takes the rest of its events, or an error among
\* them, leaves no caller without an answer.
RunsAnswered == \A r \in Runs : task[r] = "spawned" ~> task[r] \in {"done", "dropped"}
================================================================================
