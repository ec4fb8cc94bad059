----------------------------- MODULE SessionRun -----------------------------
(***************************************************************************)
(* One session of a CLI-wrapping backend (animus-session-backend): the     *)
(* child process and the descendants that inherit its pipes, the session   *)
(* task that feeds, awaits or kills the child, the two readers that turn   *)
(* its lines into events, the registry that terminate_session looks in,    *)
(* and the caller that drains the bounded channel of events.  Sessions     *)
(* have fresh ids and share nothing, so one is enough.                     *)
(*                                                                         *)
(* backend: "native" stands for claude, codex, opencode and oai-runner,    *)
(* which differ in the lines they parse; "gemini" joins its readers before *)
(* it reports a failure; "subprocess" is untracked and has no timeout.     *)
(* caller: "runtime" is handle_agent_run (animus-plugin-runtime, lib.rs),  *)
(* which stops at a fatal error too; "drain" stops at Finished only.       *)
(***************************************************************************)
EXTENDS Naturals, Sequences, FiniteSets

CONSTANTS
  PipeCap,   \* lines, or pieces of the prompt, a pipe holds
  ChanCap,   \* events the channel holds (128 in the code)
  MaxPrompt, \* bound: pieces the prompt is written in
  MaxLines   \* bound: lines written to stdout, and to stderr

ASSUME CapAssumption == PipeCap \in Nat \ {0} /\ ChanCap \in Nat \ {0}
ASSUME BoundAssumption == MaxPrompt \in Nat /\ MaxLines \in Nat

VARIABLES
  backend, caller, timed,  \* who serves, who asks, and is there a timeout
  pc,        \* where the session task is
  unsent,    \* pieces of the prompt still to be written
  ended,     \* what Finished said: the child's own code, or Some(1)
  inpipe,    \* pieces in the child's stdin
  listening, \* stdin is open at both ends
  child,     \* the child process
  kin,       \* a descendant: in the child's process group, or out of it
  pipe,      \* lines in stdout and in stderr
  said,      \* lines written that are worth an event
  garbled,   \* a line that is not UTF-8 was written
  rd,        \* where each reader is; "done": its end of the pipe is closed
  chan,      \* the channel of events
  registered, cancelled,   \* the cancel sender is in the registry, was used
  call,      \* where the caller is
  heard,     \* events of each stream the caller received
  answer     \* the exit code the caller reports

request == <<backend, caller, timed>>
task == <<pc, unsent, ended>>
stdin == <<inpipe, listening>>
procs == <<child, kin>>
lines == <<pipe, said, garbled>>
registry == <<registered, cancelled>>
asker == <<call, heard, answer>>
vars == <<request, task, stdin, procs, lines, rd, chan, registry, asker>>

Streams == {"out", "err"}
Lines == {"text", "silent", "fatal", "garbled"}
Kinds(s) == IF s = "out" THEN Lines ELSE {"text", "garbled"}
Events == {"started", "out", "err", "fatal", "error", "finished"}
Codes == {"none", "own", "one", "zero"}

TypeOfTask ==
  /\ backend \in {"native", "gemini", "subprocess"}
  /\ caller \in {"runtime", "drain"} /\ timed \in BOOLEAN
  /\ pc \in {"idle", "spawning", "announcing", "writing", "waiting", "joining",
             "flushing", "failing", "finishing", "leaving", "done"}
  /\ unsent \in 0..MaxPrompt /\ ended \in Codes \ {"zero"}
  /\ registered \in BOOLEAN /\ cancelled \in BOOLEAN

TypeOfProcesses ==
  /\ inpipe \in 0..PipeCap /\ listening \in BOOLEAN
  /\ child \in {"none", "alive", "zombie", "reaped"}
  /\ kin \in {"none", "group", "escaped"}
  /\ pipe \in [Streams -> Seq(Lines)]
  /\ \A s \in Streams : Len(pipe[s]) <= PipeCap
  /\ said \in [Streams -> 0..MaxLines] /\ garbled \in [Streams -> BOOLEAN]

TypeOfEvents ==
  /\ rd \in [Streams -> {"none", "reading", "text", "fatal", "done"}]
  /\ chan \in Seq(Events) /\ Len(chan) <= ChanCap
  /\ call \in {"starting", "draining", "done"}
  /\ heard \in [Streams -> Nat] /\ answer \in Codes

TypeOK == TypeOfTask /\ TypeOfProcesses /\ TypeOfEvents

Init ==
  /\ backend \in {"native", "gemini", "subprocess"}
  /\ caller \in {"runtime", "drain"} /\ timed \in BOOLEAN
  /\ pc = "idle" /\ unsent \in 0..MaxPrompt /\ ended = "none"
  /\ inpipe = 0 /\ listening = TRUE
  /\ child = "none" /\ kin = "none"
  /\ pipe = [s \in Streams |-> <<>>] /\ said = [s \in Streams |-> 0]
  /\ garbled = [s \in Streams |-> FALSE]
  /\ rd = [s \in Streams |-> "none"] /\ chan = <<>>
  /\ registered = FALSE /\ cancelled = FALSE
  /\ call = "starting" /\ heard = [s \in Streams |-> 0] /\ answer = "none"

----------------------------------------------------------------------------
(* The session task.                                                       *)

Goes(from, to) == pc = from /\ pc' = to

SendUnnoticed(event) ==             \* faulty: waits for a caller that has gone
  Len(chan) < ChanCap /\ chan' = Append(chan, event)

\* A bounded send: it waits for room, and is lost on a caller that has gone.
Send(event) ==
  IF call = "done" THEN UNCHANGED chan
  ELSE Len(chan) < ChanCap /\ chan' = Append(chan, event)

StartUnregistered ==                \* faulty: the sender is not registered
  /\ Goes("idle", IF backend = "subprocess" THEN "announcing" ELSE "spawning")
  /\ UNCHANGED <<request, unsent, ended, stdin, procs, lines, rd, chan,
                 registry, asker>>

\* start_session: registered first, then the task is spawned.  The subprocess
\* backend registers nothing and announces the session before it spawns.
Start ==
  /\ Goes("idle", IF backend = "subprocess" THEN "announcing" ELSE "spawning")
  /\ registered' = (backend # "subprocess")
  /\ UNCHANGED <<request, unsent, ended, stdin, procs, lines, rd, chan,
                 cancelled, asker>>

Announce ==
  /\ Goes("announcing", IF child = "none" THEN "spawning" ELSE "writing")
  /\ Send("started")
  /\ UNCHANGED <<request, unsent, ended, stdin, procs, lines, rd, registry, asker>>

Spawn ==
  /\ Goes("spawning", IF backend = "subprocess" THEN "writing" ELSE "announcing")
  /\ child' = "alive"
  /\ UNCHANGED <<request, unsent, ended, stdin, kin, lines, rd, chan, registry, asker>>

\* Leaving run_session early drops the Child with the ends of the pipes that
\* no reader holds; nothing is killed.
Drops == rd' = [s \in Streams |-> IF rd[s] = "none" THEN "done" ELSE rd[s]]

SpawnFails ==
  /\ Goes("spawning", "failing") /\ Drops
  /\ UNCHANGED <<request, unsent, ended, stdin, procs, lines, chan, registry, asker>>

\* write_all, while nobody reads the child's stdout or stderr yet.
WritePrompt ==
  /\ pc = "writing" /\ unsent > 0 /\ listening /\ inpipe < PipeCap
  /\ unsent' = unsent - 1 /\ inpipe' = inpipe + 1
  /\ UNCHANGED <<request, pc, ended, listening, procs, lines, rd, chan, registry, asker>>

WriteFails ==
  /\ Goes("writing", "failing") /\ unsent > 0 /\ ~listening /\ Drops
  /\ child' = IF child = "zombie" THEN "reaped" ELSE child
  /\ UNCHANGED <<request, unsent, ended, stdin, kin, lines, chan, registry, asker>>

\* Stdin is dropped; what the child does with the rest of it no longer matters.
SpawnReaders ==
  /\ Goes("writing", "waiting") /\ unsent = 0
  /\ rd' = [s \in Streams |-> "reading"]
  /\ inpipe' = 0 /\ listening' = FALSE
  /\ UNCHANGED <<request, unsent, ended, procs, lines, chan, registry, asker>>

\* The select!: the child's exit, the timeout or the cancellation, any that
\* is ready.
ChildExited ==
  /\ Goes("waiting", "joining") /\ child = "zombie" /\ child' = "reaped"
  /\ UNCHANGED <<request, unsent, ended, stdin, kin, lines, rd, chan, registry, asker>>

KillOnTimeout ==                    \* faulty: cancel_rx is not awaited
  /\ backend # "subprocess" /\ timed
  /\ Goes("waiting", IF backend = "gemini" THEN "flushing" ELSE "failing")
  /\ child' = "reaped" /\ kin' = IF kin = "group" THEN "none" ELSE kin
  /\ UNCHANGED <<request, unsent, ended, stdin, lines, rd, chan, registry, asker>>

KillUnreaped ==                     \* faulty: the group is signalled in vain
  /\ backend # "subprocess" /\ (timed \/ cancelled)
  /\ Goes("waiting", IF backend = "gemini" THEN "flushing" ELSE "failing")
  /\ UNCHANGED <<request, unsent, ended, stdin, procs, lines, rd, chan, registry, asker>>

\* kill_and_reap_child: the process group dies, a descendant out of it lives.
Kill ==
  /\ backend # "subprocess" /\ (timed \/ cancelled)
  /\ Goes("waiting", IF backend = "gemini" THEN "flushing" ELSE "failing")
  /\ child' = "reaped" /\ kin' = IF kin = "group" THEN "none" ELSE kin
  /\ UNCHANGED <<request, unsent, ended, stdin, lines, rd, chan, registry, asker>>

JoinedOne == rd["out"] = "done"     \* faulty: stderr is not joined

Joined == \A s \in Streams : rd[s] = "done"

JoinReadersNot ==                   \* faulty: Finished is sent at once
  /\ \/ Goes("joining", "finishing") /\ ended' = "own"
     \/ Goes("flushing", "failing") /\ UNCHANGED ended
  /\ UNCHANGED <<request, unsent, stdin, procs, lines, rd, chan, registry, asker>>

JoinReaders ==
  /\ Joined
  /\ \/ Goes("joining", "finishing") /\ ended' = "own"
     \/ Goes("flushing", "failing") /\ UNCHANGED ended
  /\ UNCHANGED <<request, unsent, stdin, procs, lines, rd, chan, registry, asker>>

ReportError ==
  /\ Goes("failing", "finishing") /\ Send("error") /\ ended' = "one"
  /\ UNCHANGED <<request, unsent, stdin, procs, lines, rd, registry, asker>>

Finish ==
  /\ Goes("finishing", "leaving") /\ Send("finished")
  /\ UNCHANGED <<request, unsent, ended, stdin, procs, lines, rd, registry, asker>>

Unregister ==
  /\ Goes("leaving", "done") /\ registered' = FALSE
  /\ UNCHANGED <<request, unsent, ended, stdin, procs, lines, rd, chan, cancelled, asker>>

----------------------------------------------------------------------------
(* The readers.  A line yields an event, or none: blank, not understood, or *)
(* the FinalText just sent.  next_line fails on what is not UTF-8.         *)

Read(s) ==
  /\ rd[s] = "reading" /\ pipe[s] # <<>>
  /\ pipe' = [pipe EXCEPT ![s] = Tail(@)]
  /\ rd' = [rd EXCEPT ![s] = CASE Head(pipe[s]) = "garbled" -> "done"
                               [] Head(pipe[s]) = "silent" -> "reading"
                               [] OTHER -> Head(pipe[s])]
  /\ UNCHANGED <<request, task, stdin, procs, said, garbled, chan, registry, asker>>

Forward(s) ==
  /\ rd[s] \in {"text", "fatal"}
  /\ Send(IF rd[s] = "fatal" THEN "fatal" ELSE s)
  /\ rd' = [rd EXCEPT ![s] = "reading"]
  /\ UNCHANGED <<request, task, stdin, procs, lines, registry, asker>>

\* The writing ends of stdout and stderr are held by the child and its kin.
Held == child = "alive" \/ kin # "none"

EndOfFile(s) ==
  /\ rd[s] = "reading" /\ pipe[s] = <<>> /\ ~Held
  /\ rd' = [rd EXCEPT ![s] = "done"]
  /\ UNCHANGED <<request, task, stdin, procs, lines, chan, registry, asker>>

----------------------------------------------------------------------------
(* The processes: they do as they please.                                  *)

ReadStdin ==
  /\ child = "alive" /\ listening /\ inpipe > 0 /\ inpipe' = inpipe - 1
  /\ UNCHANGED <<request, task, listening, procs, lines, rd, chan, registry, asker>>

CloseStdin ==
  /\ child = "alive" /\ listening /\ listening' = FALSE
  /\ UNCHANGED <<request, task, inpipe, procs, lines, rd, chan, registry, asker>>

WriteLine(s, kind) ==
  /\ Held /\ rd[s] # "done" /\ Len(pipe[s]) < PipeCap
  /\ said[s] < MaxLines /\ ~garbled[s]
  /\ pipe' = [pipe EXCEPT ![s] = Append(@, kind)]
  /\ said' = [said EXCEPT ![s] = IF kind \in {"text", "fatal"} THEN @ + 1 ELSE @]
  /\ garbled' = [garbled EXCEPT ![s] = kind = "garbled"]
  /\ UNCHANGED <<request, task, stdin, procs, rd, chan, registry, asker>>

Fork ==
  /\ child = "alive" /\ kin = "none" /\ kin' \in {"group", "escaped"}
  /\ UNCHANGED <<request, task, stdin, child, lines, rd, chan, registry, asker>>

\* A child the task no longer owns is reaped by the runtime.
Exit ==
  /\ child = "alive" /\ listening' \in {FALSE, listening /\ kin # "none"}
  /\ child' = IF pc \in {"announcing", "writing", "waiting"} THEN "zombie" ELSE "reaped"
  /\ UNCHANGED <<request, task, inpipe, kin, lines, rd, chan, registry, asker>>

KinExit ==
  /\ kin # "none" /\ kin' = "none" /\ listening' = (listening /\ child = "alive")
  /\ UNCHANGED <<request, task, inpipe, child, lines, rd, chan, registry, asker>>

----------------------------------------------------------------------------
(* The caller.                                                             *)

\* start_session returns when the pid has been sent, or its sender dropped.
Returned ==
  /\ call = "starting" /\ call' = "draining"
  /\ child # "none" \/ pc \in {"failing", "finishing", "leaving", "done"}
  /\ UNCHANGED <<request, task, stdin, procs, lines, rd, chan, registry, heard, answer>>

Comes(event) == call = "draining" /\ chan # <<>> /\ Head(chan) = event

Elsewhere == UNCHANGED <<request, task, stdin, procs, lines, rd, registry>>

Skip == Comes("started") /\ chan' = Tail(chan) /\ Elsewhere /\ UNCHANGED asker

Hear(s) ==
  /\ Comes(s) \/ (s = "out" /\ caller = "drain" /\ Comes("fatal"))
  /\ chan' = Tail(chan) /\ heard' = [heard EXCEPT ![s] = @ + 1]
  /\ Elsewhere /\ UNCHANGED <<call, answer>>

HearError ==
  /\ caller = "drain" /\ Comes("error") /\ chan' = Tail(chan)
  /\ Elsewhere /\ UNCHANGED asker

\* The caller drops the receiver.  After an error the runtime has no exit code
\* and reports unwrap_or(0).
Answer(code) ==
  /\ call' = "done" /\ chan' = <<>> /\ answer' = code
  /\ Elsewhere /\ UNCHANGED heard

StopAtError ==
  /\ caller = "runtime" /\ (Comes("error") \/ Comes("fatal"))
  /\ Answer("zero")

StopAtFinished == Comes("finished") /\ Answer(ended)

\* terminate_session: takes the sender out of the registry, and sends.
Terminate ==
  /\ call # "starting" /\ registered
  /\ registered' = FALSE /\ cancelled' = TRUE
  /\ UNCHANGED <<request, task, stdin, procs, lines, rd, chan, asker>>

----------------------------------------------------------------------------
Task ==
  \/ Start \/ Announce \/ Spawn \/ SpawnFails \/ WritePrompt \/ WriteFails
  \/ SpawnReaders \/ ChildExited \/ Kill \/ JoinReaders \/ ReportError
  \/ Finish \/ Unregister

Reader(s) == Read(s) \/ Forward(s) \/ EndOfFile(s)

Processes ==
  \/ ReadStdin \/ CloseStdin \/ Fork \/ Exit \/ KinExit
  \/ \E s \in Streams : \E kind \in Kinds(s) : WriteLine(s, kind)

Caller ==
  \/ Returned \/ Skip \/ HearError \/ StopAtError \/ StopAtFinished
  \/ \E s \in Streams : Hear(s)

Next == Task \/ Caller \/ Terminate \/ Processes \/ \E s \in Streams : Reader(s)

Spec == Init /\ [][Next]_vars

\* The tasks are scheduled and the caller drains; the processes owe nothing.
Fairness ==
  /\ WF_vars(Task) /\ WF_vars(Caller)
  /\ \A s \in Streams : WF_vars(Reader(s))

FairSpec == Spec /\ Fairness

----------------------------------------------------------------------------
(* Properties.                                                             *)

\* Nothing follows Finished, except after a failure of a native backend, which
\* does not join its readers first: the order of the joins and of the sends.
FinishedIsLast ==
  backend = "gemini" \/ ended = "own" =>
    \A i \in DOMAIN chan : chan[i] = "finished" => i = Len(chan) /\ Joined

\* A caller told the child's own exit code has received an event for every line
\* that is worth one, whoever wrote it, up to the first that is not UTF-8.
WholeOutput ==
  answer = "own" => \A s \in Streams : heard[s] = said[s]

\* When the session reports its end the child is no longer running, unless the
\* prompt could not be written to it.
NoOrphan ==
  pc \in {"finishing", "leaving", "done"} /\ unsent = 0 =>
    child \in {"none", "reaped"}

\* As long as the child runs, terminate_session finds its session, except after
\* a first call of it, a prompt that could not be written, or for subprocess.
Terminable ==
  child = "alive" /\ backend # "subprocess" /\ ~registered =>
    cancelled \/ (pc = "done" /\ unsent > 0)

\* A session whose task awaits the child ends it once it is cancelled or timed
\* out, however full the pipes and the channel are.
KillReaches ==
  (pc = "waiting" /\ backend # "subprocess" /\ (timed \/ cancelled))
    ~> child = "reaped"

\* Once all processes have gone the session ends and the caller, unless it left
\* before, is answered: the task, the readers, the bounded channel and a caller
\* that reads, or does not any more, never wait for one another.
Answered == (child # "none" /\ ~Held) ~> pc = "done" /\ call = "done"

\* "Hard timeout in seconds." (session_request.rs): a timed session ends.
HardTimeout == (timed /\ child # "none") ~> pc = "done"

=============================================================================
