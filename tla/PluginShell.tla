---------------------------- MODULE PluginShell ----------------------------
(***************************************************************************)
(* The generic plugin shell of animus-plugin-runtime (plugin.rs): one read *)
(* loop that dispatches the host's frames in the order they arrive, and    *)
(* one task per domain request or notification that runs the handler the   *)
(* plugin registered.  The loop answers the lifecycle methods itself; the  *)
(* tasks answer the domain requests, in whatever order they finish.        *)
(*                                                                         *)
(* A frame is dispatched when the loop is idle, so the host's pipe is      *)
(* represented by the choice of the next frame.  The payload of a frame is *)
(* left out: what matters is its method, whether it carries an id and      *)
(* which, and how the registered hook or handler ends.  A task slot is     *)
(* used once, so a task also stands for the cancellation token made for it.*)
(***************************************************************************)
EXTENDS Naturals, FiniteSets

CONSTANTS
  Ids,            \* the request ids the host draws from
  Tasks,          \* the handler tasks that may be spawned
  NoId,           \* the id of a frame that carries none
  NoTask,         \* the value of the in-flight table where it has no entry
  MaxAsked,       \* bound: frames asking for an answer under one id
  Cancellation,   \* Plugin::cancellation(..): the table is kept at all
  HostReusesIds   \* the host may use an id that is still in use

ASSUME IdsAssumption == NoId \notin Ids
ASSUME TasksAssumption == NoTask \notin Tasks
ASSUME BoundAssumption == MaxAsked \in Nat
ASSUME SwitchAssumption == Cancellation \in BOOLEAN /\ HostReusesIds \in BOOLEAN

VARIABLES
  pc,         \* where the read loop is
  cur,        \* id of the lifecycle request the loop is serving
  initOk,     \* PluginState.initialize_succeeded
  ready,      \* PluginState.initialized
  inFlight,   \* PluginState.in_flight: id -> the task whose token it holds
  st,         \* per task: how far the spawned future is
  rid,        \* per task: the request id, NoId for a notification handler
  waits,      \* per task: the handler returns only once it is cancelled
  token,      \* per task: its CancellationToken has been tripped
  stream,     \* per task: the subscription the handler left running
  asked,      \* history: frames dispatched that ask for an answer, per id
  answered    \* history: response frames written, per id

loopVars == <<pc, cur>>
gateVars == <<initOk, ready>>
taskVars == <<st, rid, waits, stream>>
ledger   == <<asked, answered>>
vars == <<loopVars, gateVars, inFlight, taskVars, token, ledger>>

FrameIds == Ids \union {NoId}

\* The future of a task: the handler runs, has returned, has left the
\* in-flight table, and has written its response.
Live(t)      == st[t] \in {"running", "returned", "replying"}
IsRequest(t) == rid[t] \in Ids

\* A request the host has no answer to; "lost" ones will never have one.
Unanswered(t) == IsRequest(t) /\ (Live(t) \/ st[t] = "lost")

\* A task is tied to its id until its response is written, and while the
\* subscription it opened lives.
Holds(t) == Unanswered(t) \/ stream[t] = "open"

TypeOK ==
  /\ pc \in {"read", "init", "health", "join", "hook",
             "abort", "closed", "exited"}
  /\ cur \in FrameIds
  /\ initOk \in BOOLEAN /\ ready \in BOOLEAN
  /\ inFlight \in [Ids -> Tasks \union {NoTask}]
  /\ st \in [Tasks -> {"idle", "running", "returned", "replying",
                       "done", "lost"}]
  /\ rid \in [Tasks -> FrameIds]
  /\ waits \in [Tasks -> BOOLEAN]
  /\ token \in [Tasks -> BOOLEAN]
  /\ stream \in [Tasks -> {"none", "open", "stopped"}]
  /\ asked \in [FrameIds -> Nat]
  /\ answered \in [FrameIds -> Nat]

Init ==
  /\ pc = "read" /\ cur = NoId
  /\ initOk = FALSE /\ ready = FALSE
  /\ inFlight = [i \in Ids |-> NoTask]
  /\ st = [t \in Tasks |-> "idle"]
  /\ rid = [t \in Tasks |-> NoId]
  /\ waits = [t \in Tasks |-> FALSE]
  /\ token = [t \in Tasks |-> FALSE]
  /\ stream = [t \in Tasks |-> "none"]
  /\ asked = [i \in FrameIds |-> 0]
  /\ answered = [i \in FrameIds |-> 0]

----------------------------------------------------------------------------
(* Frames the read loop dispatches.                                        *)

\* The host's choice of an id.  A disciplined host does not use the id of a
\* request it has no answer to, nor of a subscription it still listens to.
MayUse(i) ==
  /\ asked[i] < MaxAsked
  /\ HostReusesIds \/ \A t \in Tasks : Holds(t) => rid[t] # i

Ask(i) == asked' = [asked EXCEPT ![i] = @ + 1]

\* write_response: one frame, whole, under the writer's mutex.
Respond(i) == answered' = [answered EXCEPT ![i] = @ + 1]

\* Dispatched and answered in the same turn of the loop.
AnswerInline(i) ==
  /\ pc = "read" /\ MayUse(i)
  /\ Ask(i) /\ Respond(i)
  /\ UNCHANGED <<loopVars, gateVars, inFlight, taskVars, token>>

\* The loop starts a hook and reads no frame until it has ended.
Suspend(i, at) ==
  /\ pc = "read" /\ MayUse(i)
  /\ pc' = at /\ cur' = i
  /\ Ask(i) /\ UNCHANGED answered

\* The hook has ended: write the answer and read the next frame.
Resume ==
  /\ pc' = "read" /\ cur' = NoId
  /\ Respond(cur) /\ UNCHANGED asked

\* "$/ping"; an unparsable or incompatible "initialize"; a request of a
\* method nobody registered; a request before the handshake has completed.
Ping(i) == AnswerInline(i)
InitializeRejected(i) == AnswerInline(i)
UnknownMethod(i) == i \in Ids /\ AnswerInline(i)
NotInitialized(i) == i \in Ids /\ ~ready /\ AnswerInline(i)

\* "$/..." the shell does not know: answered only when it carries an id; the
\* notification changes nothing and is left out.
UnknownMeta(i) == i \in Ids /\ AnswerInline(i)

Initialize(i) ==
  /\ Suspend(i, "init")
  /\ UNCHANGED <<gateVars, inFlight, taskVars, token>>

\* The on_init hook ends.  An error leaves an earlier success in force.
InitializeDone(ok) ==
  /\ pc = "init" /\ Resume
  /\ initOk' = (initOk \/ ok)
  /\ UNCHANGED <<ready, inFlight, taskVars, token>>

Initialized ==
  /\ pc = "read" /\ initOk /\ ready' = TRUE
  /\ UNCHANGED <<loopVars, initOk, inFlight, taskVars, token, ledger>>

Health(i) ==
  /\ Suspend(i, "health")
  /\ UNCHANGED <<gateVars, inFlight, taskVars, token>>

HealthDone ==
  /\ pc = "health" /\ Resume
  /\ UNCHANGED <<gateVars, inFlight, taskVars, token>>

\* "$/cancelRequest": the entry leaves the table and its token is tripped.
CancelRequest(i) ==
  /\ pc = "read" /\ Cancellation /\ inFlight[i] \in Tasks
  /\ token' = [token EXCEPT ![inFlight[i]] = TRUE]
  /\ inFlight' = [inFlight EXCEPT ![i] = NoTask]
  /\ UNCHANGED <<loopVars, gateVars, taskVars, ledger>>

Spawn(t, i, w) ==
  /\ st[t] = "idle"
  /\ st' = [st EXCEPT ![t] = "running"]
  /\ rid' = [rid EXCEPT ![t] = i]
  /\ waits' = [waits EXCEPT ![t] = w]
  /\ UNCHANGED stream

CallKeepsEntry(t, i, w) ==        \* faulty: entry(..).or_insert(..)
  /\ pc = "read" /\ ready /\ MayUse(i)
  /\ Spawn(t, i, w) /\ Ask(i)
  /\ inFlight' = IF Cancellation /\ inFlight[i] = NoTask
                   THEN [inFlight EXCEPT ![i] = t] ELSE inFlight
  /\ UNCHANGED <<loopVars, gateVars, token, answered>>

\* A domain request of a registered method.  Inserting the token replaces
\* whatever the table held under that id.
Call(t, i, w) ==
  /\ pc = "read" /\ ready /\ MayUse(i)
  /\ Spawn(t, i, w) /\ Ask(i)
  /\ inFlight' = IF Cancellation THEN [inFlight EXCEPT ![i] = t] ELSE inFlight
  /\ UNCHANGED <<loopVars, gateVars, token, answered>>

\* A notification of a registered method: a task with no token, before or
\* after the handshake.  An unregistered one changes nothing.
Notification(t) ==
  /\ pc = "read"
  /\ Spawn(t, NoId, FALSE)
  /\ UNCHANGED <<loopVars, gateVars, inFlight, token, ledger>>

ShutdownUntold(i) ==              \* faulty: joins without tripping tokens
  /\ Suspend(i, "join")
  /\ UNCHANGED <<gateVars, inFlight, taskVars, token>>

\* "shutdown": drain the table, trip every token it held, then join.
Shutdown(i) ==
  /\ Suspend(i, "join")
  /\ token' = [t \in Tasks |-> token[t] \/ \E j \in Ids : inFlight[j] = t]
  /\ inFlight' = [j \in Ids |-> NoTask]
  /\ UNCHANGED <<gateVars, taskVars>>

ShutdownUnjoined ==               \* faulty: does not join the tasks
  /\ pc = "join" /\ pc' = "hook"
  /\ UNCHANGED <<cur, gateVars, inFlight, taskVars, token, ledger>>

ShutdownJoined ==
  /\ pc = "join" /\ \A t \in Tasks : ~Live(t)
  /\ pc' = "hook"
  /\ UNCHANGED <<cur, gateVars, inFlight, taskVars, token, ledger>>

ShutdownUnanswered ==             \* faulty: runs the hook, writes nothing
  /\ pc = "hook" /\ pc' = "read" /\ cur' = NoId
  /\ UNCHANGED <<gateVars, inFlight, taskVars, token, ledger>>

\* The on_shutdown hook ends and the empty object is written.  The loop goes
\* on reading, the gate still open.
ShutdownAck ==
  /\ pc = "hook" /\ Resume
  /\ UNCHANGED <<gateVars, inFlight, taskVars, token>>

\* "exit", or an error reading stdin: the loop returns and the JoinSet is
\* dropped, which aborts the tasks without waiting for them.
Exit ==
  /\ pc = "read" /\ pc' = "exited"
  /\ UNCHANGED <<cur, gateVars, inFlight, taskVars, token, ledger>>

\* End of file: abort every task, then wait until they are gone.
Eof ==
  /\ pc = "read" /\ pc' = "abort"
  /\ UNCHANGED <<cur, gateVars, inFlight, taskVars, token, ledger>>

ReapedUnjoined ==                 \* faulty: abort_all without the join
  /\ pc = "abort" /\ pc' = "closed"
  /\ UNCHANGED <<cur, gateVars, inFlight, taskVars, token, ledger>>

Reaped ==
  /\ pc = "abort" /\ \A t \in Tasks : ~Live(t)
  /\ pc' = "closed"
  /\ UNCHANGED <<cur, gateVars, inFlight, taskVars, token, ledger>>

----------------------------------------------------------------------------
(* Handler tasks.                                                          *)

StepTo(t, from, to) == st[t] = from /\ st' = [st EXCEPT ![t] = to]

\* The handler of a notification returns: nothing to unregister or write.
NotificationDone(t) ==
  /\ ~IsRequest(t) /\ StepTo(t, "running", "done")
  /\ UNCHANGED <<loopVars, gateVars, inFlight, rid, waits, stream, token, ledger>>

ReturnUnwoken(t, keep) ==         \* faulty: a parked handler misses its token
  /\ IsRequest(t) /\ ~waits[t]
  /\ StepTo(t, "running", "returned")
  /\ stream' = IF keep THEN [stream EXCEPT ![t] = "open"] ELSE stream
  /\ UNCHANGED <<loopVars, gateVars, inFlight, rid, waits, token, ledger>>

\* The handler of a request returns; keep: it called keep_cancellation and
\* left a subscription running in the background.
Return(t, keep) ==
  /\ IsRequest(t) /\ (waits[t] => token[t])
  /\ StepTo(t, "running", "returned")
  /\ stream' = IF keep THEN [stream EXCEPT ![t] = "open"] ELSE stream
  /\ UNCHANGED <<loopVars, gateVars, inFlight, rid, waits, token, ledger>>

UnregisterInverted(t) ==          \* faulty: the keep flag is read inverted
  /\ StepTo(t, "returned", "replying")
  /\ inFlight' = IF Cancellation /\ stream[t] # "none"
                   THEN [inFlight EXCEPT ![rid[t]] = NoTask] ELSE inFlight
  /\ UNCHANGED <<loopVars, gateVars, rid, waits, stream, token, ledger>>

\* Drop the table's entry under the request's id, whoever put it there.
Unregister(t) ==
  /\ StepTo(t, "returned", "replying")
  /\ inFlight' = IF Cancellation /\ stream[t] = "none"
                   THEN [inFlight EXCEPT ![rid[t]] = NoTask] ELSE inFlight
  /\ UNCHANGED <<loopVars, gateVars, rid, waits, stream, token, ledger>>

Reply(t) ==
  /\ StepTo(t, "replying", "done")
  /\ Respond(rid[t]) /\ UNCHANGED asked
  /\ UNCHANGED <<loopVars, gateVars, inFlight, rid, waits, stream, token>>

\* The handler panics: its task ends without unregistering or answering.
Panic(t) ==
  /\ StepTo(t, "running", "lost")
  /\ UNCHANGED <<loopVars, gateVars, inFlight, rid, waits, stream, token, ledger>>

\* The background subscription ends, on its own or because of its token.
StreamStops(t) ==
  /\ stream[t] = "open"
  /\ stream' = [stream EXCEPT ![t] = "stopped"]
  /\ UNCHANGED <<loopVars, gateVars, inFlight, st, rid, waits, token, ledger>>

AbortedOnExitOnly(t) ==           \* faulty: end of file aborts nothing
  /\ pc = "exited" /\ Live(t)
  /\ st' = [st EXCEPT ![t] = "lost"]
  /\ UNCHANGED <<loopVars, gateVars, inFlight, rid, waits, stream, token, ledger>>

\* An aborted task is dropped at one of its await points.
Aborted(t) ==
  /\ pc \in {"abort", "exited"} /\ Live(t)
  /\ st' = [st EXCEPT ![t] = "lost"]
  /\ UNCHANGED <<loopVars, gateVars, inFlight, rid, waits, stream, token, ledger>>

----------------------------------------------------------------------------
LoopStep ==
  \/ \E i \in FrameIds :
       \/ Ping(i) \/ InitializeRejected(i) \/ Initialize(i) \/ Health(i)
       \/ Shutdown(i)
  \/ \E i \in Ids :
       \/ UnknownMethod(i) \/ UnknownMeta(i) \/ NotInitialized(i)
       \/ CancelRequest(i)
  \/ \E t \in Tasks : Notification(t)
  \/ \E t \in Tasks, i \in Ids, w \in BOOLEAN : Call(t, i, w)
  \/ Initialized \/ Exit \/ Eof

HookStep ==
  \/ \E ok \in BOOLEAN : InitializeDone(ok)
  \/ HealthDone \/ ShutdownJoined \/ ShutdownAck \/ Reaped

TaskStep(t) ==
  \/ \E keep \in BOOLEAN : Return(t, keep)
  \/ NotificationDone(t) \/ Unregister(t) \/ Reply(t)

Next ==
  \/ LoopStep \/ HookStep
  \/ \E t \in Tasks : TaskStep(t) \/ Panic(t) \/ StreamStops(t) \/ Aborted(t)

Spec == Init /\ [][Next]_vars

\* The runtime polls every ready task, hooks end, and a handler or a
\* subscription that watches its token ends once it is tripped.  Nothing is
\* asked of the host, nor of a handler that waits for a cancellation.
Fairness ==
  /\ WF_vars(HookStep)
  /\ \A t \in Tasks : /\ WF_vars(TaskStep(t))
                      /\ WF_vars(Aborted(t))
                      /\ WF_vars(token[t] /\ StreamStops(t))

FairSpec == Spec /\ Fairness

----------------------------------------------------------------------------
(* Properties.                                                             *)

\* Every frame that asks for an answer is answered once, whatever path it
\* takes through dispatch_frame, the hooks and the tasks, and in whatever
\* order they finish: what is asked under an id and not yet answered is with
\* a task that has the answer to write (or died) or with the loop.
AnsweredOnce ==
  \A i \in FrameIds :
    asked[i] = answered[i]
               + Cardinality({t \in Tasks : Unanswered(t) /\ rid[t] = i})
               + Cardinality({p \in {pc} : /\ p \in {"init", "health", "join", "hook"}
                                           /\ cur = i})

\* The in-flight table does not grow with the requests served: an entry is
\* that of a request whose handler has not unregistered (or died), or of one
\* that kept its token for a subscription.
TableHoldsNoFinished ==
  \A i \in Ids : inFlight[i] \in Tasks =>
    LET t == inFlight[i] IN
      /\ Cancellation /\ rid[t] = i
      /\ st[t] \in {"running", "returned", "lost"} \/ stream[t] # "none"

\* "$/cancelRequest" and "shutdown" reach everything that runs for a
\* disciplined host: a handler that has not returned, and a subscription left
\* open, is in the table under its own id until its token is tripped; no
\* other request's end removes it.
CancelReaches ==
  (Cancellation /\ ~HostReusesIds) =>
    \A t \in Tasks :
      IsRequest(t) /\ ~token[t] /\ (st[t] = "running" \/ stream[t] = "open")
        => inFlight[rid[t]] = t

\* When the shutdown hook runs and its answer is written, no handler of a
\* request or notification runs any more, and the token of every subscription
\* still open has been tripped.
ShutdownQuiet ==
  pc = "hook" =>
    \A t \in Tasks :
      /\ ~Live(t)
      /\ (Cancellation /\ ~HostReusesIds /\ stream[t] = "open") => token[t]

\* A handler of a request runs only once on_init has succeeded and the host
\* has confirmed with "initialized", through any later failed handshake.
ServedAfterHandshake ==
  (\E t \in Tasks : IsRequest(t)) => initOk /\ ready

\* After end of file and the join of the tasks, no frame is written.
NothingAfterClose == [][pc = "closed" => UNCHANGED answered]_vars

\* A shutdown is acknowledged although handlers wait for a cancellation that
\* the host, who is waiting for the acknowledgement, will not send.
ShutdownCompletes == pc = "join" ~> pc = "read"

\* A cancelled request ends: its handler sees the token and it is answered,
\* unless its task dies.
CancelledEnds ==
  \A t \in Tasks : token[t] ~> st[t] \in {"done", "lost"}

\* End of file ends the loop although handlers wait for a cancellation.
EofCloses == pc = "abort" ~> pc = "closed"

=============================================================================
