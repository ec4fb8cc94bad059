---------------------------- MODULE ProviderLoop ----------------------------
(***************************************************************************)
(* The stdio loop of a provider plugin (animus-plugin-runtime,             *)
(* provider_main.rs): every request is served by a task of its own, an     *)
(* agent/run or agent/resume with a notification forwarder beside it, and  *)
(* the terminal response follows when the forwarder has been closed.       *)
(*                                                                         *)
(* A run's notifications are counted, its channel being FIFO: those        *)
(* accepted while the run was going on are early, those that a leaked      *)
(* clone of the sink emits afterwards are late.  What a run does with its  *)
(* sink, and when it resolves, is the plugin author's.                     *)
(***************************************************************************)
EXTENDS Naturals

CONSTANTS
  Runs,      \* ids of the agent/run and agent/resume requests
  Others,    \* ids of the requests answered without a forwarder
  Shutdown,  \* the one of them that is the shutdown
  MaxEmit,   \* bound: notifications a run emits
  MaxQueue   \* bound: late notifications in a channel

ASSUME IdsAssumption == Runs \intersect Others = {} /\ Shutdown \in Others
ASSUME BoundAssumption == MaxEmit \in Nat /\ MaxQueue \in Nat

VARIABLES
  up,       \* the process runs
  phase,    \* per request: where its task is
  sinks,    \* per run: who holds a sender of its channel
  fwd,      \* per run: where its forwarder task is
  hold,     \* per run: the notification the forwarder is writing
  early,    \* per run: early notifications in its channel
  late,     \* per run: late notifications in its channel
  closing,  \* per run: the flag NotificationForwarder::close stores
  permit,   \* per run: the permit notify_one leaves
  emitted,  \* per run: early notifications the run has emitted
  out       \* per run: early notifications on the wire

channel == <<early, late>>
signals == <<closing, permit>>
counts  == <<emitted, out>>
vars == <<up, phase, sinks, fwd, hold, channel, signals, counts>>

Reqs == Runs \union Others

TypeOK ==
  /\ up \in BOOLEAN
  /\ phase \in [Reqs -> {"idle", "spawned", "running", "storing", "notifying",
                         "joining", "replying", "answered", "panicked"}]
  /\ sinks \in [Runs -> SUBSET {"run", "clone"}]
  /\ fwd \in [Runs -> {"none", "check", "select", "writing", "drain",
                       "flushing", "done"}]
  /\ hold \in [Runs -> {"none", "early", "late"}]
  /\ early \in [Runs -> Nat] /\ late \in [Runs -> Nat]
  /\ closing \in [Runs -> BOOLEAN] /\ permit \in [Runs -> BOOLEAN]
  /\ emitted \in [Runs -> Nat] /\ out \in [Runs -> Nat]

Init ==
  /\ up = TRUE
  /\ phase = [r \in Reqs |-> "idle"]
  /\ sinks = [r \in Runs |-> {}]
  /\ fwd = [r \in Runs |-> "none"] /\ hold = [r \in Runs |-> "none"]
  /\ early = [r \in Runs |-> 0] /\ late = [r \in Runs |-> 0]
  /\ closing = [r \in Runs |-> FALSE] /\ permit = [r \in Runs |-> FALSE]
  /\ emitted = [r \in Runs |-> 0] /\ out = [r \in Runs |-> 0]

----------------------------------------------------------------------------
(* The read loop and the request tasks.                                    *)

Moves(r, from, to) ==
  up /\ phase[r] = from /\ phase' = [phase EXCEPT ![r] = to]

\* A task is spawned for every frame (an "initialized", which is read and
\* ignored, changes nothing); the host asks nothing after a shutdown.
Receive(r) ==
  /\ Moves(r, "idle", "spawned") /\ phase[Shutdown] = "idle"
  /\ UNCHANGED <<up, sinks, fwd, hold, channel, signals, counts>>

\* Everything without a forwarder, and a run whose params do not deserialize.
Serve(r) ==
  /\ Moves(r, "spawned", "replying")
  /\ UNCHANGED <<up, sinks, fwd, hold, channel, signals, counts>>

\* build_notification_sink, and the run begins.
Start(r) ==
  /\ Moves(r, "spawned", "running")
  /\ sinks' = [sinks EXCEPT ![r] = {"run"}]
  /\ fwd' = [fwd EXCEPT ![r] = "check"]
  /\ UNCHANGED <<up, hold, channel, signals, counts>>

\* The run's future resolves, with a reply or an error; its sink goes with it.
Resolve(r) ==
  /\ Moves(r, "running", "storing")
  /\ sinks' = [sinks EXCEPT ![r] = @ \ {"run"}]
  /\ UNCHANGED <<up, fwd, hold, channel, signals, counts>>

\* It panics: its task is gone, the forwarder is left to itself.
Panic(r) ==
  /\ Moves(r, "running", "panicked")
  /\ sinks' = [sinks EXCEPT ![r] = @ \ {"run"}]
  /\ UNCHANGED <<up, fwd, hold, channel, signals, counts>>

\* NotificationForwarder::close: store the flag, leave a permit, join the task.
StoreClosing(r) ==
  /\ Moves(r, "storing", "notifying")
  /\ closing' = [closing EXCEPT ![r] = TRUE]
  /\ UNCHANGED <<up, sinks, fwd, hold, channel, permit, counts>>

NotifyStopUnstored(r) ==          \* faulty: the flag is left as it is
  /\ Moves(r, "notifying", "joining")
  /\ permit' = [permit EXCEPT ![r] = TRUE]
  /\ closing' = [closing EXCEPT ![r] = FALSE]
  /\ UNCHANGED <<up, sinks, fwd, hold, channel, counts>>

NotifyStop(r) ==
  /\ Moves(r, "notifying", "joining")
  /\ permit' = [permit EXCEPT ![r] = TRUE]
  /\ UNCHANGED <<up, sinks, fwd, hold, channel, closing, counts>>

JoinedNot(r) ==                   \* faulty: close does not await the task
  /\ Moves(r, "joining", "replying")
  /\ UNCHANGED <<up, sinks, fwd, hold, channel, signals, counts>>

Joined(r) ==
  /\ fwd[r] = "done" /\ Moves(r, "joining", "replying")
  /\ UNCHANGED <<up, sinks, fwd, hold, channel, signals, counts>>

Respond(r) ==
  /\ Moves(r, "replying", "answered")
  /\ UNCHANGED <<up, sinks, fwd, hold, channel, signals, counts>>

\* "exit", or main returning at end of file: every task ends where it is.
Exit ==
  /\ up' = FALSE /\ up
  /\ UNCHANGED <<phase, sinks, fwd, hold, channel, signals, counts>>

----------------------------------------------------------------------------
(* The sink.                                                               *)

\* A provider may keep a clone in a task that outlives the run.
CloneSink(r) ==
  /\ up /\ "run" \in sinks[r]
  /\ sinks' = [sinks EXCEPT ![r] = @ \union {"clone"}]
  /\ UNCHANGED <<up, phase, fwd, hold, channel, signals, counts>>

DropSink(r, who) ==
  /\ up /\ who \in sinks[r]
  /\ sinks' = [sinks EXCEPT ![r] = @ \ {who}]
  /\ UNCHANGED <<up, phase, fwd, hold, channel, signals, counts>>

Emit(r) ==
  /\ up /\ phase[r] = "running" /\ sinks[r] # {} /\ emitted[r] < MaxEmit
  /\ emitted' = [emitted EXCEPT ![r] = @ + 1]
  /\ early' = [early EXCEPT ![r] = @ + 1]
  /\ UNCHANGED <<up, phase, sinks, fwd, hold, late, signals, out>>

Accepts(r) == fwd[r] \in {"check", "select", "writing"}

\* The leaked clone emits; once the receiver is closed its sends are refused.
EmitLate(r) ==
  /\ up /\ phase[r] # "running" /\ sinks[r] # {}
  /\ Accepts(r) /\ late[r] < MaxQueue
  /\ late' = [late EXCEPT ![r] = @ + 1]
  /\ UNCHANGED <<up, phase, sinks, fwd, hold, early, signals, counts>>

----------------------------------------------------------------------------
(* The forwarder task.                                                     *)

Goes(r, from, to) == up /\ fwd[r] = from /\ fwd' = [fwd EXCEPT ![r] = to]

\* Top of the loop: under the flag the receiver is closed, then drained.
CheckClosing(r) ==
  /\ Goes(r, "check", IF closing[r] THEN "drain" ELSE "select")
  /\ UNCHANGED <<up, phase, sinks, hold, channel, signals, counts>>

\* The select is biased: the stop permit comes before the channel.
Woken(r) ==
  /\ permit[r] /\ Goes(r, "select", "check")
  /\ permit' = [permit EXCEPT ![r] = FALSE]
  /\ UNCHANGED <<up, phase, sinks, hold, channel, closing, counts>>

\* The head of the channel: an early notification, if there is one left.
Pop(r) ==
  \/ /\ early[r] > 0
     /\ early' = [early EXCEPT ![r] = @ - 1]
     /\ hold' = [hold EXCEPT ![r] = "early"]
     /\ UNCHANGED late
  \/ /\ early[r] = 0 /\ late[r] > 0
     /\ late' = [late EXCEPT ![r] = @ - 1]
     /\ hold' = [hold EXCEPT ![r] = "late"]
     /\ UNCHANGED early

Empty(r) == early[r] = 0 /\ late[r] = 0

Take(r) ==
  /\ ~permit[r] /\ Goes(r, "select", "writing") /\ Pop(r)
  /\ UNCHANGED <<up, phase, sinks, signals, counts>>

EndOfChannel(r) ==
  /\ ~permit[r] /\ Empty(r) /\ sinks[r] = {} /\ Goes(r, "select", "done")
  /\ UNCHANGED <<up, phase, sinks, hold, channel, signals, counts>>

\* write_notification, under the lock of stdout.
Puts(r) ==
  /\ out' = [out EXCEPT ![r] = IF hold[r] = "early" THEN @ + 1 ELSE @]
  /\ hold' = [hold EXCEPT ![r] = "none"]

Write(r) ==
  /\ Goes(r, "writing", "check") /\ Puts(r)
  /\ UNCHANGED <<up, phase, sinks, channel, signals, emitted>>

DrainTake(r) ==
  /\ Goes(r, "drain", "flushing") /\ Pop(r)
  /\ UNCHANGED <<up, phase, sinks, signals, counts>>

DrainWrite(r) ==
  /\ Goes(r, "flushing", "drain") /\ Puts(r)
  /\ UNCHANGED <<up, phase, sinks, channel, signals, emitted>>

DrainEnd(r) ==
  /\ Empty(r) /\ Goes(r, "drain", "done")
  /\ UNCHANGED <<up, phase, sinks, hold, channel, signals, counts>>

----------------------------------------------------------------------------
CloseStep(r) == StoreClosing(r) \/ NotifyStop(r) \/ Joined(r) \/ Respond(r)
FwdStep(r) == \/ CheckClosing(r) \/ Woken(r) \/ Take(r) \/ EndOfChannel(r)
              \/ Write(r) \/ DrainTake(r) \/ DrainWrite(r) \/ DrainEnd(r)
SinkStep(r) == \/ CloneSink(r) \/ Emit(r) \/ EmitLate(r)
               \/ \E who \in {"run", "clone"} : DropSink(r, who)

Next ==
  \/ Exit
  \/ \E r \in Reqs : Receive(r) \/ Serve(r)
  \/ \E r \in Others : Respond(r)
  \/ \E r \in Runs : \/ Start(r) \/ Resolve(r) \/ Panic(r)
                     \/ CloseStep(r) \/ FwdStep(r) \/ SinkStep(r)

Spec == Init /\ [][Next]_vars

\* The runtime polls the request's task and the forwarder.  No run has to
\* resolve, and a leaked clone may emit for ever.
Fairness == \A r \in Runs : WF_vars(CloseStep(r)) /\ WF_vars(FwdStep(r))

FairSpec == Spec /\ Fairness

----------------------------------------------------------------------------
(* Properties.                                                             *)

\* provider_main.rs, NotificationForwarder: "notifications followed by the
\* terminal response".  The response goes out after every notification the run
\* emitted, whoever still holds its sink; RunStream says so as a specification.
Stream == INSTANCE RunStream
            WITH answered <- [r \in Runs |-> phase[r] = "answered"]
StreamSpec == Stream!Spec

\* Nothing of a run, early or late, is written after its response: "which the
\* spec forbids".
SilentAfterResponse ==
  [][\A r \in Runs : phase[r] = "answered" => ~Write(r) /\ ~DrainWrite(r)]_vars

\* What the run emitted is on the wire, with the forwarder or in the channel;
\* nothing early is lost or written twice, by any way the forwarder ends.
Conserved ==
  \A r \in Runs :
    /\ emitted[r] = out[r] + early[r] + (IF hold[r] = "early" THEN 1 ELSE 0)
    /\ fwd[r] = "done" => out[r] = emitted[r]

\* "would hang the terminal agent/run response forever": a run that resolved is
\* answered, although a leaked clone keeps emitting.
CloseReturns ==
  \A r \in Runs : phase[r] = "storing" ~> (phase[r] = "answered" \/ ~up)
=============================================================================
