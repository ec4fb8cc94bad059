--------------------------- MODULE ControlClient ---------------------------
(***************************************************************************)
(* The client of the daemon's control socket (animus-control-protocol,     *)
(* client.rs): callers and subscribers that share one connection, the      *)
(* background reader that routes what arrives to them through two tables,  *)
(* the bounded channels of a subscription with the decoder between them,   *)
(* and what dropping a subscription, a pending call or the client does.    *)
(*                                                                         *)
(* A request is named by its id, which is fresh (next_id).  An event is    *)
(* its position in its stream.  The daemon is external: it answers what it *)
(* was asked, emits and closes the streams it has acknowledged, and may    *)
(* hang up; the order of spec.md 14.3 is what it keeps.                    *)
(***************************************************************************)
EXTENDS Naturals, Sequences, FiniteSets

CONSTANTS
  Calls,        \* ids of the unary calls
  Subs,         \* ids of the subscriptions
  Buffer,       \* capacity of a subscription's two channels
  Undecodable,  \* events that do not decode
  MaxEvents,    \* bound: events the daemon emits per subscription
  MaxWire,      \* bound: frames on the wire towards the client
  HalfClose     \* the read side may end while writing still succeeds

ASSUME IdsAssumption == Calls \intersect Subs = {}
ASSUME BufferAssumption == Buffer \in Nat \ {0} /\ MaxEvents \in Nat
ASSUME WireAssumption == MaxWire \in Nat \ {0}
ASSUME SwitchAssumption == HalfClose \in BOOLEAN

Reqs == Calls \union Subs

VARIABLES
  phase,    \* per request: how far the caller is
  answer,   \* per request: what its oneshot channel holds
  pending,  \* ControlClient.pending: the ids a response is routed to
  subs,     \* ControlClient.subscriptions: the ids an event is routed to
  reader,   \* where reader_loop is
  held,     \* the event reader_loop is sending, <<>> or <<[id, n]>>
  rawq,     \* per subscription: the channel from the reader to the decoder
  hand,     \* per subscription: what decode_loop is sending, <<>> or <<n>>
  itemq,    \* per subscription: the channel from the decoder to recv
  decoding, \* per subscription: its decode_loop is running
  got,      \* per subscription: what recv returned
  ended,    \* per subscription: recv returned None
  link,     \* the connection, as the daemon left it
  wire,     \* frames on their way to the client
  inbox,    \* requests the daemon has and has not answered
  serving,  \* per subscription: the stream as the daemon sees it
  sent      \* per subscription: the events the daemon has emitted

callerVars == <<phase, answer>>
tables     == <<pending, subs>>
readerVars == <<reader, held>>
chanVars   == <<rawq, hand, itemq, decoding>>
userVars   == <<got, ended>>
daemonVars == <<inbox, serving, sent>>
vars == <<callerVars, tables, readerVars, chanVars, userVars, link, wire,
          daemonVars>>

Response(r, v) == [kind |-> "response", id |-> r, val |-> v]
Event(s, n)    == [kind |-> "event", id |-> s, val |-> n]
Closed(s)      == [kind |-> "closed", id |-> s, val |-> 0]

Frames == {Response(r, v) : r \in Reqs, v \in {"ok", "error"}}
          \union {Event(s, n) : s \in Subs, n \in 1..MaxEvents}
          \union {Closed(s) : s \in Subs}

\* A future of rpc or subscribe is suspended between its first lock and its
\* return; it borrows the client.
Suspended(r) == phase[r] \in {"registered", "tabled", "await"}

\* Somebody holds the receiving end of the reader's channel.
Listening(s) == phase[s] \in {"registered", "tabled", "await"} \/ decoding[s]

TypeOK ==
  /\ phase \in [Reqs -> {"idle", "registered", "tabled", "await", "ok", "failed",
                         "abandoned", "dropping", "unpended", "gone"}]
  /\ answer \in [Reqs -> {"none", "ok", "error", "closed"}]
  /\ pending \subseteq Reqs /\ subs \subseteq Subs
  /\ reader \in {"reading", "sending", "ending", "clearing", "done", "aborted"}
  /\ held \in Seq(Frames) /\ Len(held) <= 1
  /\ rawq \in [Subs -> Seq(1..MaxEvents)] /\ itemq \in [Subs -> Seq(1..MaxEvents)]
  /\ hand \in [Subs -> Seq(1..MaxEvents)]
  /\ \A s \in Subs : /\ Len(rawq[s]) <= Buffer /\ Len(itemq[s]) <= Buffer
                     /\ Len(hand[s]) <= 1
  /\ decoding \in [Subs -> BOOLEAN]
  /\ got \in [Subs -> Seq(1..MaxEvents)] /\ ended \in [Subs -> BOOLEAN]
  /\ link \in {"open", "half", "closed"}
  /\ wire \in Seq(Frames) /\ Len(wire) <= MaxWire
  /\ inbox \subseteq Reqs
  /\ serving \in [Subs -> {"no", "open", "closed"}]
  /\ sent \in [Subs -> 0..MaxEvents]

Init ==
  /\ phase = [r \in Reqs |-> "idle"] /\ answer = [r \in Reqs |-> "none"]
  /\ pending = {} /\ subs = {}
  /\ reader = "reading" /\ held = <<>>
  /\ rawq = [s \in Subs |-> <<>>] /\ hand = [s \in Subs |-> <<>>]
  /\ itemq = [s \in Subs |-> <<>>] /\ decoding = [s \in Subs |-> FALSE]
  /\ got = [s \in Subs |-> <<>>] /\ ended = [s \in Subs |-> FALSE]
  /\ link = "open" /\ wire = <<>>
  /\ inbox = {} /\ serving = [s \in Subs |-> "no"] /\ sent = [s \in Subs |-> 0]

----------------------------------------------------------------------------
(* Callers: rpc and subscribe.                                             *)

Moves(r, from, to) == phase[r] = from /\ phase' = [phase EXCEPT ![r] = to]

\* A fresh id, and its oneshot in the pending table.
Register(r) ==
  /\ reader # "aborted" /\ Moves(r, "idle", "registered")
  /\ pending' = pending \union {r}
  /\ UNCHANGED <<answer, subs, readerVars, chanVars, userVars, link, wire, daemonVars>>

\* subscribe also enters the event channel, before it writes.
Enlist(s) ==
  /\ Moves(s, "registered", "tabled")
  /\ subs' = subs \union {s}
  /\ UNCHANGED <<answer, pending, readerVars, chanVars, userVars, link, wire, daemonVars>>

BeforeWrite(r) == IF r \in Subs THEN "tabled" ELSE "registered"

Write(r) ==
  /\ link # "closed" /\ Moves(r, BeforeWrite(r), "await")
  /\ inbox' = inbox \union {r}
  /\ UNCHANGED <<answer, tables, readerVars, chanVars, userVars, link, wire, serving, sent>>

\* The daemon is gone: undo what was registered and return the error.
WriteFails(r) ==
  /\ link = "closed" /\ Moves(r, BeforeWrite(r), "failed")
  /\ pending' = pending \ {r} /\ subs' = subs \ {r}
  /\ UNCHANGED <<answer, readerVars, chanVars, userVars, link, wire, daemonVars>>

\* The oneshot resolves with a result: a call is done, a subscription gets its
\* second channel and its decoder.
Returns(r) ==
  /\ answer[r] = "ok" /\ Moves(r, "await", "ok")
  /\ decoding' = [s \in Subs |-> decoding[s] \/ s = r]
  /\ UNCHANGED <<answer, tables, readerVars, rawq, hand, itemq, userVars, link, wire, daemonVars>>

\* It resolves with an error, or with nothing because its sender was dropped;
\* only the former takes the subscription out of the table.
Fails(r) ==
  /\ answer[r] \in {"error", "closed"} /\ Moves(r, "await", "failed")
  /\ subs' = IF answer[r] = "error" THEN subs \ {r} ELSE subs
  /\ rawq' = [s \in Subs |-> IF s = r THEN <<>> ELSE rawq[s]]
  /\ UNCHANGED <<answer, pending, readerVars, hand, itemq, decoding, userVars, link, wire, daemonVars>>

\* The caller drops the future, as a timeout around it does: nothing is undone.
Abandon(r) ==
  /\ Suspended(r)
  /\ phase' = [phase EXCEPT ![r] = "abandoned"]
  /\ rawq' = [s \in Subs |-> IF s = r THEN <<>> ELSE rawq[s]]
  /\ UNCHANGED <<answer, tables, readerVars, hand, itemq, decoding, userVars, link, wire, daemonVars>>

----------------------------------------------------------------------------
(* The background reader.                                                  *)

Reads(kind) ==
  /\ reader = "reading" /\ wire # <<>> /\ Head(wire).kind = kind
  /\ wire' = Tail(wire)

ReadResponse ==
  LET r == Head(wire).id IN
  /\ Reads("response")
  /\ answer' = IF r \in pending THEN [answer EXCEPT ![r] = Head(wire).val]
                                ELSE answer
  /\ pending' = pending \ {r}
  /\ UNCHANGED <<phase, subs, readerVars, chanVars, userVars, link, daemonVars>>

\* An event of a listed subscription: the sender is cloned under the lock.
ReadEvent ==
  /\ Reads("event")
  /\ IF Head(wire).id \in subs THEN reader' = "sending" /\ held' = <<Head(wire)>>
                               ELSE UNCHANGED readerVars
  /\ UNCHANGED <<callerVars, tables, chanVars, userVars, link, daemonVars>>

DeliverOrDrop ==                  \* faulty: try_send, a full channel loses it
  LET s == held[1].id IN
  /\ reader = "sending" /\ reader' = "reading" /\ held' = <<>>
  /\ rawq' = IF Listening(s) /\ Len(rawq[s]) < Buffer
               THEN [rawq EXCEPT ![s] = Append(@, held[1].val)] ELSE rawq
  /\ UNCHANGED <<callerVars, tables, hand, itemq, decoding, userVars, link, wire, daemonVars>>

DeliverListeningOnly ==           \* faulty: waits for a receiver that is gone
  LET s == held[1].id IN
  /\ reader = "sending" /\ reader' = "reading" /\ held' = <<>>
  /\ Listening(s) /\ Len(rawq[s]) < Buffer
  /\ rawq' = [rawq EXCEPT ![s] = Append(@, held[1].val)]
  /\ UNCHANGED <<callerVars, tables, hand, itemq, decoding, userVars, link, wire, daemonVars>>

\* sender.send(data).await: the reader waits for room in the channel, and
\* reads nothing else meanwhile; a receiver that is gone ends the wait.
Deliver ==
  LET s == held[1].id IN
  /\ reader = "sending" /\ reader' = "reading" /\ held' = <<>>
  /\ \/ /\ Listening(s) /\ Len(rawq[s]) < Buffer
        /\ rawq' = [rawq EXCEPT ![s] = Append(@, held[1].val)]
     \/ ~Listening(s) /\ UNCHANGED rawq
  /\ UNCHANGED <<callerVars, tables, hand, itemq, decoding, userVars, link, wire, daemonVars>>

\* "subscription/closed": the sender leaves the table.
ReadClosed ==
  /\ Reads("closed")
  /\ subs' = subs \ {Head(wire).id}
  /\ UNCHANGED <<callerVars, pending, readerVars, chanVars, userVars, link, daemonVars>>

ReadEnd ==
  /\ reader = "reading" /\ wire = <<>> /\ link # "open"
  /\ reader' = "ending"
  /\ UNCHANGED <<callerVars, tables, held, chanVars, userVars, link, wire, daemonVars>>

ClearPendingUnread ==             \* faulty: the callers' table is left as it is
  /\ reader = "ending" /\ reader' = "clearing"
  /\ UNCHANGED <<callerVars, tables, held, chanVars, userVars, link, wire, daemonVars>>

\* Dropping the senders resolves every waiting oneshot.
ClearPending ==
  /\ reader = "ending" /\ reader' = "clearing"
  /\ pending' = {}
  /\ answer' = [r \in Reqs |-> IF r \in pending THEN "closed" ELSE answer[r]]
  /\ UNCHANGED <<phase, subs, held, chanVars, userVars, link, wire, daemonVars>>

ClearSubs ==
  /\ reader = "clearing" /\ reader' = "done"
  /\ subs' = {}
  /\ UNCHANGED <<callerVars, pending, held, chanVars, userVars, link, wire, daemonVars>>

----------------------------------------------------------------------------
(* A subscription: decode_loop, recv, drop.                                *)

\* An event that does not decode is skipped.
DecodeTake(s) ==
  /\ decoding[s] /\ hand[s] = <<>> /\ rawq[s] # <<>>
  /\ rawq' = [rawq EXCEPT ![s] = Tail(@)]
  /\ hand' = [hand EXCEPT ![s] = IF Head(rawq[s]) \in Undecodable
                                    THEN <<>> ELSE <<Head(rawq[s])>>]
  /\ UNCHANGED <<callerVars, tables, readerVars, itemq, decoding, userVars, link, wire, daemonVars>>

DecodePut(s) ==
  /\ hand[s] # <<>> /\ Len(itemq[s]) < Buffer
  /\ itemq' = [itemq EXCEPT ![s] = @ \o hand[s]]
  /\ hand' = [hand EXCEPT ![s] = <<>>]
  /\ UNCHANGED <<callerVars, tables, readerVars, rawq, decoding, userVars, link, wire, daemonVars>>

\* No sender is left, in the table or with the reader.
SendersGone(s) == s \notin subs /\ ~(held # <<>> /\ held[1].id = s)

DecodeEndEarly(s) ==              \* faulty: does not drain the channel first
  /\ decoding[s] /\ hand[s] = <<>> /\ SendersGone(s)
  /\ decoding' = [decoding EXCEPT ![s] = FALSE]
  /\ UNCHANGED <<callerVars, tables, readerVars, rawq, hand, itemq, userVars, link, wire, daemonVars>>

DecodeEnd(s) ==
  /\ decoding[s] /\ hand[s] = <<>> /\ rawq[s] = <<>> /\ SendersGone(s)
  /\ decoding' = [decoding EXCEPT ![s] = FALSE]
  /\ UNCHANGED <<callerVars, tables, readerVars, rawq, hand, itemq, userVars, link, wire, daemonVars>>

\* The consumer pulls, in a task of its own.
Pulls(s) ==
  /\ s \in Subs /\ phase[s] = "ok" /\ ~ended[s]

Recv(s) ==
  /\ Pulls(s) /\ itemq[s] # <<>>
  /\ got' = [got EXCEPT ![s] = Append(@, Head(itemq[s]))]
  /\ itemq' = [itemq EXCEPT ![s] = Tail(@)]
  /\ UNCHANGED <<callerVars, tables, readerVars, rawq, hand, decoding, ended, link, wire, daemonVars>>

RecvNone(s) ==
  /\ Pulls(s) /\ itemq[s] = <<>> /\ ~decoding[s]
  /\ ended' = [ended EXCEPT ![s] = TRUE]
  /\ UNCHANGED <<callerVars, tables, readerVars, chanVars, got, link, wire, daemonVars>>

\* Drop: the receiver closes, the decoder is aborted with both channels, and a
\* task is spawned that writes "$/cancelRequest" and leaves the two tables.
DropSub(s) ==
  /\ Moves(s, "ok", "dropping")
  /\ decoding' = [decoding EXCEPT ![s] = FALSE]
  /\ rawq' = [rawq EXCEPT ![s] = <<>>] /\ hand' = [hand EXCEPT ![s] = <<>>]
  /\ itemq' = [itemq EXCEPT ![s] = <<>>]
  /\ UNCHANGED <<answer, tables, readerVars, userVars, link, wire, daemonVars>>

LeavePending(s) ==
  /\ Moves(s, "dropping", "unpended")
  /\ pending' = pending \ {s}
  /\ UNCHANGED <<answer, subs, readerVars, chanVars, userVars, link, wire, daemonVars>>

LeaveSubsNot(s) ==                \* faulty: the second table is forgotten
  /\ Moves(s, "unpended", "gone")
  /\ UNCHANGED <<answer, tables, readerVars, chanVars, userVars, link, wire, daemonVars>>

LeaveSubs(s) ==
  /\ Moves(s, "unpended", "gone")
  /\ subs' = subs \ {s}
  /\ UNCHANGED <<answer, pending, readerVars, chanVars, userVars, link, wire, daemonVars>>

\* Drop for ControlClient: the reader is aborted wherever it waits.  The write
\* half lives on in the subscriptions, so the connection stays open.
DropClient ==
  /\ reader # "aborted" /\ \A r \in Reqs : ~Suspended(r)
  /\ reader' = "aborted" /\ held' = <<>>
  /\ UNCHANGED <<callerVars, tables, chanVars, userVars, link, wire, daemonVars>>

----------------------------------------------------------------------------
(* The daemon.                                                             *)

Puts(f) == link = "open" /\ Len(wire) < MaxWire /\ wire' = Append(wire, f)

Answer(r, v) ==
  /\ r \in inbox /\ Puts(Response(r, v))
  /\ inbox' = inbox \ {r}
  /\ serving' = [s \in Subs |-> IF s = r /\ v = "ok" THEN "open" ELSE serving[s]]
  /\ UNCHANGED <<callerVars, tables, readerVars, chanVars, userVars, link, sent>>

Emit(s) ==
  /\ serving[s] = "open" /\ sent[s] < MaxEvents
  /\ Puts(Event(s, sent[s] + 1))
  /\ sent' = [sent EXCEPT ![s] = @ + 1]
  /\ UNCHANGED <<callerVars, tables, readerVars, chanVars, userVars, link, inbox, serving>>

CloseStream(s) ==
  /\ serving[s] = "open" /\ Puts(Closed(s))
  /\ serving' = [serving EXCEPT ![s] = "closed"]
  /\ UNCHANGED <<callerVars, tables, readerVars, chanVars, userVars, link, inbox, sent>>

\* The connection goes down whole; what is on the wire is still read.
HangUp ==
  /\ link' = "closed" /\ link # "closed"
  /\ UNCHANGED <<callerVars, tables, readerVars, chanVars, userVars, wire, daemonVars>>

\* Only what the client reads ends: the daemon shut down its sending side, or
\* sent a line that is not UTF-8, which read_line reports as an error.
EndReading ==
  /\ HalfClose /\ link = "open" /\ link' = "half"
  /\ UNCHANGED <<callerVars, tables, readerVars, chanVars, userVars, wire, daemonVars>>

----------------------------------------------------------------------------
CallerStep(r) == Write(r) \/ WriteFails(r) \/ Returns(r) \/ Fails(r)
ReaderStep == \/ ReadResponse \/ ReadEvent \/ Deliver \/ ReadClosed
              \/ ReadEnd \/ ClearPending \/ ClearSubs
DecoderStep(s) == DecodeTake(s) \/ DecodePut(s) \/ DecodeEnd(s)
ConsumerStep(s) == Recv(s) \/ RecvNone(s)
LeaveStep(s) == LeavePending(s) \/ LeaveSubs(s)

Next ==
  \/ \E r \in Reqs : \/ Register(r) \/ CallerStep(r) \/ Abandon(r)
                     \/ \E v \in {"ok", "error"} : Answer(r, v)
  \/ \E s \in Subs : \/ Enlist(s) \/ DecoderStep(s) \/ ConsumerStep(s)
                     \/ DropSub(s) \/ LeaveStep(s) \/ Emit(s) \/ CloseStream(s)
  \/ ReaderStep \/ DropClient \/ HangUp \/ EndReading

Spec == Init /\ [][Next]_vars

\* The runtime polls every ready task; the consumer keeps pulling; the daemon
\* answers what it is asked unless it hangs up.  Nobody has to call, abandon,
\* drop, emit, close or hang up.
Fairness ==
  /\ WF_vars(ReaderStep)
  /\ \A r \in Reqs : /\ WF_vars(CallerStep(r))
                     /\ WF_vars(\E v \in {"ok", "error"} : Answer(r, v))
  /\ \A s \in Subs : /\ WF_vars(Enlist(s)) /\ WF_vars(DecoderStep(s))
                     /\ WF_vars(ConsumerStep(s)) /\ WF_vars(LeaveStep(s))

FairSpec == Spec /\ Fairness

----------------------------------------------------------------------------
(* Properties.                                                             *)

\* The tables do not keep what is over: a call or subscription that returned is
\* no longer pending, and one that failed or was dropped no longer receives
\* events.  Only a caller that the reader's end released returns without leaving
\* the second table, and what was abandoned stays until the reader ends.
TablesTidy ==
  \A r \in Reqs :
    /\ phase[r] \in {"ok", "failed", "unpended", "gone"} => r \notin pending
    /\ phase[r] = "failed" /\ reader \in {"reading", "sending", "ending"} => r \notin subs
    /\ phase[r] = "gone" => r \notin subs

Entries(q) == {q[k] : k \in DOMAIN q}
InOrder(q) == \A j, k \in DOMAIN q : j < k => q[j] < q[k]

\* What the consumer has, and the decoder is done with; what it has yet to take;
\* where on the wire the rest is.
Told(s) == got[s] \o itemq[s] \o hand[s]
WithReader(s) == IF held # <<>> /\ held[1].id = s THEN <<held[1].val>> ELSE <<>>
Untold(s) == rawq[s] \o WithReader(s)
OnWire(s) == {k \in DOMAIN wire : wire[k].kind = "event" /\ wire[k].id = s}

\* Of n events the decoder has told those that decode, each once and in order.
ToldOf(s, n) == InOrder(Told(s)) /\ Entries(Told(s)) = (1..n) \ Undecodable

\* After n, those it has yet to take are the next, one after the other.
FollowOn(s, n) == \A k \in DOMAIN Untold(s) : Untold(s)[k] = n + k

\* The wire carries those after m, to the last the daemon sent, in order.
WireCarries(s, m) ==
  /\ m <= sent[s]
  /\ {wire[k].val : k \in OnWire(s)} = m+1..sent[s]
  /\ \A j, k \in OnWire(s) : j < k => wire[j].val < wire[k].val

\* Back-pressure loses nothing: for a subscription in use, what the consumer
\* has, what the two channels, the decoder and the reader hold and what is on
\* the wire is, in this order, what the daemon sent, without what does not
\* decode once the decoder has seen it.
Lossless ==
  \A s \in Subs :
    phase[s] \in {"tabled", "await", "ok"} /\ reader # "aborted" =>
      \E n \in 0..sent[s] : /\ ToldOf(s, n) /\ FollowOn(s, n)
                            /\ WireCarries(s, n + Len(Untold(s)))

\* A subscription is the event stream its consumer is promised.
Stream == INSTANCE EventStream
            WITH closed <- [s \in Subs |-> link # "open" \/ serving[s] = "closed"]
StreamSpec == Stream!Spec

\* client.rs, end of reader_loop: "drain any in-flight callers so they don't
\* hang".  Once the reader has ended, every caller returns.
CallersReleased ==
  \A r \in Reqs : (reader = "done" /\ phase[r] = "await") ~> phase[r] # "await"

\* spec.md 14.7: one client "MAY host any mix of in-flight unary RPCs and open
\* subscriptions": every awaited call returns, whatever the streams carry.
CallsEnd == \A r \in Reqs : phase[r] = "await" ~> phase[r] # "await"

\* spec.md 14.7: dropping the client "aborts the reader task and closes the
\* socket", and recv returns None when the socket is dropped: the consumer of a
\* subscription that outlives the client is told.
DropEndsStreams ==
  \A s \in Subs : (reader = "aborted" /\ phase[s] = "ok") ~>
                  (ended[s] \/ phase[s] # "ok")
=============================================================================
