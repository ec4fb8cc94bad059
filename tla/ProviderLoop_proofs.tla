------------------------ MODULE ProviderLoop_proofs ------------------------
(***************************************************************************)
(* Theorems about ProviderLoop for any number of runs and any bounds: no   *)
(* notification is lost, none follows the response, and the loop           *)
(* implements RunStream.  The inductive invariant ties where a request is  *)
(* to where its forwarder is.                                              *)
(***************************************************************************)
EXTENDS ProviderLoop, TLAPS

\* A notification is counted once: on the wire, in the forwarder's hands or in
\* the channel.
Count(r) == emitted[r] = out[r] + early[r] + (IF hold[r] = "early" THEN 1 ELSE 0)

\* The forwarder holds a notification exactly while it writes one, and ends
\* with an empty channel.
Hands(r) == /\ hold[r] # "none" <=> fwd[r] \in {"writing", "flushing"}
            /\ fwd[r] = "done" => early[r] = 0

\* A forwarder exists from the start of the run; it drains only when it has
\* been told to, ends under a live run only at the end of the channel, and has
\* ended when the response is due.
Order(r) ==
  /\ phase[r] \in {"idle", "spawned"} => fwd[r] = "none"
  /\ phase[r] \in {"running", "storing", "notifying", "joining"} => fwd[r] # "none"
  /\ phase[r] \in {"replying", "answered"} => fwd[r] \in {"none", "done"}
  /\ phase[r] = "running" => ~closing[r]
  /\ fwd[r] \in {"drain", "flushing"} => closing[r]
  /\ phase[r] = "running" /\ fwd[r] = "done" => sinks[r] = {}
  /\ fwd[r] = "none" => early[r] = 0 /\ ~closing[r]

Local(r) == Count(r) /\ Hands(r) /\ Order(r)

IInv == TypeOK /\ \A r \in Runs : Local(r)

\* What Local(r) reads.
Same(r) ==
  /\ phase'[r] = phase[r] /\ sinks'[r] = sinks[r]
  /\ fwd'[r] = fwd[r] /\ hold'[r] = hold[r]
  /\ early'[r] = early[r] /\ closing'[r] = closing[r]
  /\ emitted'[r] = emitted[r] /\ out'[r] = out[r]

TaskStep(r) == \/ Receive(r) \/ Serve(r) \/ Start(r) \/ Resolve(r) \/ Panic(r)
               \/ StoreClosing(r) \/ NotifyStop(r) \/ Joined(r) \/ Respond(r)

\* Next with its grouping undone: a step is global, or of one request.
LEMMA NextSplits ==
  Next => \/ Exit
          \/ \E r \in Others : Receive(r) \/ Serve(r) \/ Respond(r)
          \/ \E r \in Runs : TaskStep(r) \/ FwdStep(r) \/ SinkStep(r)
  BY DEF Next, Reqs, TaskStep, CloseStep

\* The initial state.
LEMMA InitIInv == Init => IInv
<1> SUFFICES ASSUME Init PROVE IInv
  OBVIOUS
<1>1. TypeOK
  BY DEF Init, TypeOK
<1>2. ASSUME NEW r \in Runs PROVE Local(r)
  <2>1. /\ phase[r] = "idle" /\ fwd[r] = "none" /\ hold[r] = "none"
        /\ early[r] = 0 /\ emitted[r] = 0 /\ out[r] = 0 /\ closing[r] = FALSE
    BY DEF Init, Reqs
  <2> QED
    BY <2>1 DEF Local, Count, Hands, Order
<1> QED
  BY <1>1, <1>2 DEF IInv

\* A request's task keeps the types.
LEMMA TaskType ==
  ASSUME TypeOK, NEW q \in Runs, TaskStep(q) PROVE TypeOK'
<1> USE DEF TypeOK, Moves, channel, signals, counts, Reqs
<1>1. CASE Receive(q) \/ Serve(q) \/ Joined(q) \/ Respond(q)
  BY <1>1 DEF Receive, Serve, Joined, Respond
<1>2. CASE Start(q)
  BY <1>2 DEF Start
<1>3. CASE Resolve(q) \/ Panic(q)
  BY <1>3 DEF Resolve, Panic
<1>4. CASE StoreClosing(q)
  BY <1>4 DEF StoreClosing
<1>5. CASE NotifyStop(q)
  BY <1>5 DEF NotifyStop
<1> QED
  BY <1>1, <1>2, <1>3, <1>4, <1>5 DEF TaskStep

LEMMA OtherType ==
  ASSUME TypeOK, NEW q \in Others, Receive(q) \/ Serve(q) \/ Respond(q)
  PROVE  TypeOK'
<1> USE DEF TypeOK, Moves, channel, signals, counts, Reqs
<1>1. CASE Receive(q)
  BY <1>1 DEF Receive
<1>2. CASE Serve(q)
  BY <1>2 DEF Serve
<1>3. CASE Respond(q)
  BY <1>3 DEF Respond
<1> QED
  BY <1>1, <1>2, <1>3

\* So do the forwarder and the holders of the sink.
LEMMA FwdType ==
  ASSUME TypeOK, NEW q \in Runs, FwdStep(q) PROVE TypeOK'
<1>1. CASE CheckClosing(q)
  BY <1>1 DEF TypeOK, CheckClosing, Goes, channel, signals, counts
<1>2. CASE Woken(q)
  BY <1>2 DEF TypeOK, Woken, Goes, channel, counts
<1>3. CASE Take(q)
  BY <1>3 DEF TypeOK, Take, Pop, Goes, signals, counts
<1>4. CASE EndOfChannel(q)
  BY <1>4 DEF TypeOK, EndOfChannel, Goes, channel, signals, counts
<1>5. CASE Write(q)
  BY <1>5 DEF TypeOK, Write, Puts, Goes, channel, signals
<1>6. CASE DrainTake(q)
  BY <1>6 DEF TypeOK, DrainTake, Pop, Goes, signals, counts
<1>7. CASE DrainWrite(q)
  BY <1>7 DEF TypeOK, DrainWrite, Puts, Goes, channel, signals
<1>8. CASE DrainEnd(q)
  BY <1>8 DEF TypeOK, DrainEnd, Goes, channel, signals, counts
<1> QED
  BY <1>1, <1>2, <1>3, <1>4, <1>5, <1>6, <1>7, <1>8 DEF FwdStep

LEMMA SinkType ==
  ASSUME TypeOK, NEW q \in Runs, SinkStep(q) PROVE TypeOK'
  BY DEF TypeOK, SinkStep, CloneSink, Emit, EmitLate, DropSink, channel,
         signals, counts

\* A step of one run leaves the others as they are.
LEMMA Elsewhere ==
  ASSUME TypeOK, NEW q \in Runs, NEW r \in Runs, r # q,
         TaskStep(q) \/ FwdStep(q) \/ SinkStep(q)
  PROVE  Same(r)
<1>1. CASE TaskStep(q)
  BY <1>1 DEF TypeOK, Same, TaskStep, Receive, Serve, Start, Resolve, Panic,
              StoreClosing, NotifyStop, Joined, Respond, Moves, channel,
              signals, counts, Reqs
<1>2. CASE FwdStep(q)
  BY <1>2 DEF TypeOK, Same, FwdStep, CheckClosing, Woken, Take, EndOfChannel,
              Write, DrainTake, DrainWrite, DrainEnd, Goes, Pop, Puts, channel,
              signals, counts
<1>3. CASE SinkStep(q)
  BY <1>3 DEF TypeOK, Same, SinkStep, CloneSink, Emit, EmitLate, DropSink,
              channel, signals, counts
<1> QED
  BY <1>1, <1>2, <1>3

LEMMA SameLocal == ASSUME NEW r \in Runs, Local(r), Same(r) PROVE Local(r)'
  BY DEF Same, Local, Count, Hands, Order

\* A run's own task preserves its invariant: it answers only behind an ended
\* forwarder, and stores the flag only when the run is over.
LEMMA TaskLocal ==
  ASSUME TypeOK, NEW r \in Runs, Local(r), TaskStep(r) PROVE Local(r)'
<1> USE DEF TypeOK, Local, Hands, Order, Count, Moves, channel, signals,
            counts, Reqs
<1>1. CASE Receive(r)
  BY <1>1 DEF Receive
<1>2. CASE Serve(r)
  BY <1>2 DEF Serve
<1>3. CASE Start(r)
  BY <1>3 DEF Start
<1>4. CASE Resolve(r)
  BY <1>4 DEF Resolve
<1>5. CASE Panic(r)
  BY <1>5 DEF Panic
<1>6. CASE StoreClosing(r)
  BY <1>6 DEF StoreClosing
<1>7. CASE NotifyStop(r)
  BY <1>7 DEF NotifyStop
<1>8. CASE Joined(r)
  BY <1>8 DEF Joined
<1>9. CASE Respond(r)
  BY <1>9 DEF Respond
<1> QED
  BY <1>1, <1>2, <1>3, <1>4, <1>5, <1>6, <1>7, <1>8, <1>9 DEF TaskStep

\* The forwarder moves a notification from the channel to its hands to the
\* wire, and ends on an empty channel.
LEMMA FwdLocal ==
  ASSUME TypeOK, NEW r \in Runs, Local(r), FwdStep(r) PROVE Local(r)'
<1> USE DEF TypeOK, Local, Hands, Order, Count, Goes, channel, signals,
            counts, Reqs
<1>1. CASE CheckClosing(r)
  BY <1>1 DEF CheckClosing
<1>2. CASE Woken(r)
  BY <1>2 DEF Woken
<1>3. CASE Take(r)
  BY <1>3 DEF Take, Pop
<1>4. CASE EndOfChannel(r)
  BY <1>4 DEF EndOfChannel, Empty
<1>5. CASE Write(r)
  BY <1>5 DEF Write, Puts
<1>6. CASE DrainTake(r)
  BY <1>6 DEF DrainTake, Pop
<1>7. CASE DrainWrite(r)
  BY <1>7 DEF DrainWrite, Puts
<1>8. CASE DrainEnd(r)
  BY <1>8 DEF DrainEnd, Empty
<1> QED
  BY <1>1, <1>2, <1>3, <1>4, <1>5, <1>6, <1>7, <1>8 DEF FwdStep

\* An emission enters a channel whose forwarder has not ended.
LEMMA SinkLocal ==
  ASSUME TypeOK, NEW r \in Runs, Local(r), SinkStep(r) PROVE Local(r)'
<1> USE DEF TypeOK, Local, Hands, Order, Count, channel, signals, counts, Reqs
<1>1. CASE CloneSink(r)
  BY <1>1 DEF CloneSink
<1>2. CASE Emit(r)
  BY <1>2 DEF Emit
<1>3. CASE EmitLate(r)
  BY <1>3 DEF EmitLate, Accepts
<1>4. ASSUME NEW who \in {"run", "clone"}, DropSink(r, who) PROVE Local(r)'
  BY <1>4 DEF DropSink
<1> QED
  BY <1>1, <1>2, <1>3, <1>4 DEF SinkStep

LEMMA IInvStep == IInv /\ [Next]_vars => IInv'
<1> SUFFICES ASSUME IInv, [Next]_vars PROVE IInv'
  OBVIOUS
<1>a. TypeOK /\ \A r \in Runs : Local(r)
  BY DEF IInv
<1>1. CASE UNCHANGED vars \/ Exit
  <2>1. TypeOK'
    BY <1>a, <1>1 DEF TypeOK, vars, Exit, channel, signals, counts
  <2>2. ASSUME NEW r \in Runs PROVE Same(r)
    BY <1>1 DEF Same, vars, Exit, channel, signals, counts
  <2> QED
    BY <1>a, <2>1, <2>2, SameLocal DEF IInv
<1>3. ASSUME NEW q \in Others, Receive(q) \/ Serve(q) \/ Respond(q)
      PROVE  IInv'
  <2>1. TypeOK'
    BY <1>a, <1>3, OtherType
  <2>2. ASSUME NEW r \in Runs PROVE Same(r)
    BY <1>a, <1>3, IdsAssumption
    DEF TypeOK, Same, Receive, Serve, Respond, Moves, channel, signals,
        counts, Reqs
  <2> QED
    BY <1>a, <2>1, <2>2, SameLocal DEF IInv
<1>4. ASSUME NEW q \in Runs, TaskStep(q) \/ FwdStep(q) \/ SinkStep(q)
      PROVE  IInv'
  <2>1. TypeOK'
    BY <1>a, <1>4, TaskType, FwdType, SinkType
  <2>2. Local(q)'
    BY <1>a, <1>4, TaskLocal, FwdLocal, SinkLocal
  <2>3. ASSUME NEW r \in Runs, r # q PROVE Local(r)'
    BY <1>a, <1>4, <2>3, Elsewhere, SameLocal
  <2> QED
    BY <2>1, <2>2, <2>3 DEF IInv
<1> QED
  BY <1>1, <1>3, <1>4, NextSplits

LEMMA Invariance == Spec => []IInv
  BY InitIInv, IInvStep, PTL DEF Spec

----------------------------------------------------------------------------
\* The loop's variables keep their types, for any runs.
THEOREM TypeCorrect == Spec => []TypeOK
  BY Invariance, PTL DEF IInv

\* No notification is lost or written twice, by any way the forwarder ends.
THEOREM NothingLost == Spec => []Conserved
<1>1. IInv => Conserved
  <2> SUFFICES ASSUME IInv, NEW r \in Runs
               PROVE  /\ Count(r)
                      /\ fwd[r] = "done" => out[r] = emitted[r]
    BY DEF Conserved, Count
  <2>1. Count(r) /\ Hands(r)
    BY DEF IInv, Local
  <2>2. emitted[r] \in Nat /\ out[r] \in Nat /\ early[r] \in Nat
    BY DEF IInv, TypeOK
  <2> QED
    BY <2>1, <2>2 DEF Count, Hands
<1> QED
  BY <1>1, Invariance, PTL

\* After the response nothing of the run is written, early or late.
THEOREM Silent == Spec => SilentAfterResponse
<1>1. IInv => \A r \in Runs : phase[r] = "answered" => ~Write(r) /\ ~DrainWrite(r)
  BY DEF IInv, Local, Order, Write, DrainWrite, Goes
<1> QED
  BY <1>1, Invariance, PTL DEF SilentAfterResponse

\* The loop implements RunStream: a run's notifications come out, and then its
\* response, once.
THEOREM Implements == Spec => StreamSpec
<1>1. Init => Stream!Init
  BY DEF Init, Stream!Init, Reqs
<1>2. IInv /\ [Next]_vars => [Stream!Next]_(Stream!vars)
  <2> SUFFICES ASSUME IInv, [Next]_vars PROVE [Stream!Next]_(Stream!vars)
    OBVIOUS
  <2>t. TypeOK /\ \A r \in Runs : Local(r)
    BY DEF IInv
  <2>1. CASE UNCHANGED vars \/ Exit
    BY <2>1 DEF vars, Exit, counts, Stream!vars
  <2>2. ASSUME NEW q \in Others, Receive(q) \/ Serve(q) \/ Respond(q)
        PROVE  UNCHANGED Stream!vars
    BY <2>t, <2>2, IdsAssumption
    DEF TypeOK, Receive, Serve, Respond, Moves, counts, Stream!vars, Reqs
  <2>3. ASSUME NEW q \in Runs, TaskStep(q)
        PROVE  [Stream!Next]_(Stream!vars)
    <3>1. CASE ~Respond(q)
      <4>1. UNCHANGED counts
        BY <2>3, <3>1 DEF TaskStep, Receive, Serve, Start, Resolve, Panic,
                          StoreClosing, NotifyStop, Joined, counts
      <4>2. phase[q] # "answered" /\ phase'[q] # "answered"
        BY <2>t, <2>3, <3>1 DEF TypeOK, Reqs, TaskStep, Receive, Serve, Start,
                Resolve, Panic, StoreClosing, NotifyStop, Joined, Moves
      <4>3. ASSUME NEW r \in Runs, r # q PROVE phase'[r] = phase[r]
        BY <2>t, <2>3, <4>3, Elsewhere DEF Same
      <4> QED
        BY <4>1, <4>2, <4>3 DEF counts, Stream!vars
    <3>2. CASE Respond(q)
      <4>1. emitted[q] = out[q]
        BY <2>t, <3>2 DEF Respond, Moves, Local, Count, Hands, Order, TypeOK
      <4>2. Stream!Answer(q)
        BY <2>t, <3>2, <4>1
        DEF Respond, Moves, TypeOK, Reqs, counts, Stream!Answer
      <4> QED
        BY <4>2 DEF Stream!Next
    <3> QED
      BY <3>1, <3>2
  <2>4. ASSUME NEW q \in Runs, FwdStep(q)
        PROVE  [Stream!Next]_(Stream!vars)
    <3>1. UNCHANGED <<emitted, phase>>
      BY <2>4 DEF FwdStep, CheckClosing, Woken, Take, EndOfChannel, Write,
                  DrainTake, DrainWrite, DrainEnd, counts
    <3>2. CASE UNCHANGED out
      BY <3>1, <3>2 DEF Stream!vars
    <3>3. CASE ~UNCHANGED out
      <4>1. Write(q) \/ DrainWrite(q)
        BY <2>4, <3>3 DEF FwdStep, CheckClosing, Woken, Take, EndOfChannel,
                          DrainTake, DrainEnd, counts
      <4>2. hold[q] = "early" /\ out' = [out EXCEPT ![q] = @ + 1]
        BY <2>t, <3>3, <4>1 DEF Write, DrainWrite, Puts, TypeOK
      <4>3. phase[q] # "answered"
        BY <2>t, <4>1 DEF Write, DrainWrite, Goes, Local, Order
      <4>4. out[q] < emitted[q]
        BY <2>t, <4>2 DEF Local, Count, TypeOK
      <4>5. Stream!Write(q)
        BY <3>1, <4>2, <4>3, <4>4 DEF Stream!Write
      <4> QED
        BY <4>5 DEF Stream!Next
    <3> QED
      BY <3>2, <3>3
  <2>5. ASSUME NEW q \in Runs, SinkStep(q)
        PROVE  [Stream!Next]_(Stream!vars)
    <3>1. UNCHANGED <<out, phase>>
      BY <2>5 DEF SinkStep, CloneSink, Emit, EmitLate, DropSink, counts
    <3>2. CASE UNCHANGED emitted
      BY <3>1, <3>2 DEF Stream!vars
    <3>3. CASE ~UNCHANGED emitted
      <4>1. Emit(q)
        BY <2>5, <3>3 DEF SinkStep, CloneSink, EmitLate, DropSink, counts
      <4>2. Stream!Emit(q)
        BY <3>1, <4>1 DEF Emit, Stream!Emit
      <4> QED
        BY <4>2 DEF Stream!Next
    <3> QED
      BY <3>2, <3>3
  <2> QED
    BY <2>1, <2>2, <2>3, <2>4, <2>5, NextSplits
<1> QED
  BY <1>1, <1>2, Invariance, PTL DEF Spec, StreamSpec, Stream!Spec
=============================================================================
