------------------------ MODULE PluginShell_proofs ------------------------
(***************************************************************************)
(* Theorems about PluginShell for every set of ids and tasks: typing, the  *)
(* gate, the in-flight table and the quiet shutdown.  They follow from one *)
(* inductive invariant, IInv.                                              *)
(***************************************************************************)
EXTENDS PluginShell, FiniteSetTheorems, TLAPS

\* What an untouched slot and a notification's task look like.
Slots ==
  \A t \in Tasks :
    /\ st[t] = "idle" => rid[t] = NoId
    /\ ~IsRequest(t) => stream[t] = "none"

\* The gate is opened in order, and only then is a request served.
Gate == /\ ready => initOk
        /\ (\E t \in Tasks : IsRequest(t)) => ready

\* A disciplined host never has one id stand for two things.
OneHolder ==
  ~HostReusesIds =>
    \A t, u \in Tasks : Holds(t) /\ Holds(u) /\ rid[t] = rid[u] => t = u

\* From the drain of the table until the answer, all that still runs has been
\* told to stop; once the tasks are joined, none runs.
Draining ==
  /\ (pc \in {"join", "hook"} /\ Cancellation /\ ~HostReusesIds) =>
       \A t \in Tasks :
         IsRequest(t) /\ (st[t] = "running" \/ stream[t] = "open") => token[t]
  /\ pc \in {"hook", "closed"} => \A t \in Tasks : ~Live(t)

IInv == /\ TypeOK
        /\ Slots /\ Gate
        /\ TableHoldsNoFinished
        /\ OneHolder
        /\ CancelReaches
        /\ Draining

\* The steps of the shell, one disjunct each: Next with its grouping undone.
Frame ==
  \/ \E i \in FrameIds : AnswerInline(i)
  \/ \E i \in FrameIds : Initialize(i) \/ Health(i)
  \/ \E i \in FrameIds : Shutdown(i)
  \/ \E i \in Ids : CancelRequest(i)
  \/ \E t \in Tasks : Notification(t)
  \/ \E t \in Tasks, i \in Ids, w \in BOOLEAN : Call(t, i, w)
  \/ Initialized \/ Exit \/ Eof

\* The six frames answered in the same turn are one action.
LEMMA LoopStepIsFrame == LoopStep => Frame
  BY DEF LoopStep, Frame, Ping, InitializeRejected, UnknownMethod, UnknownMeta,
         NotInitialized, FrameIds

\* The initial state satisfies the inductive invariant.
LEMMA InitIInv == Init => IInv
<1> SUFFICES ASSUME Init PROVE IInv
  OBVIOUS
<1>1. TypeOK
  BY DEF Init, TypeOK, FrameIds
<1>2. \A t \in Tasks : ~IsRequest(t) /\ ~Live(t) /\ stream[t] = "none"
  BY IdsAssumption DEF Init, IsRequest, Live
<1>3. \A i \in Ids : inFlight[i] \notin Tasks
  BY TasksAssumption DEF Init
<1>4. ~initOk /\ ~ready /\ pc = "read" /\ \A t \in Tasks : rid[t] = NoId
  BY DEF Init
<1> QED
  BY <1>1, <1>2, <1>3, <1>4
  DEF IInv, Slots, Gate, TableHoldsNoFinished, OneHolder, CancelReaches,
      Draining, Holds, Unanswered

\* Typing is inductive on its own: no action writes outside its ranges.
LEMMA TypeStep == TypeOK /\ [Next]_vars => TypeOK'
<1> SUFFICES ASSUME TypeOK, [Next]_vars PROVE TypeOK'
  OBVIOUS
<1> USE DEF TypeOK, FrameIds, loopVars, gateVars, taskVars, ledger
<1>1. ASSUME NEW i \in FrameIds, AnswerInline(i) PROVE TypeOK'
  BY <1>1 DEF AnswerInline, Ask, Respond
<1>2. ASSUME NEW i \in FrameIds, Initialize(i) \/ Health(i) PROVE TypeOK'
  BY <1>2 DEF Initialize, Health, Suspend, Ask
<1>3. ASSUME NEW i \in FrameIds, Shutdown(i) PROVE TypeOK'
  BY <1>3 DEF Shutdown, Suspend, Ask
<1>4. ASSUME NEW i \in Ids, CancelRequest(i) PROVE TypeOK'
  BY <1>4 DEF CancelRequest
<1>5. ASSUME NEW t \in Tasks, Notification(t) PROVE TypeOK'
  BY <1>5 DEF Notification, Spawn
<1>6. ASSUME NEW t \in Tasks, NEW i \in Ids, NEW w \in BOOLEAN, Call(t, i, w)
      PROVE TypeOK'
  BY <1>6 DEF Call, Spawn, Ask
<1>7. CASE Initialized \/ Exit \/ Eof
  BY <1>7 DEF Initialized, Exit, Eof
<1>8. ASSUME NEW ok \in BOOLEAN, InitializeDone(ok) PROVE TypeOK'
  BY <1>8 DEF InitializeDone, Resume, Respond
<1>9. CASE HealthDone \/ ShutdownAck
  BY <1>9 DEF HealthDone, ShutdownAck, Resume, Respond
<1>10. CASE ShutdownJoined \/ Reaped
  BY <1>10 DEF ShutdownJoined, Reaped
<1>11. ASSUME NEW t \in Tasks, NEW keep \in BOOLEAN, Return(t, keep)
       PROVE TypeOK'
  BY <1>11 DEF Return, StepTo
<1>12. ASSUME NEW t \in Tasks,
              NotificationDone(t) \/ Panic(t) \/ Aborted(t) \/ StreamStops(t)
       PROVE TypeOK'
  BY <1>12 DEF NotificationDone, Panic, Aborted, StreamStops, StepTo
<1>13. ASSUME NEW t \in Tasks, Unregister(t) PROVE TypeOK'
  BY <1>13 DEF Unregister, StepTo
<1>14. ASSUME NEW t \in Tasks, Reply(t) PROVE TypeOK'
  BY <1>14 DEF Reply, Respond, StepTo
<1>15. CASE UNCHANGED vars
  BY <1>15 DEF vars
<1> QED
  BY <1>1, <1>2, <1>3, <1>4, <1>5, <1>6, <1>7, <1>8, <1>9, <1>10, <1>11,
     <1>12, <1>13, <1>14, <1>15, LoopStepIsFrame
  DEF Next, Frame, HookStep, TaskStep

\* The shell's variables stay in their ranges.
THEOREM TypeCorrect == Spec => []TypeOK
<1>1. Init => TypeOK
  BY InitIInv DEF IInv
<1> QED
  BY <1>1, TypeStep, PTL DEF Spec

----------------------------------------------------------------------------
\* The conjuncts of the invariant beside typing.
Facts == /\ Slots /\ Gate /\ TableHoldsNoFinished
         /\ OneHolder /\ CancelReaches /\ Draining

\* A step that leaves tasks, tokens and table alone keeps the facts about them,
\* provided it opens the gate in order and enters "join", "hook" and "closed"
\* only when what they promise holds.
LEMMA QuietStep ==
  ASSUME Facts,
         UNCHANGED <<inFlight, taskVars, token>>,
         (ready => ready') /\ (initOk => initOk') /\ (ready' => initOk'),
         \/ pc' = pc
         \/ pc' \notin {"join", "hook", "closed"}
         \/ /\ pc' = "closed" \/ (pc' = "hook" /\ pc = "join")
            /\ \A t \in Tasks : ~Live(t)
  PROVE  Facts'
<1>1. Slots' /\ Gate' /\ TableHoldsNoFinished' /\ CancelReaches'
  BY DEF Facts, Slots, Gate, TableHoldsNoFinished, CancelReaches, IsRequest,
         taskVars
<1>2. OneHolder'
  BY DEF Facts, OneHolder, Holds, Unanswered, Live, IsRequest, taskVars
<1>3. Draining'
  BY DEF Facts, Draining, Live, IsRequest, taskVars
<1> QED
  BY <1>1, <1>2, <1>3 DEF Facts

LEMMA LoopKeepsFacts ==
  ASSUME TypeOK, Facts,
         \/ \E i \in FrameIds : AnswerInline(i) \/ Initialize(i) \/ Health(i)
         \/ \E ok \in BOOLEAN : InitializeDone(ok)
         \/ HealthDone \/ ShutdownAck \/ ShutdownJoined \/ Reaped
         \/ Initialized \/ Exit \/ Eof
         \/ UNCHANGED vars
  PROVE  Facts'
<1> USE DEF loopVars, gateVars, taskVars, ledger
<1>0. ready => initOk
  BY DEF Facts, Gate
<1>1. ASSUME NEW i \in FrameIds, AnswerInline(i) PROVE Facts'
  BY <1>0, <1>1, QuietStep DEF AnswerInline
<1>2. ASSUME NEW i \in FrameIds, Initialize(i) \/ Health(i) PROVE Facts'
  BY <1>0, <1>2, QuietStep DEF Initialize, Health, Suspend
<1>3. ASSUME NEW ok \in BOOLEAN, InitializeDone(ok) PROVE Facts'
  BY <1>0, <1>3, QuietStep DEF InitializeDone, Resume
<1>4. CASE HealthDone \/ ShutdownAck
  BY <1>0, <1>4, QuietStep DEF HealthDone, ShutdownAck, Resume
<1>5. CASE ShutdownJoined \/ Reaped
  BY <1>0, <1>5, QuietStep DEF ShutdownJoined, Reaped
<1>6. CASE Initialized \/ Exit \/ Eof
  BY <1>0, <1>6, QuietStep DEF Initialized, Exit, Eof
<1>7. CASE UNCHANGED vars
  BY <1>0, <1>7, QuietStep DEF vars
<1> QED
  BY <1>1, <1>2, <1>3, <1>4, <1>5, <1>6, <1>7

\* Cancelling takes one task out of the table and trips its token.
LEMMA CancelKeepsFacts ==
  ASSUME TypeOK, Facts, NEW i \in Ids, CancelRequest(i)
  PROVE  Facts'
<1> USE DEF Facts, CancelRequest, loopVars, gateVars, taskVars, ledger, TypeOK
<1>1. Slots' /\ Gate'
  BY DEF Slots, Gate, IsRequest
<1>2. TableHoldsNoFinished'
  BY TasksAssumption DEF TableHoldsNoFinished
<1>3. OneHolder'
  BY DEF OneHolder, Holds, Unanswered, Live, IsRequest
<1>4. CancelReaches'
  BY DEF CancelReaches, IsRequest, TableHoldsNoFinished
<1>5. Draining'
  BY DEF Draining, Live, IsRequest
<1> QED
  BY <1>1, <1>2, <1>3, <1>4, <1>5

\* Shutdown trips every token in the table; CancelReaches says that is every
\* token that still matters.
LEMMA ShutdownKeepsFacts ==
  ASSUME TypeOK, Facts, NEW i \in FrameIds, Shutdown(i)
  PROVE  Facts'
<1> USE DEF Facts, Shutdown, Suspend, gateVars, taskVars, TypeOK
<1>1. Slots' /\ Gate'
  BY DEF Slots, Gate, IsRequest
<1>2. TableHoldsNoFinished'
  BY TasksAssumption DEF TableHoldsNoFinished
<1>3. OneHolder'
  BY DEF OneHolder, Holds, Unanswered, Live, IsRequest
<1>4. ASSUME Cancellation, ~HostReusesIds, NEW t \in Tasks,
             IsRequest(t), st[t] = "running" \/ stream[t] = "open"
      PROVE  token'[t]
  <2>1. token[t] \/ inFlight[rid[t]] = t
    BY <1>4 DEF CancelReaches
  <2> QED
    BY <2>1, <1>4 DEF IsRequest
<1>5. CancelReaches'
  BY <1>4 DEF CancelReaches, IsRequest
<1>6. Draining'
  BY <1>4 DEF Draining, Live, IsRequest
<1> QED
  BY <1>1, <1>2, <1>3, <1>5, <1>6

\* A new request takes an id nothing else holds, or replaces what did.
LEMMA CallKeepsFacts ==
  ASSUME TypeOK, Facts,
         NEW t \in Tasks, NEW i \in Ids, NEW w \in BOOLEAN, Call(t, i, w)
  PROVE  Facts'
<1> USE DEF Facts, Call, Spawn, MayUse, loopVars, gateVars, TypeOK
<1>0. rid[t] = NoId /\ ~IsRequest(t) /\ stream[t] = "none"
  BY IdsAssumption DEF Slots, IsRequest
<1>1. Slots' /\ Gate'
  BY <1>0 DEF Slots, Gate, IsRequest
<1>2. TableHoldsNoFinished'
  BY <1>0, TasksAssumption DEF TableHoldsNoFinished, IsRequest
<1>3. ASSUME NEW u \in Tasks, u # t PROVE Holds(u)' <=> Holds(u)
  BY <1>3 DEF Holds, Unanswered, Live, IsRequest
<1>4. OneHolder'
  BY <1>3 DEF OneHolder
<1>5. CancelReaches'
  <2> SUFFICES ASSUME Cancellation, ~HostReusesIds, NEW u \in Tasks,
                      IsRequest(u)', ~token[u],
                      (st[u] = "running")' \/ stream[u] = "open"
               PROVE  inFlight'[rid'[u]] = u
    BY DEF CancelReaches
  <2>1. CASE u = t
    BY <2>1
  <2>2. CASE u # t
    BY <2>2 DEF CancelReaches, IsRequest, Holds, Unanswered, Live
  <2> QED
    BY <2>1, <2>2
<1>6. Draining'
  BY DEF Draining
<1> QED
  BY <1>1, <1>2, <1>4, <1>5, <1>6

\* The steps of a task that ends without leaving anything behind: the handler
\* of a notification returns, a handler panics, a task is aborted.
LEMMA EndKeepsFacts ==
  ASSUME TypeOK, Facts, NEW t \in Tasks,
         NotificationDone(t) \/ Panic(t) \/ Aborted(t)
  PROVE  Facts'
<1> USE DEF Facts, NotificationDone, Panic, Aborted, StepTo, loopVars, gateVars,
            ledger, TypeOK
<1>0. /\ st' = [st EXCEPT ![t] = "done"] \/ st' = [st EXCEPT ![t] = "lost"]
      /\ st[t] # "idle" /\ Live(t)
      /\ UNCHANGED <<pc, cur, initOk, ready, inFlight, rid, waits, stream, token>>
      /\ IsRequest(t) => st'[t] = "lost"
  BY DEF Live
<1>1. Slots' /\ Gate'
  BY <1>0 DEF Slots, Gate, IsRequest
<1>2. TableHoldsNoFinished'
  <2> SUFFICES ASSUME NEW i \in Ids, inFlight[i] \in Tasks
               PROVE  /\ Cancellation /\ rid[inFlight[i]] = i
                      /\ \/ st'[inFlight[i]] \in {"running", "returned", "lost"}
                         \/ stream[inFlight[i]] # "none"
    BY <1>0 DEF TableHoldsNoFinished
  <2> QED
    BY <1>0 DEF TableHoldsNoFinished, IsRequest
<1>3. \A u \in Tasks : Holds(u)' => Holds(u)
  BY <1>0 DEF Holds, Unanswered, Live, IsRequest
<1>4. OneHolder'
  BY <1>0, <1>3 DEF OneHolder
<1>5. CancelReaches'
  BY <1>0 DEF CancelReaches, IsRequest
<1>6. Draining'
  BY <1>0 DEF Draining, Live, IsRequest
<1> QED
  BY <1>1, <1>2, <1>4, <1>5, <1>6

\* A handler that returns, with or without a subscription, stays where it was
\* in the table; a subscription that stops only stops mattering.
LEMMA ReturnKeepsFacts ==
  ASSUME TypeOK, Facts, NEW t \in Tasks,
         (\E keep \in BOOLEAN : Return(t, keep)) \/ StreamStops(t)
  PROVE  Facts'
<1> USE DEF Facts, Return, StreamStops, StepTo, loopVars, gateVars, ledger, TypeOK
<1>1. Slots' /\ Gate'
  BY DEF Slots, Gate, IsRequest
<1>2. TableHoldsNoFinished'
  BY DEF TableHoldsNoFinished
<1>3. \A u \in Tasks : Holds(u)' => Holds(u)
  BY DEF Holds, Unanswered, Live, IsRequest
<1>4. OneHolder'
  BY <1>3 DEF OneHolder
<1>5. CancelReaches'
  BY DEF CancelReaches, IsRequest
<1>6. Draining'
  BY DEF Draining, Live, IsRequest
<1> QED
  BY <1>1, <1>2, <1>4, <1>5, <1>6

\* Only the holder of an id clears the entry under it.
LEMMA UnregisterKeepsFacts ==
  ASSUME TypeOK, Facts, NEW t \in Tasks, Unregister(t)
  PROVE  Facts'
<1> USE DEF Facts, Unregister, StepTo, loopVars, gateVars, ledger, TypeOK
<1>1. Slots' /\ Gate'
  BY DEF Slots, Gate, IsRequest
<1>2. TableHoldsNoFinished'
  <2> SUFFICES ASSUME NEW i \in Ids, inFlight'[i] \in Tasks
               PROVE  /\ Cancellation /\ rid[inFlight'[i]] = i
                      /\ \/ st'[inFlight'[i]] \in {"running", "returned", "lost"}
                         \/ stream[inFlight'[i]] # "none"
    BY DEF TableHoldsNoFinished
  <2>1. inFlight'[i] = inFlight[i]
    BY TasksAssumption
  <2>2. inFlight[i] # t \/ stream[t] # "none"
    BY <2>1, TasksAssumption DEF TableHoldsNoFinished
  <2> QED
    BY <2>1, <2>2 DEF TableHoldsNoFinished
<1>3. \A u \in Tasks : Holds(u)' => Holds(u)
  BY DEF Holds, Unanswered, Live, IsRequest
<1>4. OneHolder'
  BY <1>3 DEF OneHolder
<1>5. CancelReaches'
  <2> SUFFICES ASSUME Cancellation, ~HostReusesIds, NEW u \in Tasks,
                      IsRequest(u), ~token[u],
                      st'[u] = "running" \/ stream[u] = "open"
               PROVE  inFlight'[rid[u]] = u
    BY DEF CancelReaches, IsRequest
  <2>1. inFlight[rid[u]] = u
    BY DEF CancelReaches
  <2>2. CASE stream[t] # "none"
    BY <2>1, <2>2
  <2>3. CASE stream[t] = "none" /\ IsRequest(t)
    <3>1. Holds(u) /\ Holds(t) /\ u # t
      BY <2>3 DEF Holds, Unanswered, Live, IsRequest
    <3>2. rid[u] # rid[t]
      BY <3>1 DEF OneHolder
    <3> QED
      BY <2>1, <3>2 DEF IsRequest
  <2>4. CASE ~IsRequest(t)
    BY <2>1, <2>4 DEF IsRequest
  <2> QED
    BY <2>2, <2>3, <2>4
<1>6. Draining'
  BY DEF Draining, Live, IsRequest
<1> QED
  BY <1>1, <1>2, <1>4, <1>5, <1>6

LEMMA ReplyKeepsFacts ==
  ASSUME TypeOK, Facts, NEW t \in Tasks, Reply(t)
  PROVE  Facts'
<1> USE DEF Facts, Reply, StepTo, loopVars, gateVars, TypeOK
<1>1. Slots' /\ Gate'
  BY DEF Slots, Gate, IsRequest
<1>2. TableHoldsNoFinished'
  BY DEF TableHoldsNoFinished
<1>3. \A u \in Tasks : Holds(u)' => Holds(u)
  BY DEF Holds, Unanswered, Live, IsRequest
<1>4. OneHolder'
  BY <1>3 DEF OneHolder
<1>5. CancelReaches'
  BY DEF CancelReaches, IsRequest
<1>6. Draining'
  BY DEF Draining, Live, IsRequest
<1> QED
  BY <1>1, <1>2, <1>4, <1>5, <1>6

LEMMA NotificationKeepsFacts ==
  ASSUME TypeOK, Facts, NEW t \in Tasks, Notification(t)
  PROVE  Facts'
<1> USE DEF Facts, Notification, Spawn, loopVars, gateVars, ledger, TypeOK
<1>0. rid[t] = NoId /\ rid' = rid /\ ~IsRequest(t) /\ stream[t] = "none"
  BY IdsAssumption DEF Slots, IsRequest
<1>1. Slots' /\ Gate'
  BY <1>0 DEF Slots, Gate, IsRequest
<1>2. TableHoldsNoFinished'
  BY <1>0, IdsAssumption DEF TableHoldsNoFinished
<1>3. \A u \in Tasks : Holds(u)' => Holds(u)
  BY <1>0 DEF Holds, Unanswered, Live, IsRequest
<1>4. OneHolder'
  BY <1>0, <1>3 DEF OneHolder
<1>5. CancelReaches'
  BY <1>0 DEF CancelReaches, IsRequest
<1>6. Draining'
  BY <1>0 DEF Draining, Live, IsRequest
<1> QED
  BY <1>1, <1>2, <1>4, <1>5, <1>6

\* Every step keeps the inductive invariant.
LEMMA IInvStep == IInv /\ [Next]_vars => IInv'
<1> SUFFICES ASSUME TypeOK, Facts, [Next]_vars PROVE Facts'
  BY TypeStep DEF IInv, Facts
<1>1. CASE LoopStep
  <2>1. Frame
    BY <1>1, LoopStepIsFrame
  <2> QED
    BY <2>1, LoopKeepsFacts, ShutdownKeepsFacts, CancelKeepsFacts,
       NotificationKeepsFacts, CallKeepsFacts DEF Frame
<1>2. CASE HookStep
  BY <1>2, LoopKeepsFacts DEF HookStep
<1>3. ASSUME NEW t \in Tasks, TaskStep(t) PROVE Facts'
  BY <1>3, ReturnKeepsFacts, EndKeepsFacts, UnregisterKeepsFacts, ReplyKeepsFacts
  DEF TaskStep
<1>4. ASSUME NEW t \in Tasks, Panic(t) \/ StreamStops(t) \/ Aborted(t)
      PROVE  Facts'
  BY <1>4, ReturnKeepsFacts, EndKeepsFacts
<1>5. CASE UNCHANGED vars
  BY <1>5, LoopKeepsFacts
<1> QED
  BY <1>1, <1>2, <1>3, <1>4, <1>5 DEF Next

LEMMA Invariance == Spec => []IInv
  BY InitIInv, IInvStep, PTL DEF Spec

----------------------------------------------------------------------------
\* The table never holds the entry of a request that was served and kept
\* nothing, for any number of requests.
THEOREM TableBounded == Spec => []TableHoldsNoFinished
  BY Invariance, PTL DEF IInv

\* With a disciplined host, cancellation reaches whatever runs.
THEOREM Cancellable == Spec => []CancelReaches
  BY Invariance, PTL DEF IInv

\* Nothing runs unwarned when the shutdown is acknowledged.
THEOREM QuietShutdown == Spec => []ShutdownQuiet
<1>1. IInv => ShutdownQuiet
  <2> SUFFICES ASSUME IInv, pc = "hook", NEW t \in Tasks
               PROVE  /\ ~Live(t)
                      /\ (/\ Cancellation /\ ~HostReusesIds
                          /\ stream[t] = "open") => token[t]
    BY DEF ShutdownQuiet
  <2>1. ~Live(t)
    BY DEF IInv, Draining
  <2>2. stream[t] = "open" => IsRequest(t)
    BY DEF IInv, Slots
  <2> QED
    BY <2>1, <2>2 DEF IInv, Draining
<1> QED
  BY <1>1, Invariance, PTL

\* No request is served before the handshake has completed.
THEOREM Handshake == Spec => []ServedAfterHandshake
<1>1. IInv => ServedAfterHandshake
  BY DEF IInv, Gate, ServedAfterHandshake
<1> QED
  BY <1>1, Invariance, PTL

\* Once the loop has joined its aborted tasks, no response is written.
THEOREM SilentAfterClose == Spec => NothingAfterClose
<1>1. IInv /\ [Next]_vars => [pc = "closed" => UNCHANGED answered]_vars
  <2> SUFFICES ASSUME IInv, Next, pc = "closed" PROVE UNCHANGED answered
    OBVIOUS
  <2>1. \A t \in Tasks : ~Live(t)
    BY DEF IInv, Draining
  <2>2. ~LoopStep
    BY LoopStepIsFrame
    DEF Frame, AnswerInline, Initialize, Health, Shutdown, Suspend,
        CancelRequest, Notification, Call, Initialized, Exit, Eof
  <2>3. ~HookStep
    BY DEF HookStep, InitializeDone, HealthDone, ShutdownJoined, ShutdownAck,
           Reaped
  <2>4. ASSUME NEW t \in Tasks PROVE ~TaskStep(t) /\ ~Panic(t)
    BY <2>1 DEF TaskStep, Return, NotificationDone, Unregister, Reply, Panic,
                StepTo, Live
  <2> QED
    BY <2>2, <2>3, <2>4 DEF Next, StreamStops, Aborted, ledger
<1> QED
  BY <1>1, Invariance, PTL DEF Spec, NothingAfterClose

----------------------------------------------------------------------------
(* Every request is answered once: the balance of an id.                   *)

Hooks == {"init", "health", "join", "hook"}

\* The tasks, and the loop, that owe an answer under i.
Owed(i) == {t \in Tasks : Unanswered(t) /\ rid[t] = i}
LoopOwes(i) == IF pc \in Hooks /\ cur = i THEN 1 ELSE 0

Balance(i) == /\ IsFiniteSet(Owed(i))
              /\ asked[i] = answered[i] + Cardinality(Owed(i)) + LoopOwes(i)

\* What returned was the handler of a request.
Returned == \A t \in Tasks : st[t] \in {"returned", "replying"} => IsRequest(t)

Accounts == /\ TypeOK /\ Slots /\ Returned
            /\ \A i \in FrameIds : Balance(i)

\* A step of the loop that leaves the tasks alone.
LEMMA LoopBalances ==
  ASSUME Accounts, TypeOK',
         \/ \E i \in FrameIds : AnswerInline(i) \/ Initialize(i) \/ Health(i) \/ Shutdown(i)
         \/ \E i \in Ids : CancelRequest(i)
         \/ Initialized \/ Exit \/ Eof \/ HookStep \/ UNCHANGED vars
  PROVE  (Returned /\ \A i \in FrameIds : Balance(i))'
<1>1. UNCHANGED taskVars
  BY DEF AnswerInline, Initialize, Health, Shutdown, CancelRequest, Initialized, Exit, Eof,
         HookStep, InitializeDone, HealthDone, ShutdownJoined, ShutdownAck, Reaped, vars
<1>2. Returned'
  BY <1>1 DEF Accounts, Returned, IsRequest, taskVars
<1>3. \A i \in FrameIds : Owed(i)' = Owed(i)
  BY <1>1 DEF Owed, Unanswered, Live, IsRequest, taskVars
<1>4. ASSUME NEW i \in FrameIds
      PROVE  asked'[i] + answered[i] + LoopOwes(i) = asked[i] + answered'[i] + LoopOwes(i)'
  <2>0. asked \in [FrameIds -> Nat] /\ answered \in [FrameIds -> Nat] /\ cur \in FrameIds
    BY DEF Accounts, TypeOK
  <2>1. CASE \E j \in FrameIds : AnswerInline(j)
    BY <2>0, <2>1 DEF AnswerInline, Ask, Respond, LoopOwes, loopVars, Hooks
  <2>2. CASE \E j \in FrameIds : Initialize(j) \/ Health(j) \/ Shutdown(j)
    BY <2>0, <2>2 DEF Initialize, Health, Shutdown, Suspend, Ask, LoopOwes, Hooks
  <2>3. CASE \/ \E j \in Ids : CancelRequest(j)
             \/ Initialized \/ Exit \/ Eof \/ ShutdownJoined \/ Reaped \/ UNCHANGED vars
    <3>1. UNCHANGED ledger /\ LoopOwes(i)' = LoopOwes(i)
      BY <2>3 DEF CancelRequest, Initialized, Exit, Eof, ShutdownJoined, Reaped, vars,
                  loopVars, LoopOwes, Hooks
    <3>2. LoopOwes(i) \in Nat
      BY DEF LoopOwes
    <3> QED
      BY <2>0, <3>1, <3>2 DEF ledger
  <2>4. CASE (\E ok \in BOOLEAN : InitializeDone(ok)) \/ HealthDone \/ ShutdownAck
    BY <2>0, <2>4 DEF InitializeDone, HealthDone, ShutdownAck, Resume, Respond, LoopOwes, Hooks
  <2> QED
    BY <2>1, <2>2, <2>3, <2>4 DEF HookStep
<1>5. ASSUME NEW i \in FrameIds
      PROVE  Balance(i)'
  <2>1. IsFiniteSet(Owed(i)) /\ Cardinality(Owed(i)) \in Nat
        /\ asked[i] = answered[i] + Cardinality(Owed(i)) + LoopOwes(i)
    BY FS_CardinalityType DEF Accounts, Balance
  <2>2. asked'[i] \in Nat /\ answered'[i] \in Nat /\ asked[i] \in Nat /\ answered[i] \in Nat
        /\ LoopOwes(i) \in Nat /\ LoopOwes(i)' \in Nat
    BY DEF Accounts, TypeOK, LoopOwes
  <2>3. Owed(i)' = Owed(i)
    BY <1>3
  <2> QED
    BY <1>4, <2>1, <2>2, <2>3 DEF Balance
<1> QED
  BY <1>2, <1>5

\* A call is owed an answer by its task from now on.
LEMMA CallBalances ==
  ASSUME Accounts, TypeOK', NEW t \in Tasks, NEW i \in Ids, NEW w \in BOOLEAN, Call(t, i, w)
  PROVE  (Returned /\ \A j \in FrameIds : Balance(j))'
<1>1. /\ st[t] = "idle" /\ rid[t] = NoId
      /\ st' = [st EXCEPT ![t] = "running"] /\ rid' = [rid EXCEPT ![t] = i]
      /\ st \in [Tasks -> {"idle", "running", "returned", "replying", "done", "lost"}]
      /\ rid \in [Tasks -> FrameIds]
  BY DEF Call, Spawn, Accounts, Slots, TypeOK
<1>2. Returned'
  BY <1>1 DEF Accounts, Returned, IsRequest
<1>3. Owed(i)' = Owed(i) \cup {t} /\ t \notin Owed(i)
  BY <1>1 DEF Owed, Unanswered, Live, IsRequest
<1>4. \A j \in FrameIds : j # i => Owed(j)' = Owed(j)
  BY <1>1, IdsAssumption DEF Owed, Unanswered, Live, IsRequest
<1>5. /\ asked' = [asked EXCEPT ![i] = @ + 1] /\ UNCHANGED <<answered, pc, cur>>
      /\ asked \in [FrameIds -> Nat] /\ answered \in [FrameIds -> Nat]
  BY DEF Call, Ask, loopVars, Accounts, TypeOK
<1>6. \A j \in FrameIds : LoopOwes(j)' = LoopOwes(j) /\ LoopOwes(j) \in Nat
  BY <1>5 DEF LoopOwes
<1>7. ASSUME NEW j \in FrameIds
      PROVE  Balance(j)'
  <2>1. IsFiniteSet(Owed(j)) /\ Cardinality(Owed(j)) \in Nat
        /\ asked[j] = answered[j] + Cardinality(Owed(j)) + LoopOwes(j)
    BY FS_CardinalityType DEF Accounts, Balance
  <2>2. CASE j = i
    <3>1. IsFiniteSet(Owed(i)') /\ Cardinality(Owed(i)') = Cardinality(Owed(i)) + 1
      BY <1>3, <2>1, <2>2, FS_AddElement
    <3> QED
      BY <1>5, <1>6, <2>1, <2>2, <3>1 DEF Balance
  <2>3. CASE j # i
    BY <1>4, <1>5, <1>6, <2>1, <2>3 DEF Balance
  <2> QED
    BY <2>2, <2>3
<1> QED
  BY <1>2, <1>7

\* A response is what its task owed.
LEMMA ReplyBalances ==
  ASSUME Accounts, TypeOK', NEW t \in Tasks, Reply(t)
  PROVE  (Returned /\ \A j \in FrameIds : Balance(j))'
<1> DEFINE i == rid[t]
<1>1. /\ st[t] = "replying" /\ i \in Ids /\ i \in FrameIds
      /\ st' = [st EXCEPT ![t] = "done"] /\ UNCHANGED rid
      /\ st \in [Tasks -> {"idle", "running", "returned", "replying", "done", "lost"}]
  BY DEF Reply, StepTo, Accounts, Returned, IsRequest, TypeOK, FrameIds
<1>2. Returned'
  BY <1>1 DEF Accounts, Returned, IsRequest
<1>3. Owed(i)' = Owed(i) \ {t} /\ t \in Owed(i)
  BY <1>1 DEF Owed, Unanswered, Live, IsRequest
<1>4. \A j \in FrameIds : j # i => Owed(j)' = Owed(j)
  BY <1>1 DEF Owed, Unanswered, Live, IsRequest
<1>5. /\ answered' = [answered EXCEPT ![i] = @ + 1] /\ UNCHANGED <<asked, pc, cur>>
      /\ asked \in [FrameIds -> Nat] /\ answered \in [FrameIds -> Nat]
  BY DEF Reply, Respond, loopVars, Accounts, TypeOK
<1>6. \A j \in FrameIds : LoopOwes(j)' = LoopOwes(j) /\ LoopOwes(j) \in Nat
  BY <1>5 DEF LoopOwes
<1>7. ASSUME NEW j \in FrameIds
      PROVE  Balance(j)'
  <2>1. IsFiniteSet(Owed(j)) /\ Cardinality(Owed(j)) \in Nat
        /\ asked[j] = answered[j] + Cardinality(Owed(j)) + LoopOwes(j)
    BY FS_CardinalityType DEF Accounts, Balance
  <2>2. CASE j = i
    <3>1. IsFiniteSet(Owed(i)') /\ Cardinality(Owed(i)') = Cardinality(Owed(i)) - 1
      BY <1>3, <2>1, <2>2, FS_RemoveElement
    <3> QED
      BY <1>1, <1>5, <1>6, <2>1, <2>2, <3>1 DEF Balance
  <2>3. CASE j # i
    BY <1>4, <1>5, <1>6, <2>1, <2>3 DEF Balance
  <2> QED
    BY <2>2, <2>3
<1> QED
  BY <1>2, <1>7

\* Nothing else a task does is asked or answered.
LEMMA TaskBalances ==
  ASSUME Accounts, NEW t \in Tasks,
         \/ Notification(t) \/ NotificationDone(t) \/ Unregister(t)
         \/ \E keep \in BOOLEAN : Return(t, keep)
         \/ Panic(t) \/ StreamStops(t) \/ Aborted(t)
  PROVE  (Returned /\ \A j \in FrameIds : Balance(j))'
<1>1. /\ st \in [Tasks -> {"idle", "running", "returned", "replying", "done", "lost"}]
      /\ rid \in [Tasks -> FrameIds]
      /\ \A u \in Tasks \ {t} : st'[u] = st[u] /\ rid'[u] = rid[u]
  BY DEF Accounts, TypeOK, Notification, Spawn, NotificationDone, Unregister, Return, Panic,
         StreamStops, Aborted, StepTo
<1>2. rid'[t] = rid[t]
  BY <1>1 DEF Notification, Spawn, NotificationDone, Unregister, Return, Panic, StreamStops,
              Aborted, Accounts, Slots
<1>3. Unanswered(t)' = Unanswered(t)
  <2>1. CASE Notification(t)
    BY <1>1, <1>2, <2>1, IdsAssumption DEF Notification, Spawn, Unanswered, IsRequest
  <2>2. CASE NotificationDone(t)
    BY <1>1, <1>2, <2>2 DEF NotificationDone, Unanswered, IsRequest
  <2>3. CASE Unregister(t) \/ (\E keep \in BOOLEAN : Return(t, keep)) \/ Panic(t)
             \/ StreamStops(t) \/ Aborted(t)
    BY <1>1, <1>2, <2>3 DEF Unregister, Return, Panic, StreamStops, Aborted, StepTo,
                            Unanswered, Live, IsRequest
  <2> QED
    BY <2>1, <2>2, <2>3
<1>4. \A u \in Tasks : Unanswered(u)' = Unanswered(u) /\ rid'[u] = rid[u]
  BY <1>1, <1>2, <1>3 DEF Unanswered, Live, IsRequest
<1>5. Returned'
  BY <1>1, <1>2 DEF Accounts, Returned, IsRequest, Notification, Spawn, NotificationDone,
                    Unregister, Return, Panic, StreamStops, Aborted, StepTo
<1>6. \A j \in FrameIds : Owed(j)' = Owed(j)
  BY <1>4 DEF Owed
<1>7. UNCHANGED <<asked, answered, pc, cur>>
  BY DEF Notification, NotificationDone, Unregister, Return, Panic, StreamStops, Aborted,
         loopVars, ledger
<1> QED
  BY <1>5, <1>6, <1>7 DEF Accounts, Balance, LoopOwes

LEMMA AccountsInit == Init => Accounts
<1> SUFFICES ASSUME Init PROVE Accounts
  OBVIOUS
<1>1. TypeOK /\ Slots
  BY InitIInv DEF IInv
<1>2. \A i \in FrameIds : Owed(i) = {} /\ LoopOwes(i) = 0 /\ asked[i] = 0 /\ answered[i] = 0
  BY DEF Init, Owed, Unanswered, Live, LoopOwes, Hooks
<1>3. \A i \in FrameIds : Balance(i)
  BY <1>2, FS_EmptySet DEF Balance
<1>4. Returned
  BY DEF Init, Returned
<1> QED
  BY <1>1, <1>3, <1>4 DEF Accounts

LEMMA AccountsStep == IInv /\ Accounts /\ [Next]_vars => Accounts'
<1> SUFFICES ASSUME IInv, Accounts, [Next]_vars
             PROVE  (Returned /\ \A j \in FrameIds : Balance(j))'
  BY IInvStep DEF IInv, Accounts
<1>0. TypeOK'
  BY IInvStep DEF IInv
<1>1. CASE LoopStep
  BY <1>0, <1>1, LoopStepIsFrame, LoopBalances, CallBalances, TaskBalances DEF Frame
<1>2. CASE HookStep \/ UNCHANGED vars
  BY <1>0, <1>2, LoopBalances
<1>3. ASSUME NEW t \in Tasks, TaskStep(t) \/ Panic(t) \/ StreamStops(t) \/ Aborted(t)
      PROVE  (Returned /\ \A j \in FrameIds : Balance(j))'
  BY <1>0, <1>3, ReplyBalances, TaskBalances DEF TaskStep
<1> QED
  BY <1>1, <1>2, <1>3 DEF Next

\* A request is answered once on every path through dispatch_frame, the hooks and the
\* tasks, for any ids and tasks, and whether or not the host reuses ids that are in use.
THEOREM OneAnswer == Spec => []AnsweredOnce
<1>1. Accounts => AnsweredOnce
  <2> SUFFICES ASSUME Accounts, NEW i \in FrameIds
               PROVE  asked[i] = answered[i] + Cardinality(Owed(i))
                        + Cardinality({p \in {pc} : p \in Hooks /\ cur = i})
    BY DEF AnsweredOnce, Owed, Hooks
  <2>1. CASE LoopOwes(i) = 1
    <3>1. {p \in {pc} : p \in Hooks /\ cur = i} = {pc}
      BY <2>1 DEF LoopOwes
    <3> QED
      BY <2>1, <3>1, FS_Singleton DEF Accounts, Balance
  <2>2. CASE LoopOwes(i) = 0
    <3>1. {p \in {pc} : p \in Hooks /\ cur = i} = {}
      BY <2>2 DEF LoopOwes
    <3> QED
      BY <2>2, <3>1, FS_EmptySet DEF Accounts, Balance
  <2> QED
    BY <2>1, <2>2 DEF LoopOwes
<1> QED
  BY <1>1, AccountsInit, AccountsStep, Invariance, PTL DEF Spec
=============================================================================
