-------------------------- MODULE SessionRun_proofs --------------------------
(***************************************************************************)
(* Proofs about SessionRun for every capacity of the pipes and the         *)
(* channel, any prompt and any number of lines: typing, then an inductive  *)
(* invariant that follows the session task from the spawn to its end.      *)
(***************************************************************************)
EXTENDS SessionRun, SequenceTheorems, FiniteSetTheorems, FunctionTheorems, TLAPS

Early == {"idle", "spawning", "announcing", "writing"}
Last  == {"finishing", "leaving", "done"}

\* Who owns the child: nobody before the spawn, the task until it has reaped
\* it, and then nobody, except for a child that did not take its prompt.
Owner ==
  /\ pc \in {"idle", "spawning"} => child = "none"
  /\ pc = "announcing" /\ backend # "subprocess" => child \in {"alive", "zombie"}
  /\ pc = "announcing" /\ backend = "subprocess" => child = "none"
  /\ pc \in {"writing", "waiting"} => child \in {"alive", "zombie"}
  /\ pc \in {"waiting", "joining", "flushing"} => unsent = 0
  /\ pc \in {"joining", "flushing"} => child = "reaped"
  /\ pc \in {"failing"} \union Last /\ unsent = 0 => child \in {"none", "reaped"}

\* The sender is in the registry from the start to the end of the task, unless
\* terminate_session took it.
Tracked ==
  backend # "subprocess" /\ pc \notin {"idle", "done"} => registered \/ cancelled

\* The readers exist from the prompt on; who joins them is behind both.
Behind ==
  /\ pc \in Early => \A s \in Streams : rd[s] = "none"
  /\ ended # "none" => pc \in Last
  /\ backend = "gemini" /\ pc \in {"failing"} \union Last => Joined
  /\ ended = "own" => Joined

\* The channel: Finished is in it only when the task has nothing more to say,
\* and behind the joined readers it is the last event.
Ending ==
  /\ \A i \in DOMAIN chan : chan[i] = "finished" => pc \in {"leaving", "done"}
  /\ FinishedIsLast

IInv == TypeOK /\ Owner /\ Tracked /\ Behind /\ Ending

\* The lines that are worth an event, the events of a stream, and how many entries of a
\* sequence are in K.
Worth == {"text", "fatal"}
Heard(s) == IF s = "out" THEN {"out", "fatal"} ELSE {"err"}
Count(q, K) == Cardinality({i \in DOMAIN q : q[i] \in K})
Taken(s) == IF rd[s] \in Worth THEN 1 ELSE 0

\* Until the caller leaves, every line worth an event is heard, in the channel, with the
\* reader or in the pipe.
Balanced(s) ==
  call # "done" =>
    said[s] = heard[s] + Count(chan, Heard(s)) + Taken(s) + Count(pipe[s], Worth)

\* A line that is not UTF-8 is the last of its stream; only stdout has fatal lines.
Cut(s) == \A i \in DOMAIN pipe[s] : pipe[s][i] = "garbled" => i = Len(pipe[s]) /\ garbled[s]
Plain == rd["err"] # "fatal" /\ \A i \in DOMAIN pipe["err"] : pipe["err"][i] # "fatal"

\* A reader that ends of itself has read its pipe to the end.
Emptied ==
  pc \in {"waiting", "joining", "flushing"} \/ ended = "own" =>
    \A s \in Streams : rd[s] = "done" => pipe[s] = <<>>

\* The child's own code is told once, at the end, with everything it said.
OwnCode ==
  answer = "own" => /\ call = "done" /\ ended = "own"
                    /\ \A s \in Streams : heard[s] = said[s]

Output == (\A s \in Streams : Balanced(s) /\ Cut(s)) /\ Plain /\ Emptied /\ OwnCode

----------------------------------------------------------------------------
(* Typing.                                                                 *)

LEMMA InitType == Init => TypeOK
<1>1. Init => TypeOfTask
  BY BoundAssumption DEF Init, TypeOfTask, Codes
<1>2. Init => TypeOfProcesses
  BY CapAssumption, BoundAssumption DEF Init, TypeOfProcesses
<1>3. Init => TypeOfEvents
  BY CapAssumption DEF Init, TypeOfEvents, Codes
<1> QED
  BY <1>1, <1>2, <1>3 DEF TypeOK

\* The bounded send keeps the channel a channel.
LEMMA SendType ==
  ASSUME TypeOfEvents, NEW e \in Events, Send(e)
  PROVE  chan' \in Seq(Events) /\ Len(chan') <= ChanCap
<1>1. CASE call = "done"
  BY <1>1 DEF Send, TypeOfEvents
<1>2. CASE call # "done"
  BY <1>2, CapAssumption DEF Send, TypeOfEvents
<1> QED
  BY <1>1, <1>2

\* What a step of the session task leaves alone, and what it may change.
LEMMA TaskType == TypeOK /\ Task => TypeOK'
<1> SUFFICES ASSUME TypeOfTask, TypeOfProcesses, TypeOfEvents, Task PROVE TypeOK'
  BY DEF TypeOK
<1> USE DEF request, task, stdin, procs, lines, registry, asker, Goes
<1>1. TypeOfTask'
  <2> USE BoundAssumption DEF TypeOfTask, Codes
  <2>1. CASE Start \/ Announce \/ Spawn \/ SpawnFails
    BY <2>1 DEF Start, Announce, Spawn, SpawnFails
  <2>2. CASE WritePrompt \/ WriteFails \/ SpawnReaders \/ ChildExited
    BY <2>2 DEF WritePrompt, WriteFails, SpawnReaders, ChildExited
  <2>3. CASE Kill \/ JoinReaders
    BY <2>3 DEF Kill, JoinReaders
  <2>4. CASE ReportError \/ Finish \/ Unregister
    BY <2>4 DEF ReportError, Finish, Unregister
  <2> QED
    BY <2>1, <2>2, <2>3, <2>4 DEF Task
<1>2. TypeOfProcesses'
  <2> USE DEF TypeOfProcesses
  <2>1. CASE Start \/ Announce \/ Spawn \/ SpawnFails
    BY <2>1 DEF Start, Announce, Spawn, SpawnFails
  <2>2. CASE WritePrompt
    BY <2>2, CapAssumption DEF WritePrompt
  <2>3. CASE WriteFails \/ ChildExited \/ Kill
    BY <2>3 DEF WriteFails, ChildExited, Kill
  <2>5. CASE SpawnReaders
    <3>1. inpipe' \in 0..PipeCap /\ listening' = FALSE
      BY <2>5, CapAssumption DEF SpawnReaders
    <3> QED
      BY <2>5, <3>1 DEF SpawnReaders
  <2>4. CASE JoinReaders \/ ReportError \/ Finish \/ Unregister
    BY <2>4 DEF JoinReaders, ReportError, Finish, Unregister
  <2> QED
    BY <2>1, <2>2, <2>3, <2>4, <2>5 DEF Task
<1>3. TypeOfEvents'
  <2>1. CASE Announce \/ ReportError \/ Finish
    BY <2>1, SendType DEF TypeOfEvents, Announce, ReportError, Finish, Events
  <2>2. CASE Start \/ Spawn \/ WritePrompt \/ ChildExited \/ Kill
             \/ JoinReaders \/ Unregister
    BY <2>2 DEF TypeOfEvents, Start, Spawn, WritePrompt, ChildExited, Kill,
                JoinReaders, Unregister
  <2>3. CASE SpawnFails \/ WriteFails \/ SpawnReaders
    BY <2>3 DEF TypeOfEvents, SpawnFails, WriteFails, SpawnReaders, Drops
  <2> QED
    BY <2>1, <2>2, <2>3 DEF Task
<1> QED
  BY <1>1, <1>2, <1>3 DEF TypeOK

LEMMA ReaderType ==
  ASSUME TypeOK, NEW s \in Streams, Reader(s)
  PROVE  TypeOK'
<1> USE DEF TypeOK, request, task, stdin, procs, lines, registry, asker
<1>1. TypeOfTask'
  BY DEF TypeOfTask, Reader, Read, Forward, EndOfFile
<1>2. CASE Read(s)
  <2>1. /\ Head(pipe[s]) \in Lines /\ Tail(pipe[s]) \in Seq(Lines)
        /\ Len(Tail(pipe[s])) <= PipeCap
    BY <1>2, CapAssumption DEF Read, TypeOfProcesses
  <2>2. TypeOfEvents'
    BY <1>2, <2>1 DEF Read, Lines, TypeOfEvents
  <2>3. TypeOfProcesses'
    BY <1>2, <2>1 DEF Read, TypeOfProcesses
  <2> QED
    BY <1>1, <2>2, <2>3
<1>3. CASE Forward(s)
  <2>1. TypeOfProcesses'
    BY <1>3 DEF Forward, TypeOfProcesses
  <2>2. TypeOfEvents'
    BY <1>3, SendType DEF Forward, Events, Streams, TypeOfEvents
  <2> QED
    BY <1>1, <2>1, <2>2
<1>4. CASE EndOfFile(s)
  BY <1>1, <1>4 DEF EndOfFile, TypeOfProcesses, TypeOfEvents
<1> QED
  BY <1>2, <1>3, <1>4 DEF Reader

LEMMA OtherType ==
  ASSUME TypeOK, Processes \/ Caller \/ Terminate \/ UNCHANGED vars
  PROVE  TypeOK'
<1> USE DEF TypeOK, request, task, stdin, procs, lines, registry, asker
<1>1. TypeOfTask'
  <2> USE DEF TypeOfTask
  <2>1. CASE Processes
    <3>1. UNCHANGED <<request, task, registry>>
      BY <2>1 DEF Processes, ReadStdin, CloseStdin, Fork, Exit, KinExit, WriteLine
    <3> QED
      BY <3>1
  <2>2. CASE Caller
    BY <2>2 DEF Caller, Returned, Skip, HearError, StopAtError, StopAtFinished,
                Hear, Answer, Elsewhere
  <2>3. CASE Terminate \/ UNCHANGED vars
    BY <2>3 DEF Terminate, vars
  <2> QED
    BY <2>1, <2>2, <2>3
<1>2. TypeOfProcesses'
  <2> USE DEF TypeOfProcesses
  <2>1. CASE ReadStdin
    <3>1. inpipe' \in 0..PipeCap
      BY <2>1, CapAssumption DEF ReadStdin
    <3> QED
      BY <2>1, <3>1 DEF ReadStdin
  <2>5. CASE CloseStdin \/ Fork
    BY <2>5 DEF CloseStdin, Fork
  <2>2. CASE Exit \/ KinExit
    <3>1. listening' \in BOOLEAN
      BY <2>2, Zenon DEF Exit, KinExit
    <3> QED
      BY <2>2, <3>1 DEF Exit, KinExit
  <2>3. ASSUME NEW s \in Streams, NEW kind \in Kinds(s), WriteLine(s, kind)
        PROVE  TypeOfProcesses'
    BY <2>3, CapAssumption, BoundAssumption DEF WriteLine, Kinds, Lines
  <2>4. CASE Caller \/ Terminate \/ UNCHANGED vars
    BY <2>4 DEF Caller, Returned, Skip, HearError, StopAtError, StopAtFinished,
                Hear, Answer, Elsewhere, Terminate, vars
  <2> QED
    BY <2>1, <2>2, <2>3, <2>4, <2>5 DEF Processes
<1>3. TypeOfEvents'
  <2> USE DEF TypeOfEvents
  <2>1. CASE Processes \/ Terminate \/ UNCHANGED vars
    BY <2>1 DEF Processes, ReadStdin, CloseStdin, Fork, Exit, KinExit,
                WriteLine, Terminate, vars
  <2>2. CASE Returned
    BY <2>2 DEF Returned
  <2>3. CASE Skip \/ HearError
    <3>1. chan # <<>> /\ chan' = Tail(chan) /\ UNCHANGED <<rd, asker>>
      BY <2>3 DEF Skip, HearError, Elsewhere, Comes
    <3>2. chan' \in Seq(Events) /\ Len(chan') <= ChanCap
      BY <3>1, CapAssumption
    <3> QED
      BY <3>1, <3>2
  <2>4. CASE StopAtError \/ StopAtFinished
    <3>1. answer' \in Codes /\ call' = "done"
      BY <2>4 DEF StopAtError, StopAtFinished, Answer, Codes, TypeOfTask
    <3>2. chan' = <<>> /\ UNCHANGED <<rd, heard>>
      BY <2>4 DEF StopAtError, StopAtFinished, Answer, Elsewhere
    <3> QED
      BY <3>1, <3>2, CapAssumption
  <2>5. ASSUME NEW s \in Streams, Hear(s) PROVE TypeOfEvents'
    <3>1. chan' \in Seq(Events) /\ Len(chan') <= ChanCap
      BY <2>5, CapAssumption DEF Hear, Comes
    <3>2. heard' \in [Streams -> Nat] /\ UNCHANGED <<rd, call, answer>>
      BY <2>5 DEF Hear, Elsewhere
    <3> QED
      BY <3>1, <3>2
  <2> QED
    BY <2>1, <2>2, <2>3, <2>4, <2>5 DEF Caller
<1> QED
  BY <1>1, <1>2, <1>3

LEMMA TypeStep == TypeOK /\ [Next]_vars => TypeOK'
  BY TaskType, ReaderType, OtherType DEF Next

\* The session's variables keep their types, whatever the capacities.
THEOREM TypeCorrect == Spec => []TypeOK
  BY InitType, TypeStep, PTL DEF Spec

----------------------------------------------------------------------------
(* The inductive invariant.                                                *)

Facts == Owner /\ Tracked /\ Behind /\ Ending

LEMMA InitFacts == Init => Facts
  BY DEF Init, Facts, Owner, Tracked, Behind, Ending, Early, Last, FinishedIsLast

\* Steps of the readers, the processes and the caller: the task, the owner of
\* the child and the registry stay, but for a cancellation and an exit.
Other == Processes \/ Caller \/ Terminate \/ UNCHANGED vars
           \/ \E s \in Streams : Reader(s)

LEMMA OthersLeave ==
  ASSUME Other
  PROVE  /\ UNCHANGED <<request, task>>
         /\ \/ UNCHANGED child
            \/ /\ child = "alive"
               /\ child' = IF pc \in {"announcing", "writing", "waiting"}
                            THEN "zombie" ELSE "reaped"
         /\ registered \/ cancelled => registered' \/ cancelled'
<1> USE DEF request, task, stdin, procs, lines, registry, asker
<1>1. CASE Processes
  <2>1. CASE Exit
    BY <2>1 DEF Exit
  <2>2. CASE ReadStdin \/ CloseStdin \/ Fork \/ KinExit
    BY <2>2 DEF ReadStdin, CloseStdin, Fork, KinExit
  <2>3. CASE \E s \in Streams : \E kind \in Kinds(s) : WriteLine(s, kind)
    BY <2>3 DEF WriteLine
  <2> QED
    BY <1>1, <2>1, <2>2, <2>3 DEF Processes
<1>2. CASE Caller
  BY <1>2 DEF Caller, Returned, Skip, HearError, StopAtError, StopAtFinished,
              Hear, Answer, Elsewhere
<1>3. CASE Terminate \/ UNCHANGED vars
  BY <1>3 DEF Terminate, vars
<1>4. CASE \E s \in Streams : Reader(s)
  BY <1>4 DEF Reader, Read, Forward, EndOfFile
<1> QED
  BY <1>1, <1>2, <1>3, <1>4 DEF Other

LEMMA OthersOwner ==
  ASSUME Owner, Tracked, Other PROVE Owner' /\ Tracked'
  BY OthersLeave DEF Owner, Tracked, Last, request, task

\* Steps of the task: every way out of the select and of the prompt hands the
\* child over as Owner says.
LEMMA TaskOwner ==
  ASSUME TypeOK, Owner, Tracked, Task
  PROVE  Owner' /\ Tracked'
<1> USE DEF Owner, Tracked, Last, Goes, request, procs, registry
<1>1. CASE Start
  BY <1>1 DEF Start
<1>2. CASE Announce \/ Spawn \/ SpawnFails
  BY <1>2 DEF Announce, Spawn, SpawnFails, TypeOK, TypeOfProcesses
<1>3. CASE WritePrompt \/ WriteFails
  BY <1>3, BoundAssumption
  DEF WritePrompt, WriteFails, TypeOK, TypeOfTask
<1>4. CASE SpawnReaders \/ ChildExited \/ Kill
  BY <1>4 DEF SpawnReaders, ChildExited, Kill
<1>5. CASE JoinReaders \/ ReportError \/ Finish
  BY <1>5 DEF JoinReaders, ReportError, Finish
<1>6. CASE Unregister
  BY <1>6 DEF Unregister
<1> QED
  BY <1>1, <1>2, <1>3, <1>4, <1>5, <1>6 DEF Task

----------------------------------------------------------------------------
(* The readers and the channel.                                            *)

\* A reader that has ended stays so: Joined is for good.
LEMMA JoinedStays ==
  ASSUME Behind, Joined, [Next]_vars PROVE Joined'
<1> USE DEF Joined
<1>1. CASE Task
  <2>1. pc # "writing"
    BY DEF Behind, Early, Streams
  <2> QED
    BY <1>1, <2>1
    DEF Task, Start, Announce, Spawn, SpawnFails, WritePrompt, WriteFails,
        SpawnReaders, ChildExited, Kill, JoinReaders, ReportError, Finish,
        Unregister, Drops, Goes
<1>2. CASE \E s \in Streams : Reader(s)
  BY <1>2 DEF Reader, Read, Forward, EndOfFile
<1>3. CASE Processes \/ Caller \/ Terminate \/ UNCHANGED vars
  BY <1>3 DEF Processes, ReadStdin, CloseStdin, Fork, Exit, KinExit, WriteLine,
         Caller, Returned, Skip, HearError, StopAtError, StopAtFinished, Hear,
         Answer, Elsewhere, Terminate, vars
<1> QED
  BY <1>1, <1>2, <1>3 DEF Next

LEMMA OthersBehind ==
  ASSUME Behind, Other PROVE Behind'
<1>1. UNCHANGED <<request, task>>
  BY OthersLeave
<1>2. Joined => Joined'
  BY JoinedStays DEF Other, Next
<1>3. (\A s \in Streams : rd[s] = "none") => \A s \in Streams : rd'[s] = "none"
  <2>1. CASE Processes \/ Terminate \/ UNCHANGED vars
    BY <2>1 DEF Processes, ReadStdin, CloseStdin, Fork, Exit, KinExit, WriteLine,
           Terminate, vars
  <2>2. CASE Caller
    BY <2>2 DEF Caller, Returned, Skip, HearError, StopAtError, StopAtFinished,
                Hear, Answer, Elsewhere
  <2>3. CASE \E s \in Streams : Reader(s)
    BY <2>3 DEF Reader, Read, Forward, EndOfFile
  <2> QED
    BY <2>1, <2>2, <2>3 DEF Other
<1> QED
  BY <1>1, <1>2, <1>3 DEF Behind, Early, Last, request, task

LEMMA TaskBehind ==
  ASSUME TypeOK, Behind, Task PROVE Behind'
<1>1. Joined => Joined'
  BY JoinedStays DEF Next
<1> USE DEF Behind, Early, Last, Goes, request
<1>2. CASE Start \/ Announce \/ Spawn \/ WritePrompt
  BY <1>1, <1>2 DEF Start, Announce, Spawn, WritePrompt
<1>3. CASE SpawnFails \/ WriteFails
  BY <1>3 DEF SpawnFails, WriteFails, Drops, Joined, TypeOK, TypeOfEvents
<1>4. CASE SpawnReaders \/ ChildExited \/ Kill
  BY <1>1, <1>4 DEF SpawnReaders, ChildExited, Kill
<1>5. CASE JoinReaders
  BY <1>1, <1>5 DEF JoinReaders
<1>7. CASE ReportError
  BY <1>1, <1>7 DEF ReportError
<1>6. CASE Finish \/ Unregister
  BY <1>1, <1>6 DEF Finish, Unregister
<1> QED
  BY <1>2, <1>3, <1>4, <1>5, <1>6, <1>7 DEF Task

\* No event sent is Finished, but for the one that Finish sends.
Open == \A i \in DOMAIN chan : chan[i] # "finished"

LEMMA SendOpen ==
  ASSUME TypeOK, Open, NEW e \in Events, Send(e)
  PROVE  /\ e # "finished" => Open'
         /\ \A i \in DOMAIN chan' : chan'[i] = "finished" => i = Len(chan')
<1>1. chan \in Seq(Events)
  BY DEF TypeOK, TypeOfEvents
<1>2. CASE call = "done"
  BY <1>2 DEF Open, Send
<1>3. CASE call # "done"
  BY <1>1, <1>3 DEF Open, Send
<1> QED
  BY <1>2, <1>3

\* Receiving takes the front, or drops all of the channel.
LEMMA CallerEnding ==
  ASSUME TypeOK, Behind, Ending, Caller PROVE Ending'
<1>1. UNCHANGED <<request, task>> /\ (Joined => Joined')
  BY OthersLeave, JoinedStays DEF Other, Next
<1>2. \/ UNCHANGED chan \/ chan' = <<>>
      \/ chan # <<>> /\ chan' = Tail(chan)
  BY DEF Caller, Returned, Skip, HearError, StopAtError, StopAtFinished, Hear,
         Answer, Elsewhere, Comes
<1>3. chan \in Seq(Events)
  BY DEF TypeOK, TypeOfEvents
<1> USE DEF Ending, FinishedIsLast, request, task
<1>4. CASE UNCHANGED chan
  BY <1>1, <1>4
<1>5. CASE chan' = <<>>
  BY <1>1, <1>5
<1>6. CASE chan # <<>> /\ chan' = Tail(chan)
  <2>1. /\ DOMAIN chan' = 1..Len(chan') /\ Len(chan') = Len(chan) - 1
        /\ \A i \in DOMAIN chan' : /\ i + 1 \in DOMAIN chan
                                   /\ chan'[i] = chan[i + 1]
    BY <1>3, <1>6
  <2>2. \A i \in DOMAIN chan' : i \in Nat
    BY <2>1
  <2> QED
    BY <1>1, <1>3, <2>1, <2>2
<1> QED
  BY <1>2, <1>4, <1>5, <1>6

\* A reader still forwards only in front of Finished, or behind a failure that
\* did not join it.
LEMMA ReaderEnding ==
  ASSUME TypeOK, Behind, Ending, NEW s \in Streams, Reader(s) PROVE Ending'
<1>1. UNCHANGED <<request, task>> /\ (Joined => Joined')
  BY OthersLeave, JoinedStays DEF Other, Next
<1>2. CASE UNCHANGED chan
  BY <1>1, <1>2 DEF Ending, FinishedIsLast, request, task
<1>3. CASE Forward(s)
  <2>1. ~Joined
    BY <1>3 DEF Forward, Joined
  <2>2. PICK e \in Events \ {"finished"} : Send(e)
    BY <1>3 DEF Forward, Events, Streams
  <2>3. \A i \in DOMAIN chan' :
          chan'[i] = "finished" => i \in DOMAIN chan /\ chan[i] = "finished"
    <3>1. chan \in Seq(Events)
      BY DEF TypeOK, TypeOfEvents
    <3>2. chan' = chan \/ chan' = Append(chan, e)
      BY <2>2 DEF Send
    <3> QED
      BY <2>2, <3>1, <3>2
  <2> QED
    BY <1>1, <2>1, <2>3 DEF Ending, FinishedIsLast, request, task
<1> QED
  BY <1>2, <1>3 DEF Reader, Read, EndOfFile

LEMMA TaskEnding ==
  ASSUME TypeOK, Behind, Ending, Task PROVE Ending'
<1>1. Joined => Joined'
  BY JoinedStays DEF Next
<1>2. chan \in Seq(Events)
  BY DEF TypeOK, TypeOfEvents
<1> USE DEF Goes, request, Last
<1>3. CASE Announce \/ ReportError
  <2>1. Open /\ pc' \notin {"leaving", "done"}
    BY <1>3 DEF Announce, ReportError, Ending, Open
  <2>2. PICK e \in Events \ {"finished"} : Send(e)
    BY <1>3 DEF Announce, ReportError, Events
  <2>3. Open'
    BY <2>1, <2>2, SendOpen
  <2> QED
    BY <2>3 DEF Open, Ending, FinishedIsLast
<1>4. CASE Finish
  <2>1. Open
    BY <1>4 DEF Finish, Ending, Open
  <2>2. \A i \in DOMAIN chan' : chan'[i] = "finished" => i = Len(chan')
    BY <1>4, <2>1, SendOpen DEF Finish, Events
  <2>3. backend' = "gemini" \/ ended' = "own" => Joined'
    BY <1>1, <1>4 DEF Finish, Behind
  <2> QED
    BY <1>4, <2>2, <2>3 DEF Finish, Ending, FinishedIsLast
<1>5. CASE JoinReaders
  <2>1. Open /\ chan' = chan
    BY <1>5 DEF JoinReaders, Ending, Open
  <2> QED
    BY <2>1 DEF Open, Ending, FinishedIsLast
<1>6. CASE \/ Start \/ Spawn \/ SpawnFails \/ WritePrompt \/ WriteFails
           \/ SpawnReaders \/ ChildExited \/ Kill \/ Unregister
  <2>1. /\ UNCHANGED <<request, ended, chan>>
        /\ pc' = "done" \/ pc \notin {"leaving", "done"}
    BY <1>6 DEF Start, Spawn, SpawnFails, WritePrompt, WriteFails, SpawnReaders,
                ChildExited, Kill, Unregister
  <2> QED
    BY <1>1, <2>1 DEF Ending, FinishedIsLast
<1> QED
  BY <1>3, <1>4, <1>5, <1>6 DEF Task

LEMMA OthersEnding ==
  ASSUME TypeOK, Behind, Ending, Other PROVE Ending'
<1>1. CASE Processes \/ Terminate \/ UNCHANGED vars
  <2>1. UNCHANGED <<request, task, chan, rd>>
    BY <1>1 DEF Processes, ReadStdin, CloseStdin, Fork, Exit, KinExit, WriteLine,
           Terminate, vars
  <2> QED
    BY <2>1 DEF Ending, FinishedIsLast, Joined, request, task
<1> QED
  BY <1>1, CallerEnding, ReaderEnding DEF Other

----------------------------------------------------------------------------
LEMMA IInvStep == IInv /\ [Next]_vars => IInv'
<1> SUFFICES ASSUME TypeOK, Facts, [Next]_vars PROVE Facts'
  BY TypeStep DEF IInv, Facts
<1>1. CASE Task
  BY <1>1, TaskOwner, TaskBehind, TaskEnding DEF Facts
<1>2. CASE Other
  BY <1>2, OthersOwner, OthersBehind, OthersEnding DEF Facts
<1> QED
  BY <1>1, <1>2 DEF Next, Other

LEMMA Invariance == Spec => []IInv
<1>1. Init => IInv
  BY InitType, InitFacts DEF IInv, Facts
<1> QED
  BY <1>1, IInvStep, PTL DEF Spec

\* Nothing follows Finished in the channel once the readers have been joined.
THEOREM EndsLast == Spec => []FinishedIsLast
  BY Invariance, PTL DEF IInv, Ending

\* No session reports its end with its child running, if the child took its
\* prompt.
THEOREM Reaped == Spec => []NoOrphan
<1>1. IInv => NoOrphan
  BY DEF IInv, Owner, NoOrphan, Last
<1> QED
  BY <1>1, Invariance, PTL

\* A running child can be terminated by the session's id until that is done.
THEOREM AlwaysTerminable == Spec => []Terminable
<1>1. IInv => Terminable
  <2> SUFFICES ASSUME IInv, child = "alive", backend # "subprocess", ~registered
               PROVE  cancelled \/ (pc = "done" /\ unsent > 0)
    BY DEF Terminable
  <2>1. CASE pc = "done"
    <3>1. unsent # 0 /\ unsent \in 0..MaxPrompt
      BY <2>1 DEF IInv, Owner, Last, TypeOK, TypeOfTask
    <3> QED
      BY <2>1, <3>1, BoundAssumption
  <2>2. CASE pc # "done"
    BY <2>2 DEF IInv, Owner, Tracked
  <2> QED
    BY <2>1, <2>2
<1> QED
  BY <1>1, Invariance, PTL

----------------------------------------------------------------------------
(* Counting the entries of a sequence.                                     *)

LEMMA CountType ==
  ASSUME NEW S, NEW q \in Seq(S), NEW K
  PROVE  /\ IsFiniteSet({i \in DOMAIN q : q[i] \in K}) /\ Count(q, K) \in Nat
         /\ (\A i \in DOMAIN q : q[i] \notin K) => Count(q, K) = 0
<1> DEFINE P == {i \in DOMAIN q : q[i] \in K}
<1>1. Len(q) \in Nat /\ DOMAIN q = 1..Len(q)
  BY LenProperties
<1>2. IsFiniteSet(DOMAIN q)
  BY <1>1, FS_Interval
<1>3. P \in SUBSET DOMAIN q
  OBVIOUS
<1>4. IsFiniteSet(P)
  BY <1>2, <1>3, FS_Subset
<1>5. Cardinality(P) \in Nat
  BY <1>4, FS_CardinalityType
<1>6. (\A i \in DOMAIN q : q[i] \notin K) => Cardinality(P) = 0
  BY FS_EmptySet
<1> QED
  BY <1>4, <1>5, <1>6 DEF Count

LEMMA CountAppend ==
  ASSUME NEW S, NEW q \in Seq(S), NEW e \in S, NEW K, NEW p, p = Append(q, e)
  PROVE  Count(p, K) = IF e \in K THEN Count(q, K) + 1 ELSE Count(q, K)
<1> DEFINE P == {i \in DOMAIN q : q[i] \in K}
           R == {i \in DOMAIN p : p[i] \in K}
           l == Len(q) + 1
<1>1. /\ Len(q) \in Nat /\ DOMAIN q = 1..Len(q)
      /\ p \in Seq(S) /\ Len(p) = Len(q) + 1
      /\ \A i \in 1..Len(q) : p[i] = q[i]
      /\ p[l] = e
  BY LenProperties, AppendProperties
<1>2. DOMAIN p = 1..l
  BY <1>1, LenProperties
<1>3. l \notin P /\ IsFiniteSet(P)
  <2>1. l \notin 1..Len(q)
    BY <1>1
  <2>2. l \notin P
    BY <1>1, <2>1
  <2> QED
    BY <2>2, CountType
<1>4. CASE e \in K
  <2>1. R = P \union {l}
    BY <1>1, <1>2, <1>4
  <2>2. Cardinality(P \union {l}) = Cardinality(P) + 1
    BY <1>3, FS_AddElement
  <2> QED
    BY <1>4, <2>1, <2>2 DEF Count
<1>5. CASE e \notin K
  <2>1. R = P
    BY <1>1, <1>2, <1>5
  <2> QED
    BY <1>5, <2>1 DEF Count
<1> QED
  BY <1>4, <1>5

LEMMA CountTail ==
  ASSUME NEW S, NEW q \in Seq(S), q # <<>>, NEW K
  PROVE  Count(q, K) = IF Head(q) \in K THEN Count(Tail(q), K) + 1 ELSE Count(Tail(q), K)
<1> DEFINE p == Tail(q)
           P == {i \in DOMAIN q : q[i] \in K}
           R == {i \in DOMAIN p : p[i] \in K}
           f == [i \in R |-> i + 1]
<1>1. /\ Len(q) \in Nat \ {0} /\ DOMAIN q = 1..Len(q) /\ Head(q) = q[1]
      /\ p \in Seq(S) /\ Len(p) = Len(q) - 1
      /\ \A i \in 1..Len(p) : p[i] = q[i + 1]
  BY EmptySeq, LenProperties, HeadTailProperties
<1>2. DOMAIN p = 1..Len(p)
  BY <1>1, LenProperties
<1> HIDE DEF p
<1>3. IsFiniteSet(R) /\ IsFiniteSet(P)
  BY <1>1, CountType
<1>4. f \in Bijection(R, P \ {1})
  <2>1. ASSUME NEW i \in R PROVE i + 1 \in P \ {1} /\ i \in Nat
    BY <1>1, <1>2
  <2>2. ASSUME NEW j \in P \ {1} PROVE j - 1 \in R /\ (j - 1) + 1 = j
    <3>1. j \in 1..Len(q) /\ j # 1 /\ q[j] \in K
      BY <1>1
    <3>2. j - 1 \in 1..Len(p) /\ (j - 1) + 1 = j
      BY <1>1, <3>1
    <3>3. p[j - 1] = q[j]
      BY <1>1, <3>2
    <3> QED
      BY <1>2, <3>1, <3>2, <3>3
  <2>3. f \in [R -> P \ {1}]
    BY <2>1
  <2>4. \A i, j \in R : f[i] = f[j] => i = j
    BY <2>1
  <2>5. \A j \in P \ {1} : \E i \in R : f[i] = j
    BY <2>2
  <2> QED
    BY <2>3, <2>4, <2>5, Fun_IsBij
<1>5. Cardinality(R) = Cardinality(P \ {1})
  BY <1>3, <1>4, FS_Bijection DEF ExistsBijection
<1>6. Cardinality(P \ {1}) = IF 1 \in P THEN Cardinality(P) - 1 ELSE Cardinality(P)
  BY <1>3, FS_RemoveElement
<1>7. 1 \in P <=> Head(q) \in K
  BY <1>1
<1>8. Cardinality(P) \in Nat /\ Cardinality(R) \in Nat
  BY <1>3, FS_CardinalityType
<1>9. Cardinality(P) = IF Head(q) \in K THEN Cardinality(R) + 1 ELSE Cardinality(R)
  <2> DEFINE a == Cardinality(P)
             b == Cardinality(R)
  <2>1. a \in Nat /\ b \in Nat /\ b = IF Head(q) \in K THEN a - 1 ELSE a
    BY <1>5, <1>6, <1>7, <1>8
  <2> HIDE DEF a, b
  <2>2. a = IF Head(q) \in K THEN b + 1 ELSE b
    BY <2>1
  <2> QED
    BY <2>2 DEF a, b
<1> QED
  BY <1>9 DEF Count, p
----------------------------------------------------------------------------
(* The whole output: what was said is in the pipe, with the reader, in the *)
(* channel or heard.                                                       *)

LEMMA OutputTypes ==
  ASSUME TypeOK, NEW s \in Streams
  PROVE  /\ chan \in Seq(Events) /\ pipe[s] \in Seq(Lines) /\ heard[s] \in Nat
         /\ said[s] \in Nat /\ Taken(s) \in Nat
         /\ Count(chan, Heard(s)) \in Nat /\ Count(pipe[s], Worth) \in Nat
<1>1. /\ chan \in Seq(Events) /\ pipe[s] \in Seq(Lines) /\ heard[s] \in Nat
      /\ said[s] \in Nat /\ Taken(s) \in Nat
  BY BoundAssumption DEF TypeOK, TypeOfProcesses, TypeOfEvents, Taken
<1> QED
  BY <1>1, CountType

LEMMA InitOutput == Init => Output
<1> SUFFICES ASSUME Init PROVE Output
  OBVIOUS
<1>1. /\ chan = <<>> /\ \A s \in Streams : pipe[s] = <<>> /\ heard[s] = 0 /\ said[s] = 0
      /\ \A s \in Streams : rd[s] = "none"
  BY DEF Init
<1>2. /\ <<>> \in Seq(Events) /\ <<>> \in Seq(Lines) /\ DOMAIN <<>> = {}
  BY EmptySeq, LenProperties
<1>3. \A K : Count(<<>>, K) = 0
  BY <1>2, CountType
<1>4. \A s \in Streams : Balanced(s) /\ Cut(s)
  BY <1>1, <1>2, <1>3 DEF Balanced, Cut, Taken, Worth
<1>5. Plain
  BY <1>1, <1>2 DEF Plain, Streams
<1>6. Emptied /\ OwnCode
  BY <1>1 DEF Init, Emptied, OwnCode, Streams
<1> QED
  BY <1>4, <1>5, <1>6 DEF Output

LEMMA SendCounts ==
  ASSUME TypeOK, call # "done", NEW e \in Events, Send(e), NEW K
  PROVE  Count(chan', K) = IF e \in K THEN Count(chan, K) + 1 ELSE Count(chan, K)
<1>1. chan \in Seq(Events) /\ chan' = Append(chan, e)
  BY DEF TypeOK, TypeOfEvents, Send
<1> QED
  BY <1>1, CountAppend

LEMMA LineCounts ==
  ASSUME NEW q \in Seq(Lines), NEW kind \in Lines, NEW p, p = Append(q, kind)
  PROVE  Count(p, Worth) = IF kind \in Worth THEN Count(q, Worth) + 1 ELSE Count(q, Worth)
BY CountAppend

LEMMA TaskBalanced ==
  ASSUME TypeOK, Behind, NEW s \in Streams, Balanced(s), Task
  PROVE  Balanced(s)'
<1> USE DEF request, task, stdin, procs, lines, registry, asker, Goes
<1> SUFFICES ASSUME call' # "done"
             PROVE  said'[s] = heard'[s] + Count(chan', Heard(s)) + Taken(s)'
                                 + Count(pipe'[s], Worth)
  BY DEF Balanced
<1>1. pipe' = pipe /\ said' = said /\ heard' = heard /\ call' = call
  BY DEF Task, Start, Announce, Spawn, SpawnFails, WritePrompt, WriteFails, SpawnReaders,
         ChildExited, Kill, JoinReaders, ReportError, Finish, Unregister
<1>2. Taken(s)' = Taken(s)
  <2>1. CASE SpawnReaders
    BY <2>1 DEF SpawnReaders, Behind, Early, Taken, Worth
  <2>2. CASE SpawnFails \/ WriteFails
    BY <2>2 DEF SpawnFails, WriteFails, Drops, Taken, Worth
  <2>3. CASE ~SpawnReaders /\ ~SpawnFails /\ ~WriteFails
    BY <2>3 DEF Task, Start, Announce, Spawn, WritePrompt, ChildExited, Kill, JoinReaders,
                ReportError, Finish, Unregister, Taken
  <2> QED
    BY <2>1, <2>2, <2>3
<1>3. Count(chan', Heard(s)) = Count(chan, Heard(s))
  <2>1. chan' = chan \/ \E e \in {"started", "error", "finished"} : Send(e)
    BY DEF Task, Start, Announce, Spawn, SpawnFails, WritePrompt, WriteFails, SpawnReaders,
           ChildExited, Kill, JoinReaders, ReportError, Finish, Unregister
  <2>2. ASSUME NEW e \in {"started", "error", "finished"}, Send(e)
        PROVE  Count(chan', Heard(s)) = Count(chan, Heard(s))
    <3>1. e \in Events /\ e \notin Heard(s) /\ call # "done"
      BY <1>1 DEF Events, Heard
    <3> QED
      BY <2>2, <3>1, SendCounts
  <2> QED
    BY <2>1, <2>2
<1> QED
  BY <1>1, <1>2, <1>3 DEF Balanced

LEMMA ReaderBalanced ==
  ASSUME TypeOK, Plain, NEW s \in Streams, Balanced(s), NEW x \in Streams, Reader(x)
  PROVE  Balanced(s)'
<1> USE DEF request, task, stdin, procs, lines, registry, asker
<1> SUFFICES ASSUME call # "done"
             PROVE  said'[s] = heard'[s] + Count(chan', Heard(s)) + Taken(s)'
                                 + Count(pipe'[s], Worth)
  BY DEF Balanced, Reader, Read, Forward, EndOfFile
<1>0. /\ said[s] = heard[s] + Count(chan, Heard(s)) + Taken(s) + Count(pipe[s], Worth)
      /\ said' = said /\ heard' = heard
      /\ heard[s] \in Nat /\ Count(chan, Heard(s)) \in Nat /\ Count(pipe[s], Worth) \in Nat
      /\ DOMAIN rd = Streams /\ DOMAIN pipe = Streams
  BY OutputTypes DEF Balanced, Reader, Read, Forward, EndOfFile, TypeOK, TypeOfEvents,
                     TypeOfProcesses
<1>1. CASE Read(x) /\ x = s
  <2> DEFINE h == Head(pipe[s])
  <2>1. /\ pipe[s] \in Seq(Lines) /\ pipe[s] # <<>> /\ pipe'[s] = Tail(pipe[s])
        /\ chan' = chan /\ rd[s] = "reading"
        /\ rd'[s] = CASE h = "garbled" -> "done" [] h = "silent" -> "reading" [] OTHER -> h
    BY <1>0, <1>1, OutputTypes DEF Read
  <2>2. h \in Lines
    BY <2>1, HeadTailProperties
  <2>3. /\ Count(pipe[s], Worth) = IF h \in Worth THEN Count(pipe'[s], Worth) + 1
                                                  ELSE Count(pipe'[s], Worth)
        /\ Count(pipe'[s], Worth) \in Nat
    <3>1. Tail(pipe[s]) \in Seq(Lines)
      BY <2>1, HeadTailProperties
    <3>2. Count(Tail(pipe[s]), Worth) \in Nat
      BY <3>1, CountType
    <3> QED
      BY <2>1, <3>2, CountTail
  <2>4. Taken(s) = 0 /\ Taken(s)' = IF h \in Worth THEN 1 ELSE 0
    BY <2>1, <2>2 DEF Taken, Worth, Lines
  <2> HIDE DEF h
  <2> QED
    BY <1>0, <2>1, <2>3, <2>4
<1>2. CASE Forward(x) /\ x = s
  <2> DEFINE e == IF rd[s] = "fatal" THEN "fatal" ELSE s
  <2>1. rd[s] \in Worth /\ Send(e) /\ rd'[s] = "reading" /\ pipe' = pipe
    BY <1>0, <1>2 DEF Forward, Worth
  <2>2. e \in Events /\ e \in Heard(s)
    BY DEF Plain, Events, Heard, Streams
  <2> HIDE DEF e
  <2>3. Count(chan', Heard(s)) = Count(chan, Heard(s)) + 1
    BY <2>1, <2>2, SendCounts
  <2>4. Taken(s) = 1 /\ Taken(s)' = 0
    BY <2>1 DEF Taken, Worth
  <2> QED
    BY <1>0, <2>1, <2>3, <2>4
<1>3. CASE EndOfFile(x) /\ x = s
  <2>1. Taken(s)' = Taken(s) /\ pipe' = pipe /\ chan' = chan
    BY <1>0, <1>3 DEF EndOfFile, Taken, Worth
  <2> QED
    BY <1>0, <2>1
<1>4. CASE x # s
  <2>1. Taken(s)' = Taken(s) /\ pipe'[s] = pipe[s]
    BY <1>0, <1>4 DEF Reader, Read, Forward, EndOfFile, Taken
  <2>2. Count(chan', Heard(s)) = Count(chan, Heard(s))
    <3>1. CASE Forward(x)
      <4> DEFINE e == IF rd[x] = "fatal" THEN "fatal" ELSE x
      <4>1. Send(e)
        BY <3>1 DEF Forward
      <4>2. e \in Events /\ e \notin Heard(s)
        BY <1>4 DEF Plain, Events, Heard, Streams
      <4> HIDE DEF e
      <4> QED
        BY <4>1, <4>2, SendCounts
    <3>2. CASE Read(x) \/ EndOfFile(x)
      BY <3>2 DEF Read, EndOfFile
    <3> QED
      BY <3>1, <3>2 DEF Reader
  <2> QED
    BY <1>0, <2>1, <2>2
<1> QED
  BY <1>1, <1>2, <1>3, <1>4 DEF Reader

LEMMA ProcessesBalanced ==
  ASSUME TypeOK, NEW s \in Streams, Balanced(s), Processes \/ Terminate \/ UNCHANGED vars
  PROVE  Balanced(s)'
<1> USE DEF request, task, stdin, procs, lines, registry, asker
<1>1. CASE UNCHANGED <<call, heard, chan, rd, pipe, said>>
  BY <1>1 DEF Balanced, Taken
<1>2. CASE ReadStdin \/ CloseStdin \/ Fork \/ Exit \/ KinExit \/ Terminate \/ UNCHANGED vars
  BY <1>1, <1>2 DEF ReadStdin, CloseStdin, Fork, Exit, KinExit, Terminate, vars
<1>3. ASSUME NEW x \in Streams, NEW kind \in Kinds(x), WriteLine(x, kind)
      PROVE  Balanced(s)'
  <2>0. DOMAIN pipe = Streams /\ DOMAIN said = Streams
    BY DEF TypeOK, TypeOfProcesses
  <2>1. UNCHANGED <<call, heard, chan>> /\ Taken(s)' = Taken(s)
    BY <1>3 DEF WriteLine, Taken
  <2>2. CASE x # s
    <3>1. pipe'[s] = pipe[s] /\ said'[s] = said[s]
      BY <1>3, <2>0, <2>2 DEF WriteLine
    <3> QED
      BY <2>1, <3>1 DEF Balanced
  <2>3. CASE x = s
    <3>1. /\ pipe'[s] = Append(pipe[s], kind) /\ kind \in Lines
          /\ said'[s] = IF kind \in Worth THEN said[s] + 1 ELSE said[s]
      BY <1>3, <2>0, <2>3 DEF WriteLine, Kinds, Lines, Worth
    <3>2. /\ pipe[s] \in Seq(Lines) /\ heard[s] \in Nat /\ Taken(s) \in Nat
          /\ Count(chan, Heard(s)) \in Nat /\ Count(pipe[s], Worth) \in Nat
      BY OutputTypes
    <3>3. Count(pipe'[s], Worth) = IF kind \in Worth THEN Count(pipe[s], Worth) + 1
                                                     ELSE Count(pipe[s], Worth)
      <4> DEFINE q == pipe[s]
                 p == pipe'[s]
      <4>1. q \in Seq(Lines) /\ kind \in Lines /\ p = Append(q, kind)
        BY <3>1, <3>2
      <4> HIDE DEF q, p
      <4>2. Count(p, Worth) = IF kind \in Worth THEN Count(q, Worth) + 1 ELSE Count(q, Worth)
        BY <4>1, LineCounts
      <4> QED
        BY <4>2 DEF q, p
    <3> QED
      BY <2>1, <3>1, <3>2, <3>3 DEF Balanced
  <2> QED
    BY <2>2, <2>3
<1> QED
  BY <1>2, <1>3 DEF Processes

LEMMA CallerBalanced ==
  ASSUME TypeOK, NEW s \in Streams, Balanced(s), Caller
  PROVE  Balanced(s)'
<1> USE DEF request, task, stdin, procs, lines, registry, asker, Elsewhere
<1>0. rd' = rd /\ pipe' = pipe /\ said' = said /\ Taken(s)' = Taken(s)
  BY DEF Caller, Returned, Skip, HearError, StopAtError, StopAtFinished, Hear, Answer, Taken
<1>1. CASE Returned
  BY <1>0, <1>1 DEF Returned, Balanced
<1>2. CASE StopAtError \/ StopAtFinished
  BY <1>2 DEF StopAtError, StopAtFinished, Answer, Balanced
<1>3. chan \in Seq(Events) /\ Count(pipe[s], Worth) \in Nat /\ heard[s] \in Nat /\ Taken(s) \in Nat
      /\ DOMAIN heard = Streams
  BY OutputTypes DEF TypeOK, TypeOfEvents
<1>4. ASSUME NEW e, Comes(e), chan' = Tail(chan)
      PROVE  /\ Count(chan, Heard(s)) = IF e \in Heard(s) THEN Count(chan', Heard(s)) + 1
                                                          ELSE Count(chan', Heard(s))
             /\ Count(chan', Heard(s)) \in Nat /\ call # "done"
  <2>1. chan # <<>> /\ Head(chan) = e /\ call # "done"
    BY <1>4 DEF Comes
  <2>2. Tail(chan) \in Seq(Events)
    BY <1>3, <2>1, HeadTailProperties
  <2>3. Count(Tail(chan), Heard(s)) \in Nat
    BY <2>2, CountType
  <2> QED
    BY <1>3, <1>4, <2>1, <2>3, CountTail
<1>5. CASE Skip \/ HearError
  <2>1. PICK e \in {"started", "error"} : Comes(e) /\ chan' = Tail(chan)
    BY <1>5 DEF Skip, HearError
  <2>2. e \notin Heard(s)
    BY DEF Heard
  <2>3. UNCHANGED <<call, heard>>
    BY <1>5 DEF Skip, HearError
  <2> QED
    BY <1>0, <1>4, <2>1, <2>2, <2>3 DEF Balanced
<1>6. ASSUME NEW x \in Streams, Hear(x) PROVE Balanced(s)'
  <2>1. PICK e : Comes(e) /\ chan' = Tail(chan) /\ (e = x \/ (e = "fatal" /\ x = "out"))
    BY <1>6 DEF Hear
  <2>2. e \in Heard(s) <=> x = s
    BY <2>1 DEF Heard, Streams
  <2>3. heard'[s] = (IF x = s THEN heard[s] + 1 ELSE heard[s]) /\ call' = call
    BY <1>3, <1>6 DEF Hear
  <2>4. /\ Count(chan, Heard(s)) = IF x = s THEN Count(chan', Heard(s)) + 1
                                            ELSE Count(chan', Heard(s))
        /\ Count(chan', Heard(s)) \in Nat /\ call # "done"
    BY <1>4, <2>1, <2>2
  <2>5. said[s] = heard[s] + Count(chan, Heard(s)) + Taken(s) + Count(pipe[s], Worth)
    BY <2>4 DEF Balanced
  <2>6. said[s] = heard'[s] + Count(chan', Heard(s)) + Taken(s) + Count(pipe[s], Worth)
    BY <1>3, <2>3, <2>4, <2>5
  <2> QED
    BY <1>0, <2>6 DEF Balanced
<1> QED
  BY <1>1, <1>2, <1>5, <1>6 DEF Caller

\* Only a reader shortens a pipe, and only a process lengthens it.
LEMMA PipeCut ==
  ASSUME TypeOK, NEW s \in Streams, Cut(s), [Next]_vars
  PROVE  Cut(s)'
<1> USE DEF request, task, stdin, procs, lines, registry, asker
<1>0. DOMAIN pipe = Streams /\ DOMAIN garbled = Streams /\ pipe[s] \in Seq(Lines)
  BY DEF TypeOK, TypeOfProcesses
<1>1. CASE UNCHANGED <<pipe, garbled>>
  BY <1>1 DEF Cut
<1>2. ASSUME NEW x \in Streams, Read(x) PROVE Cut(s)'
  <2>1. CASE x # s
    BY <1>0, <1>2, <2>1 DEF Read, Cut
  <2>2. CASE x = s
    <3>1. pipe[s] # <<>> /\ pipe'[s] = Tail(pipe[s]) /\ garbled' = garbled
      BY <1>0, <1>2, <2>2 DEF Read
    <3>2. /\ Len(Tail(pipe[s])) = Len(pipe[s]) - 1 /\ Len(pipe[s]) \in Nat
          /\ DOMAIN Tail(pipe[s]) = 1..Len(Tail(pipe[s])) /\ DOMAIN pipe[s] = 1..Len(pipe[s])
          /\ \A i \in 1..Len(Tail(pipe[s])) : Tail(pipe[s])[i] = pipe[s][i + 1]
      BY <1>0, <3>1, HeadTailProperties, LenProperties
    <3> DEFINE p == Tail(pipe[s])
    <3> SUFFICES ASSUME NEW i \in DOMAIN p, p[i] = "garbled"
                 PROVE  i = Len(p) /\ garbled[s]
      BY <3>1 DEF Cut
    <3>3. i + 1 \in DOMAIN pipe[s] /\ pipe[s][i + 1] = "garbled" /\ i \in Nat
      BY <3>2
    <3>4. i + 1 = Len(pipe[s]) /\ garbled[s]
      BY <3>3 DEF Cut
    <3> QED
      BY <3>2, <3>3, <3>4
  <2> QED
    BY <2>1, <2>2
<1>3. ASSUME NEW x \in Streams, NEW kind \in Kinds(x), WriteLine(x, kind) PROVE Cut(s)'
  <2>1. CASE x # s
    BY <1>0, <1>3, <2>1 DEF WriteLine, Cut
  <2>2. CASE x = s
    <3> DEFINE p == pipe'[s]
    <3>1. p = Append(pipe[s], kind) /\ garbled'[s] = (kind = "garbled") /\ ~garbled[s]
          /\ kind \in Lines
      BY <1>0, <1>3, <2>2 DEF WriteLine, Kinds, Lines
    <3>2. /\ Len(p) = Len(pipe[s]) + 1 /\ Len(pipe[s]) \in Nat /\ p \in Seq(Lines)
          /\ \A i \in 1..Len(pipe[s]) : p[i] = pipe[s][i]
          /\ p[Len(pipe[s]) + 1] = kind
      BY <1>0, <3>1, AppendProperties, LenProperties
    <3>3. DOMAIN p = 1..Len(p) /\ DOMAIN pipe[s] = 1..Len(pipe[s])
      BY <1>0, <3>2, LenProperties
    <3> HIDE DEF p
    <3>4. SUFFICES ASSUME NEW i \in DOMAIN p, p[i] = "garbled"
                   PROVE  i = Len(p) /\ garbled'[s]
      BY DEF Cut, p
    <3>5. i \notin DOMAIN pipe[s]
      BY <3>1, <3>2, <3>3, <3>4 DEF Cut
    <3>6. i = Len(pipe[s]) + 1
      BY <3>2, <3>3, <3>5
    <3> QED
      BY <3>1, <3>2, <3>4, <3>6
  <2> QED
    BY <2>1, <2>2
<1>4. \/ UNCHANGED <<pipe, garbled>>
      \/ \E x \in Streams : Read(x) \/ \E kind \in Kinds(x) : WriteLine(x, kind)
  <2>1. CASE Task
    BY <2>1 DEF Task, Start, Announce, Spawn, SpawnFails, WritePrompt, WriteFails, SpawnReaders,
                ChildExited, Kill, JoinReaders, ReportError, Finish, Unregister
  <2>2. CASE Caller \/ Terminate \/ UNCHANGED vars
    BY <2>2 DEF Caller, Returned, Skip, HearError, StopAtError, StopAtFinished, Hear, Answer,
                Elsewhere, Terminate, vars
  <2>3. CASE Processes
    BY <2>3 DEF Processes, ReadStdin, CloseStdin, Fork, Exit, KinExit
  <2>4. CASE \E x \in Streams : Reader(x)
    BY <2>4 DEF Reader, Forward, EndOfFile
  <2> QED
    BY <2>1, <2>2, <2>3, <2>4 DEF Next
<1> QED
  BY <1>1, <1>2, <1>3, <1>4

\* Only stdout carries fatal lines, and what a stream's reader forwards is its own.
LEMMA PlainStep ==
  ASSUME TypeOK, Plain, [Next]_vars
  PROVE  Plain'
<1> USE DEF request, task, stdin, procs, lines, registry, asker
<1>0. /\ DOMAIN pipe = Streams /\ pipe["err"] \in Seq(Lines) /\ DOMAIN rd = Streams
      /\ "err" \in Streams
  BY DEF TypeOK, TypeOfProcesses, TypeOfEvents, Streams
<1>1. CASE Task
  BY <1>0, <1>1 DEF Task, Start, Announce, Spawn, SpawnFails, WritePrompt, WriteFails,
                    SpawnReaders, ChildExited, Kill, JoinReaders, ReportError, Finish,
                    Unregister, Drops, Plain
<1>2. CASE Caller \/ Terminate \/ UNCHANGED vars
  BY <1>2 DEF Caller, Returned, Skip, HearError, StopAtError, StopAtFinished, Hear, Answer,
              Elsewhere, Terminate, vars, Plain
<1>3. CASE ReadStdin \/ CloseStdin \/ Fork \/ Exit \/ KinExit
  BY <1>3 DEF ReadStdin, CloseStdin, Fork, Exit, KinExit, Plain
<1>4. ASSUME NEW x \in Streams, NEW kind \in Kinds(x), WriteLine(x, kind) PROVE Plain'
  <2>1. CASE x # "err"
    BY <1>0, <1>4, <2>1 DEF WriteLine, Plain
  <2>2. CASE x = "err"
    <3> DEFINE q == pipe["err"]
               p == pipe'["err"]
    <3>1. p = Append(q, kind) /\ kind # "fatal" /\ rd' = rd /\ kind \in Lines
      BY <1>0, <1>4, <2>2 DEF WriteLine, Kinds, Lines
    <3>2. q \in Seq(Lines) /\ \A i \in DOMAIN q : q[i] # "fatal"
      BY <1>0 DEF Plain
    <3> HIDE DEF q, p
    <3>3. \A i \in DOMAIN p : p[i] # "fatal"
      BY <3>1, <3>2
    <3> QED
      BY <3>1, <3>3 DEF Plain, p
  <2> QED
    BY <2>1, <2>2
<1>5. ASSUME NEW x \in Streams, Forward(x) \/ EndOfFile(x) PROVE Plain'
  BY <1>0, <1>5 DEF Forward, EndOfFile, Plain
<1>6. ASSUME NEW x \in Streams, Read(x) PROVE Plain'
  <2>1. CASE x # "err"
    BY <1>0, <1>6, <2>1 DEF Read, Plain
  <2>2. CASE x = "err"
    <3> DEFINE q == pipe["err"]
    <3>1. /\ q # <<>> /\ pipe'["err"] = Tail(q)
          /\ rd'["err"] = CASE Head(q) = "garbled" -> "done"
                            [] Head(q) = "silent" -> "reading" [] OTHER -> Head(q)
      BY <1>0, <1>6, <2>2 DEF Read
    <3>2. q \in Seq(Lines) /\ \A i \in DOMAIN q : q[i] # "fatal"
      BY <1>0 DEF Plain
    <3> HIDE DEF q
    <3>3. Head(q) # "fatal" /\ \A i \in DOMAIN Tail(q) : Tail(q)[i] # "fatal"
      BY <3>1, <3>2
    <3> QED
      BY <3>1, <3>3 DEF Plain
  <2> QED
    BY <2>1, <2>2
<1> QED
  BY <1>1, <1>2, <1>3, <1>4, <1>5, <1>6 DEF Next, Processes, Reader

\* A reader ends at the end of its pipe, or at a line that is the last of it.
LEMMA EmptiedStep ==
  ASSUME TypeOK, Behind, \A s \in Streams : Cut(s), Emptied, [Next]_vars
  PROVE  Emptied'
<1> USE DEF request, task, stdin, procs, lines, registry, asker
<1>0. DOMAIN pipe = Streams /\ DOMAIN rd = Streams /\ \A s \in Streams : pipe[s] \in Seq(Lines)
  BY DEF TypeOK, TypeOfProcesses, TypeOfEvents
<1>1. CASE Task
  <2>1. CASE SpawnReaders
    BY <2>1 DEF SpawnReaders, Emptied, Behind, Last, Goes
  <2>2. CASE SpawnFails \/ WriteFails
    BY <2>2 DEF SpawnFails, WriteFails, Emptied, Behind, Last, Goes
  <2>3. CASE ~SpawnReaders /\ ~SpawnFails /\ ~WriteFails
    <3>1. rd' = rd /\ pipe' = pipe
      BY <1>1, <2>3 DEF Task, Start, Announce, Spawn, WritePrompt, ChildExited, Kill,
                        JoinReaders, ReportError, Finish, Unregister
    <3>2. /\ pc' \in {"waiting", "joining", "flushing"}
               => pc \in {"waiting", "joining", "flushing"}
          /\ ended' = "own" => ended = "own" \/ pc = "joining"
      BY <1>1, <2>3 DEF Task, Start, Announce, Spawn, WritePrompt, ChildExited, Kill,
                        JoinReaders, ReportError, Finish, Unregister, Goes
    <3> QED
      BY <3>1, <3>2 DEF Emptied
  <2> QED
    BY <2>1, <2>2, <2>3
<1>2. CASE Caller \/ Terminate \/ UNCHANGED vars
  BY <1>2 DEF Caller, Returned, Skip, HearError, StopAtError, StopAtFinished, Hear, Answer,
              Elsewhere, Terminate, vars, Emptied
<1>3. CASE Processes
  <2>1. UNCHANGED <<pc, ended, rd>> /\ \A s \in Streams : rd[s] = "done" => pipe'[s] = pipe[s]
    BY <1>0, <1>3 DEF Processes, ReadStdin, CloseStdin, Fork, Exit, KinExit, WriteLine
  <2> QED
    BY <2>1 DEF Emptied
<1>4. ASSUME NEW x \in Streams, Reader(x) PROVE Emptied'
  <2>0. UNCHANGED <<pc, ended>>
    BY <1>4 DEF Reader, Read, Forward, EndOfFile
  <2>1. \A s \in Streams : s # x => rd'[s] = rd[s] /\ pipe'[s] = pipe[s]
    BY <1>0, <1>4 DEF Reader, Read, Forward, EndOfFile
  <2>2. rd'[x] = "done" => pipe'[x] = <<>>
    <3>1. CASE EndOfFile(x)
      BY <1>0, <3>1 DEF EndOfFile
    <3>2. CASE Forward(x)
      BY <1>0, <3>2 DEF Forward
    <3>3. CASE Read(x)
      <4> DEFINE q == pipe[x]
      <4>1. /\ q # <<>> /\ pipe'[x] = Tail(q) /\ q \in Seq(Lines)
            /\ rd'[x] = CASE Head(q) = "garbled" -> "done"
                          [] Head(q) = "silent" -> "reading" [] OTHER -> Head(q)
        BY <1>0, <3>3 DEF Read
      <4>2. \A i \in DOMAIN q : q[i] = "garbled" => i = Len(q)
        BY DEF Cut
      <4> HIDE DEF q
      <4>3. Head(q) \in Lines /\ Head(q) = q[1] /\ 1 \in DOMAIN q
        BY <4>1
      <4>4. rd'[x] = "done" => Len(q) = 1
        BY <4>1, <4>2, <4>3 DEF Lines
      <4>5. Len(q) = 1 => Tail(q) = <<>>
        BY <4>1
      <4> QED
        BY <4>1, <4>4, <4>5
    <3> QED
      BY <1>4, <3>1, <3>2, <3>3 DEF Reader
  <2> QED
    BY <2>0, <2>1, <2>2 DEF Emptied
<1> QED
  BY <1>1, <1>2, <1>3, <1>4 DEF Next

\* Told the child's own code, the caller has taken Finished, the last of the channel.
LEMMA OwnCodeStep ==
  ASSUME IInv, Output, [Next]_vars
  PROVE  OwnCode'
<1> USE DEF request, task, stdin, procs, lines, registry, asker
<1>1. CASE StopAtFinished
  <2> SUFFICES ASSUME answer' = "own"
               PROVE  /\ call' = "done" /\ ended' = "own"
                      /\ \A s \in Streams : heard'[s] = said'[s]
    BY DEF OwnCode
  <2>1. /\ ended = "own" /\ ended' = "own" /\ call = "draining" /\ call' = "done"
        /\ chan # <<>> /\ Head(chan) = "finished" /\ heard' = heard /\ said' = said
    BY <1>1 DEF StopAtFinished, Answer, Comes, Elsewhere
  <2>2. chan \in Seq(Events)
    BY DEF IInv, TypeOK, TypeOfEvents
  <2>3. Joined
    BY <2>1 DEF IInv, Behind
  <2>4. /\ 1 \in DOMAIN chan /\ chan[1] = "finished" /\ Len(chan) \in Nat
        /\ DOMAIN chan = 1..Len(chan)
    BY <2>1, <2>2, LenProperties, EmptySeq
  <2>5. Len(chan) = 1
    BY <2>1, <2>4 DEF IInv, Ending, FinishedIsLast
  <2>6. ASSUME NEW s \in Streams PROVE heard[s] = said[s]
    <3>1. Count(chan, Heard(s)) = 0
      <4>1. \A i \in DOMAIN chan : chan[i] \notin Heard(s)
        BY <2>4, <2>5 DEF Heard
      <4> QED
        BY <2>2, <4>1, CountType
    <3>2. rd[s] = "done" /\ pipe[s] = <<>>
      BY <2>1, <2>3 DEF Joined, Output, Emptied
    <3>3. Taken(s) = 0
      BY <3>2 DEF Taken, Worth
    <3>4. Count(pipe[s], Worth) = 0
      <4>1. pipe[s] \in Seq(Lines) /\ DOMAIN pipe[s] = {}
        BY <3>2, OutputTypes, EmptySeq, LenProperties DEF IInv
      <4> QED
        BY <4>1, CountType
    <3>5. heard[s] \in Nat
      BY OutputTypes DEF IInv
    <3> QED
      BY <2>1, <3>1, <3>3, <3>4, <3>5 DEF Output, Balanced
  <2> QED
    BY <2>1, <2>6
<1>2. CASE ~StopAtFinished
  <2> SUFFICES ASSUME answer' = "own"
               PROVE  /\ call' = "done" /\ ended' = "own"
                      /\ \A s \in Streams : heard'[s] = said'[s]
    BY DEF OwnCode
  <2>1. answer = "own"
    BY <1>2 DEF Next, Task, Start, Announce, Spawn, SpawnFails, WritePrompt, WriteFails,
           SpawnReaders, ChildExited, Kill, JoinReaders, ReportError, Finish, Unregister,
           Caller, Returned, Skip, HearError, StopAtError, Hear, Answer, Elsewhere, Terminate,
           Processes, ReadStdin, CloseStdin, Fork, Exit, KinExit, WriteLine, Reader, Read,
           Forward, EndOfFile, vars
  <2>2. call = "done" /\ ended = "own" /\ \A s \in Streams : heard[s] = said[s]
    BY <2>1 DEF Output, OwnCode
  <2>3. pc \in Last /\ \A s \in Streams : rd[s] = "done"
    BY <2>2 DEF IInv, Behind, Joined
  <2>4. CASE Task
    BY <2>2, <2>3, <2>4 DEF Task, Start, Announce, Spawn, SpawnFails, WritePrompt, WriteFails,
           SpawnReaders, ChildExited, Kill, JoinReaders, ReportError, Finish, Unregister,
           Goes, Last
  <2>5. CASE Caller \/ Terminate \/ UNCHANGED vars
    BY <1>2, <2>2, <2>5 DEF Caller, Returned, Skip, HearError, StopAtError, Hear, Answer,
           Comes, Elsewhere, Terminate, vars
  <2>6. CASE Processes \/ \E x \in Streams : Reader(x)
    BY <2>2, <2>3, <2>6 DEF Processes, ReadStdin, CloseStdin, Fork, Exit, KinExit, WriteLine,
           Reader, Read, Forward, EndOfFile
  <2> QED
    BY <2>4, <2>5, <2>6 DEF Next
<1> QED
  BY <1>1, <1>2

LEMMA OutputStep == IInv /\ Output /\ [Next]_vars => Output'
<1> SUFFICES ASSUME IInv, Output, [Next]_vars PROVE Output'
  OBVIOUS
<1>1. ASSUME NEW s \in Streams PROVE Balanced(s)' /\ Cut(s)'
  <2>1. Balanced(s) /\ Cut(s)
    BY DEF Output
  <2>2. Cut(s)'
    BY <2>1, PipeCut DEF IInv
  <2>3. Balanced(s)'
    BY <2>1, TaskBalanced, ReaderBalanced, ProcessesBalanced, CallerBalanced
       DEF IInv, Output, Next
  <2> QED
    BY <2>2, <2>3
<1>2. Plain' /\ Emptied'
  BY PlainStep, EmptiedStep DEF IInv, Output
<1>3. OwnCode'
  BY OwnCodeStep
<1> QED
  BY <1>1, <1>2, <1>3 DEF Output

\* A caller told the child's own exit code has heard everything that was said, however
\* small the pipes and the channel and whoever wrote it.
THEOREM OutputIsWhole == Spec => []WholeOutput
<1>1. Init => IInv /\ Output
  BY InitType, InitFacts, InitOutput DEF IInv, Facts
<1>2. IInv /\ Output /\ [Next]_vars => (IInv /\ Output)'
  BY IInvStep, OutputStep
<1>3. Output => WholeOutput
  BY DEF Output, OwnCode, WholeOutput
<1> QED
  BY <1>1, <1>2, <1>3, PTL DEF Spec

=============================================================================
