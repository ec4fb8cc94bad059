------------------------------- MODULE MCJourneys -------------------------------
(***************************************************************************)
(* The machines of MCLibrary that theorems are about: what has crossed a     *)
(* process boundary (a value of a protocol's type, a subject, what a run     *)
(* tells), what is made of a configuration (the verdict of its policies, a   *)
(* workflow's phases), and the frames cut out of what is read. A behaviour   *)
(* is one of the chosen machine, the variables of the others are None.       *)
(***************************************************************************)
EXTENDS Naturals

CONSTANTS None,
          Types, Mirrors, MaxRelays, \* Crossing
          Kinds, Texts, FoldedKind, Scheduled, MaxCrossings, \* SubjectIdentity
          Runs, Scripts, Inputs, MaxLogs, \* RunProvider
          Rules, Patterns, Calls, Defaults, MaxRules, \* Policies
          Configs, FoldedName, \* WorkflowExpansion
          Tokens, MaxInput, MaxChunk \* Framing

VARIABLES
  machine, \* the one that is at work
  message,  \* Crossing
  sent, dispatch, runInput, hops,  \* SubjectIdentity
  input, open, process, script, task, pending, given, ended, acc, logs, logged, stdout, \* RunProvider
  rules, default, allow, deny, approvalDefault,  \* Policies
  flows, goal, stack, active, seen, result, status,  \* WorkflowExpansion
  bytes, base, pc, dispatched  \* Framing

Wires == INSTANCE Crossing WITH MaxHops <- MaxRelays
Subjects ==
  INSTANCE SubjectIdentity WITH
    Folded <- FoldedKind, MaxHops <- MaxCrossings, input <- runInput
Runner == INSTANCE RunProvider
Rulings == INSTANCE Policies
Expands == INSTANCE WorkflowExpansion WITH Folded <- FoldedName, config <- flows
Splits == INSTANCE Framing WITH input <- bytes

\* The constants the machines are given are such as they take.
ASSUME SubjectAssumption == Subjects!SubjectConstants
ASSUME RunAssumption == Runner!RunConstants
ASSUME RelayAssumption == MaxRelays \in Nat \ {0}
ASSUME PolicyAssumption == Rulings!PolicyConstants
ASSUME FlowAssumption == Expands!FlowConstants
ASSUME FrameAssumption == Splits!FramingConstants

crossingVars == <<message>>
subjectVars == <<sent, dispatch, runInput, hops>>
providerVars == <<input, open, process, script, task, pending, given, ended, acc, logs, logged, stdout>>
policyVars == <<rules, default, allow, deny, approvalDefault>>
expandVars == <<flows, goal, stack, active, seen, result, status>>
framingVars == <<bytes, base, pc, dispatched>>
journeyVars ==
  <<machine, crossingVars, subjectVars, providerVars, policyVars, expandVars, framingVars>>

\* The machine m begins, or steps; the others are not there.
CrossingInit ==
  IF machine = "crossing" THEN Wires!Init
  ELSE message = None
SubjectInit ==
  IF machine = "subject" THEN Subjects!Init
  ELSE sent = None /\ dispatch = None /\ runInput = None /\ hops = None
ProviderInit ==
  IF machine = "provider" THEN Runner!Init
  ELSE /\ input = None /\ open = None /\ process = None /\ script = None
       /\ task = [r \in Runs |-> "none"] \* which the fairness of its steps looks at
       /\ pending = None /\ given = None /\ ended = None /\ acc = None
       /\ logs = None /\ logged = None /\ stdout = None
PolicyInit ==
  IF machine = "policy" THEN Rulings!Init
  ELSE /\ rules = None /\ default = None /\ allow = None /\ deny = None
       /\ approvalDefault = None
ExpandInit ==
  IF machine = "expand" THEN Expands!Init
  ELSE /\ flows = None /\ goal = None /\ stack = None /\ active = None
       /\ seen = None /\ result = None /\ status = None
FramingInit ==
  IF machine = "framing" THEN Splits!Init
  ELSE bytes = None /\ base = None /\ pc = None /\ dispatched = None

JourneyInit ==
  CrossingInit /\ SubjectInit /\ ProviderInit /\ PolicyInit /\ ExpandInit /\ FramingInit

JourneyNext ==
  /\ UNCHANGED machine
  /\ IF machine = "crossing" THEN Wires!Next ELSE UNCHANGED crossingVars
  /\ IF machine = "subject" THEN Subjects!Next ELSE UNCHANGED subjectVars
  /\ IF machine = "provider" THEN Runner!Next ELSE UNCHANGED providerVars
  /\ IF machine = "policy" THEN Rulings!Next ELSE UNCHANGED policyVars
  /\ IF machine = "expand" THEN Expands!Next ELSE UNCHANGED expandVars
  /\ IF machine = "framing" THEN Splits!Next ELSE UNCHANGED framingVars

JourneySpec == JourneyInit /\ [][JourneyNext]_journeyVars

--------------------------------------------------------------------------------
(* Properties: those of the machines, each where it is at work.             *)

\* What crosses a process boundary is understood as it was sent, or refused whole, and
\* the attributes of every type agree (Crossing).
ValuesSurvive == machine = "crossing" => Wires!Survives /\ Wires!DeclaredAlike
\* A subject keeps its identity through every form it takes (SubjectIdentity).
IdentityKept == machine = "subject" => Subjects!IdentitySurvives /\ Subjects!RunKnowsSubject
\* What run_provider answers is what it told on the way (RunProvider).
RunReported == machine = "provider" => Runner!RunReported
\* The stricter rule stands, and the two ways to match a name agree (Policies).
PolicyHolds == machine = "policy" => Rulings!DenyStands /\ Rulings!GlobsAgree
\* A workflow expands to its own phases and those of its sub-workflows, and what publishes
\* does so once (WorkflowExpansion).
ExpandedAsWritten == machine = "expand" => Expands!ExpandsWhole /\ Expands!OneReceipt
\* Frames are cut out of the input whatever the reads, and none is lost (Framing).
FramesWhole ==
  machine = "framing" => Splits!ChunkIndependent /\ Splits!OnlyWholeFrames /\ Splits!NoFrameLost
================================================================================
