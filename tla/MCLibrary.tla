------------------------------ MODULE MCLibrary ------------------------------
(***************************************************************************)
(* The machines that have no process or thread but their own, checked in one *)
(* run: a behaviour is one of the chosen machine, the variables of the others *)
(* are None.                                                                 *)
(***************************************************************************)
EXTENDS Naturals, TLC, MCCrossing, MCJourneys

CONSTANTS r1, r2, Machines,
          Base, Sources, Requests, Prints, Documents,
          Commands, Dumped, ByHand \* what the other machines are given

VARIABLES
  read, config, failed,  \* ConfigCompile
  request, step, args, env, hooks, child,  \* Launch
  print, at, calls, held, depth, last, events,  \* OutputParsers
  files, found, commands  \* GeneratedOverlay

SourceInputs == INSTANCE MCConfigCompile WITH Blank <- "none"
ConfiguredInputs == INSTANCE MCConfigured
RunInputs == INSTANCE MCRunProvider
LaunchInputs == INSTANCE MCLaunch
OutputInputs == INSTANCE MCOutputParsers
OverlayInputs == INSTANCE MCGeneratedOverlay

MCKinds == {"animus.task", "animus.requirement", "custom"} \cup {"ANIMUS.TASK", "Custom", "linear.issue"}
MCFoldedKind == ("ANIMUS.TASK" :> "animus.task") @@ ("Custom" :> "custom") @@ [k \in MCKinds |-> k]
MCTexts == {"", "schedule:n", "n"}
MCScheduled == "schedule:n" :> "n"
MCBase == SourceInputs!MCBase
MCSources == SourceInputs!MCSources
MCConfigs == ConfiguredInputs!MCConfigs
MCFoldedName == ConfiguredInputs!MCFolded
MCInputs == RunInputs!MCInputs
MCScripts == RunInputs!MCScripts
MCTokens == {"head", "key", "close", "junk", "blank", "newline"}
MCRules == ConfiguredInputs!MCRules
MCPatterns == ConfiguredInputs!MCPatterns
MCCalls == ConfiguredInputs!MCCalls
MCRequests == LaunchInputs!MCRequests
MCPrints == OutputInputs!MCPrints
MCDocuments == OutputInputs!MCDocuments
MCCommands == OverlayInputs!MCCommands
MCDumped == OverlayInputs!MCDumped
MCByHand == OverlayInputs!MCByHand

Compiles ==
  INSTANCE ConfigCompile WITH
    MaxFiles <- 2, Folded <- SourceInputs!MCFolded, ToolFor <- SourceInputs!MCToolFor,
    Disk <- SourceInputs!MCDisk, Blank <- "none"
Launches == INSTANCE Launch WITH Credentials <- LaunchInputs!MCCredentials
Outputs == INSTANCE OutputParsers
Overlays ==
  INSTANCE GeneratedOverlay WITH Folded <- OverlayInputs!MCFolded, MaxCommands <- 3

compileVars == <<read, config, failed>>
launchVars == <<request, step, args, env, hooks, child>>
outputVars == <<print, at, calls, held, depth, last, events>>
overlayVars == <<files, found, commands>>

vars == <<journeyVars,
          compileVars,
          launchVars,
          outputVars,
          overlayVars>>

\* The machine m begins, or steps; the others are not there.
CompileInit ==
  IF machine = "compile" THEN Compiles!Init
  ELSE read = None /\ config = None /\ failed = None
LaunchInit ==
  IF machine = "launch" THEN Launches!Init
  ELSE request = None /\ step = None /\ args = None /\ env = None /\ hooks = None /\
       child = None
OutputInit ==
  IF machine = "output" THEN Outputs!Init
  ELSE print = None /\ at = None /\ calls = None /\ held = None /\ depth = None /\ last
       = None /\ events = None
OverlayInit ==
  IF machine = "overlay" THEN Overlays!Init
  ELSE files = None /\ found = None /\ commands = None

Init ==
  /\ machine \in Machines
  /\ JourneyInit /\ CompileInit /\ LaunchInit /\ OutputInit /\ OverlayInit

Next ==
  /\ JourneyNext
  /\ IF machine = "compile" THEN Compiles!Next ELSE UNCHANGED compileVars
  /\ IF machine = "launch" THEN Launches!Next ELSE UNCHANGED launchVars
  /\ IF machine = "output" THEN Outputs!Next ELSE UNCHANGED outputVars
  /\ IF machine = "overlay" THEN Overlays!Next ELSE UNCHANGED overlayVars

\* The runtime schedules the tasks of run_provider.
Fairness ==
  /\ WF_providerVars(machine = "provider" /\ Runner!Read)
  /\ WF_providerVars(machine = "provider" /\ Runner!Forward)
  /\ \A r \in Runs :
       WF_providerVars(machine = "provider" /\ Runner!Work(r))

Spec == Init /\ [][Next]_vars /\ Fairness

--------------------------------------------------------------------------------
(* Properties: those of the machines, each where it is at work.             *)

\* Of what several sources declare, the last stands, and agents' model chains are whole
\* (ConfigCompile).
CompiledAsDeclared == machine = "compile" => Compiles!LastDeclarationWins /\ Compiles!ChainIsWhole
\* run_provider answers every run it read, or leaves (RunProvider).
RunsAnswered == Runner!RunsAnswered
\* Whatever environment was asked for, in the request or its contract, the child has
\* (Launch): violated.
EnvironmentReaches == machine = "launch" => Launches!EnvironmentReaches
\* What clears a field is still read as clearing it (Crossing): violated.
ClearingClears == machine = "crossing" => Wires!ClearingClears
===============================================================================
