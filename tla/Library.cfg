SPECIFICATION Spec
CONSTANTS
  None = None
  Machines = {"crossing", "subject", "compile", "expand", "provider", "policy", "launch",
              "output", "framing", "overlay"}
  r1 = r1
  r2 = r2
  Types <- MCTypes
  Mirrors <- MCMirrors
  Base <- MCBase
  Sources <- MCSources
  Configs <- MCConfigs
  FoldedName <- MCFoldedName
  Inputs <- MCInputs
  Scripts <- MCScripts
  Tokens <- MCTokens
  MaxInput = 6
  MaxChunk = 2
  Rules <- MCRules
  Patterns <- MCPatterns
  Calls <- MCCalls
  Defaults = {"defer", "ask", "deny"}
  MaxRules = 3
  Requests <- MCRequests
  Prints <- MCPrints
  Documents <- MCDocuments
  Commands <- MCCommands
  Dumped <- MCDumped
  ByHand <- MCByHand
  Kinds <- MCKinds
  Texts <- MCTexts
  FoldedKind <- MCFoldedKind
  Scheduled <- MCScheduled
  MaxCrossings = 3
  MaxRelays = 2
  Runs = {r1, r2}
  MaxLogs = 1
INVARIANTS
  ValuesSurvive IdentityKept CompiledAsDeclared ExpandedAsWritten RunReported PolicyHolds
    FramesWhole 
PROPERTY RunsAnswered
CHECK_DEADLOCK FALSE
