SPECIFICATION Spec
CONSTANTS
  None = None
  Machines = {"launch"}
  r1 = r1
  r2 = r2
  Types <- MCTypes
  Mirrors <- MCMirrors
  Base <- MCBase
  Sources <- MCSources
  Configs <- MCConfigs
  FoldedName <- MCFoldedName
  Inputs <- MCInputs
  Scripts <- MCScripts
  Tokens <- MCTokens
  MaxInput = 6
  MaxChunk = 2
  Rules <- MCRules
  Patterns <- MCPatterns
  Calls <- MCCalls
  Defaults = {"defer", "ask", "deny"}
  MaxRules = 3
  Requests <- MCRequests
  Prints <- MCPrints
  Documents <- MCDocuments
  Commands <- MCCommands
  Dumped <- MCDumped
  ByHand <- MCByHand
  Kinds <- MCKinds
  Texts <- MCTexts
  FoldedKind <- MCFoldedKind
  Scheduled <- MCScheduled
  MaxCrossings = 3
  MaxRelays = 2
  Runs = {r1, r2}
  MaxLogs = 1
INVARIANT EnvironmentReaches
CHECK_DEADLOCK FALSE
