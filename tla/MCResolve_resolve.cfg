SPECIFICATION RSpec
CONSTANTS
  Branches <- MCBranches
  NameOrder <- MCOrder
  Configured <- MCConfigured
  Recreatable = {}
  Paths <- MCPaths
  Excluded <- MCExcluded
  ControlFile = "ctl"
  Values <- MCValues
  Private = {"secret"}
  Pinned = "pinned"
  Absent = "-"
  Clones = {c1}
  Origins = {"graft"}
  DevEdits <- DevA
  CustomerEdits <- CustomerFlip
  Forcible = {}
  OperatorEdits <- Smuggle
  MaxRaceRetries = 0
  MaxRuns = 1
  MaxCrashes = 0
  MaxDev = 3
  MaxCustomer = 2
  Budgets <- MCBudgets
INVARIANTS
  RTypeOK
  NoLeak
  ImportsAreGapless
PROPERTIES
  FinishKeepsContent
  ResolveDiscardsNothing
  ResolutionUnblocks
CHECK_DEADLOCK FALSE
