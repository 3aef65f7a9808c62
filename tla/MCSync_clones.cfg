SPECIFICATION Spec
CONSTANTS
  Branches <- MCBranches
  NameOrder <- MCOrder
  Configured <- MCConfigured
  Recreatable = {}
  Paths <- MCPaths
  Excluded <- MCExcluded
  ControlFile = "ctl"
  Values <- MCValues
  Private = {"secret"}
  Pinned = "pinned"
  Absent = "-"
  Clones = {c1, c2}
  Origins = {"mirrored"}
  DevEdits <- PublicDev
  CustomerEdits <- NoEdits
  Forcible = {"feat"}
  MaxRaceRetries = 1
  MaxRuns = 2
  MaxCrashes = 0
  MaxDev = 3
  MaxCustomer = 0
SYMMETRY ClonePermutations
PROPERTIES
  ForcedRebuildFollowsRewrite
  ImportKeepsDeveloperWork
  ReuseMatchesReplay
  StaysInStep
CHECK_DEADLOCK FALSE
