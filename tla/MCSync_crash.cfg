SPECIFICATION Spec
CONSTANTS
  Branches <- MCBranches
  NameOrder <- MCOrder
  Configured <- MCConfigured
  Recreatable = {"main"}
  Paths <- MCPaths
  Excluded <- MCExcluded
  ControlFile = "ctl"
  Values <- MCValues
  Private = {"secret"}
  Pinned = "pinned"
  Absent = "-"
  Clones = {c1}
  Origins = {"graft", "orphan", "merge"}
  DevEdits <- ControlDev
  CustomerEdits <- CustomerA
  Forcible = {"feat"}
  MaxRaceRetries = 1
  MaxRuns = 3
  MaxCrashes = 1
  MaxDev = 2
  MaxCustomer = 1
INVARIANTS
  ImportedOnce
PROPERTIES
  NoRivalCopies
  PushedTipIsResumable
  NeverRecreatedImplicitly
CHECK_DEADLOCK FALSE
