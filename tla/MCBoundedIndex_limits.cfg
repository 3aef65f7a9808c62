SPECIFICATION Spec
CONSTANTS
  Branches <- MCBranches
  NameOrder <- MCOrder
  Configured <- MCConfigured
  Recreatable = {}
  Paths <- MCPaths
  Excluded <- MCExcluded
  ControlFile = "ctl"
  Values <- MCValues
  Private = {"secret"}
  Pinned = "pinned"
  Absent = "-"
  Clones = {c1}
  Origins = {"mirrored"}
  DevEdits <- MCDev
  CustomerEdits <- MCCustomer
  Forcible = {"feat"}
  MaxRaceRetries = 1
  MaxRuns = 1
  MaxCrashes = 0
  MaxDev = 2
  MaxCustomer = 2
  BranchLimits = {1, 2, 3}
  ScanLimits = {1, 2, 9}
  EntryLimits = {1, 2, 9}
INVARIANTS
  AnchorIsExactOrRefused
  SharedIsExactOrUnobserved
  AbsenceIsReal
CHECK_DEADLOCK FALSE
