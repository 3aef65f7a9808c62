SPECIFICATION HSpec
CONSTANTS
  Branches <- MCBranches
  NameOrder <- MCOrder
  Configured <- MCConfigured
  Recreatable = {"main"}
  Paths <- MCPaths
  Excluded <- MCExcluded
  ControlFile = "ctl"
  Values <- MCValues
  Private = {"secret"}
  Pinned = "pinned"
  Absent = "-"
  Clones = {c1}
  Origins = {"graft", "mirrored"}
  DevEdits <- MixedDev
  CustomerEdits <- CustomerA
  Forcible = {"main", "feat"}
  MaxRaceRetries = 1
  MaxRuns = 2
  MaxCrashes = 0
  MaxDev = 2
  MaxCustomer = 1
INVARIANTS
  TypeOK
  NoLeak
  OwnMirrorNeverImported
PROPERTIES
  SyncSettles
  RoundTrippedFastForwards
  NoCustomerWorkDiscarded
CHECK_DEADLOCK FALSE
