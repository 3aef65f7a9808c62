SPECIFICATION FairSpec
CONSTANTS
  Branches <- MCBranches
  NameOrder <- MCOrder
  Configured <- MCConfigured
  Recreatable = {"main"}
  Paths <- MCPaths
  Excluded <- MCExcluded
  ControlFile = "ctl"
  Values <- MCValues
  Private = {"secret"}
  Pinned = "pinned"
  Absent = "-"
  Clones = {c1}
  Origins = {"graft", "mirrored"}
  DevEdits <- OneDev
  CustomerEdits <- CustomerA
  Forcible = {"feat"}
  MaxRaceRetries = 1
  MaxRuns = 1
  MaxCrashes = 1
  MaxDev = 1
  MaxCustomer = 2
PROPERTIES
  RunTerminates
  RunDescends
CHECK_DEADLOCK FALSE
