SPECIFICATION Spec
CONSTANTS
  Branches <- MCBranches
  NameOrder <- MCOrder
  Configured <- MCConfigured
  Recreatable = {}
  Paths <- MCPaths
  Excluded <- MCExcluded
  ControlFile = "ctl"
  Values <- MCValues
  Private = {"secret"}
  Pinned = "pinned"
  Absent = "-"
  Clones = {c1}
  Origins = {"merge"}
  DevEdits <- PublicDev
  CustomerEdits <- NoEdits
  Forcible = {"feat"}
  MaxRaceRetries = 1
  MaxRuns = 1
  MaxCrashes = 0
  MaxDev = 2
  MaxCustomer = 0
PROPERTIES
  MirrorsWhatItPushes
CHECK_DEADLOCK FALSE
