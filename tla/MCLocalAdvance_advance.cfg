SPECIFICATION Spec
CONSTANTS
  Paths <- MCPaths
  Within <- MCWithin
  Ignored = {"log"}
  Control = "ctl"
  Values <- MCValues
  Absent = "-"
  Smudged <- MCSmudged
  Start <- MCStart
  Imports <- MCImports
  EarlyEdits <- AnyEdit
  LateEdits <- PlainEdit
  Elsewhere <- MCElsewhere
  MaxRuns = 2
  MaxDev = 2
INVARIANTS
  AdvanceInv
  PreflightIsSound
  AdvanceIsExact
PROPERTIES
  NoEditLost
  NoCommitLost
CHECK_DEADLOCK FALSE
