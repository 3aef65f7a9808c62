SPECIFICATION Spec
CONSTANTS
  Paths <- MCPaths
  Within <- MCWithin
  Ignored = {"log"}
  Control = "ctl"
  Values <- MCValues
  Absent = "-"
  Smudged <- MCSmudged
  Start <- MCStart
  Imports <- MCImports
  EarlyEdits <- AnyEdit
  LateEdits <- ControlEdit
  Elsewhere <- MCElsewhere
  MaxRuns = 1
  MaxDev = 1
PROPERTIES
  NoEditLost
CHECK_DEADLOCK FALSE
