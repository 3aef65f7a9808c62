SPECIFICATION FairSpec
CONSTANTS
  MaxInput = 3
  StdinLimit = 2
  PipeBytes = 1
  ChunkBytes = 1
  ChannelCapacity = 2
  StreamLimit <- MCStreamLimit
  TotalLimit = 2
  MaxWritten = 3
INVARIANTS
  CompleteOutput
  CaptureBounded
  NothingLeftRunning
PROPERTIES
  ExitIsNoticed
  Terminates
  WorkIsServed
CHECK_DEADLOCK FALSE
