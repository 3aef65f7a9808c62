SPECIFICATION Spec
CONSTANTS
  Configured <- MCConfigured
  Unmanaged = "topic"
  ControlFiles <- MCFiles
  Heads <- MCHeads
  Existing <- MCExisting
  MaxRuns = 2
  MaxCrashes = 1
  MaxDest = 1
  MaxDev = 1
INVARIANTS
  SetupInv
  RegraftedOnlyUnderWork
PROPERTIES
  NoCommitLostByGraft
  ImplementsTransaction
CHECK_DEADLOCK FALSE
