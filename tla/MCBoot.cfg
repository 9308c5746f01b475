CONSTANTS
  Machines <- MCMachines
  VramSize = 44
  MaxTicks = 2
  MaxKeys = 1
SPECIFICATION FairSpec
INVARIANTS
  NeverLost
  OutcomeNamesCause
  SurfaceExact
PROPERTY
  BootEnds
CHECK_DEADLOCK FALSE
