CONSTANTS
  Arches <- MCArches
  MaxTicks = 4
  Second = 2
  MaxElapsed = 2
SPECIFICATION MonitorSpec
INVARIANTS
  ThreadUndisturbed
  IdleWithinTime
  MonitorTells
PROPERTY
  SleepEnds
CHECK_DEADLOCK FALSE
