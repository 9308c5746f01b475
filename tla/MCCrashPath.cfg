CONSTANTS
  Arches <- MCArches
  DumpParts = 2
  MaxCrashes = 3
SPECIFICATION FairSpec
INVARIANTS
  NeverWedged
  ReportOnWire
  PanelWhole
PROPERTY
  CrashHalts
CHECK_DEADLOCK FALSE
