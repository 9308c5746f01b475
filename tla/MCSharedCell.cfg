CONSTANTS
  c1 = c1
  c2 = c2
  c3 = c3
  v1 = v1
  v2 = v2
  Contexts <- MCContexts
  Users <- MCContexts
  Values <- MCValues
  Uninit = Uninit
  None = None
  MaxUpdates = 2
SPECIFICATION FairSpec
INVARIANTS
  GuardsExclusive
  NoLostUpdate
  WinnerAgreed
PROPERTIES
  ImplementsWriteOnce
  CallsReturn
CHECK_DEADLOCK FALSE
