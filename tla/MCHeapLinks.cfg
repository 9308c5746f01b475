CONSTANTS
  MemoryMaps <- MCMemoryMaps
  HhdmOffset = 16
  StaticArena <- MCStaticArena
  Requests <- MCRequests
SPECIFICATION MemSpec
INVARIANTS
  MemorySound
PROPERTY
  ImplementsHeap
VIEW Relevant
