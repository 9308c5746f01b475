CONSTANTS
  MemoryMaps <- MCMemoryMaps
  HhdmOffset = 16
  StaticArena <- MCStaticArena
  Requests <- MCRequests
SPECIFICATION Spec
INVARIANTS
  Tiled
  BlocksAccounted
  GrantsInside
  NoAdjacentFree
PROPERTY
  ImplementsAllocator
