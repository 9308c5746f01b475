CONSTANTS
  Arches <- MCX86
  MaxTicks = 2
SPECIFICATION Spec
INVARIANT BothRestored
