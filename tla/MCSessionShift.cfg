CONSTANTS
  Devices <- MCDevices
  Keys <- MCKeys
  TerminalBytes <- MCTerminalBytes
  Capacity = 2
  MaxStrokes = 4
  Layout <- MCLayout
  ScreenW = 5
  ScreenH = 4
  WIDTH = 2
  HEIGHT = 2
  MOVE_STEP = 2
  MaxLaunches = 1
SPECIFICATION Spec
PROPERTY
  ShiftInSync
