CONSTANTS
  Cols = 4
  Rows = 3
  Blank = Blank
  Newline = Newline
  Return = Return
  Tab = Tab
  Window = Window
  MaxLine = 6
  Glyphs <- MCGlyphs
  PROMPT <- MCPrompt
  Banner <- MCBanner
  Replies <- MCReplies
SPECIFICATION Spec
INVARIANTS
  ScreenFresh
  TextInPlace
  WireAgrees
