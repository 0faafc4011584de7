SPECIFICATION Spec
CONSTANTS
  manager = manager
  window = window
  child = child
  button = button
  terminal = terminal
  Root = manager
  Windows <- MCWindows
  Buttons = {button}
  Terminals = {terminal}
  ParentOf <- MCParentOf
  SizeOf <- MCSizeOf
  InitKids <- MCInitKids
  InitPos <- MCInitPos
  CursorSize <- MCCursorSize
  Offsets <- MCOffsets
  EarlyOffsets <- MCEarlyOffsets
  Outline = 1
  TitleBar = 0
  DragHeight = 3
  MinTicks = 0
  MaxDeeds = 3
  Nobody = Nobody
INVARIANTS TypeOK CaptureChain DragFollowsMouse KeysGoToLastClicked FocusOnTop ScreenIsRight
PROPERTY ImplementsClicks
