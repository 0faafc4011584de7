SPECIFICATION Spec
CONSTANTS
  r = r
  space = space
  one = one
  a = a
  dollar = dollar
  reply = reply
  R = r
  Space = space
  Blank = Blank
  NewLine = NewLine
  Backspace = Backspace
  Letters <- MCLetters
  Replies <- MCReplies
  Prompt <- MCPrompt
  Greetings <- MCGreetings
  Unknown <- MCUnknown
  HexValue <- MCHexValue
  Cols = 3
  Rows = 2
  MaxLine = 4
INVARIANTS TypeOK ScreenShowsBuffer TypedIsShown
PROPERTY ImplementsTextWindow
CHECK_DEADLOCK FALSE
