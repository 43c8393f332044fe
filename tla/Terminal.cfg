CONSTANTS
  COLS = 2
  LAST = 2
  CLOCK = 1
  NUL = nul
  Newline = newline
  Blank = blank
  Text = text
  Clock = clock
  ERASE = erase
  QUOTE = quote
  Star = star
  Bar = bar
  Keys <- MCKeys
  Space = space
  keyboard_map <- MCMap
  keyboard_upper_map <- MCUpperMap
  Chars = {nul, newline, space, erase, quote}
  PRESSED = 3
  Beyond = {newline, erase}
  MaxEvents = 4
  RESULT = 4
  Prompts = {1}
  Outputs <- MCOutputs
  Messages <- MCMessages
SPECIFICATION Spec
INVARIANTS TypeOK LineIsTyped NothingBehindText OutputAboveLast CursorReturns EchoIsLine
PROPERTY EnterEndsScanf
