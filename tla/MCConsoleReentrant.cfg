CONSTANTS
  Cols = 4
  Rows = 2
  TabStop = 2
  Blank = "."
  Printable = {"a"}
  Controls = {}
  Message <- OneChar
  MaxChars = 3
  MaxIrqs = 1
SPECIFICATION Spec
INVARIANT NothingLost
CHECK_DEADLOCK FALSE
