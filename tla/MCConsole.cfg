CONSTANTS
  Cols = 4
  Rows = 2
  TabStop = 2
  Blank = "."
  Printable = {"a", "b"}
  Controls <- AllControls
  Message <- ShortMessage
  MaxChars = 5
  MaxIrqs = 2
SPECIFICATION Spec
INVARIANTS ShowsTerminal StaysInMemory
CHECK_DEADLOCK FALSE
